---------------------------- MODULE BlockProofs ----------------------------
(***************************************************************************)
(* Proofs about TaskBlock, for any blocks, kinds, nesting, handles and     *)
(* threads.                                                                *)
(***************************************************************************)
EXTENDS BlockInvariant, FiniteSetTheorems, SequenceTheorems, TLAPS

-----------------------------------------------------------------------------
(* Stacks and counts *)

\* A stack whose top is replaced.
LEMMA PutFacts ==
    ASSUME NEW F, NEW s \in Seq(F), s # <<>>, NEW y \in F
    PROVE  LET z == <<y>> \o Tail(s) IN
           /\ z \in Seq(F) /\ z # <<>> /\ Len(z) = Len(s) /\ z[1] = y
           /\ \A i \in 2..Len(s) : z[i] = s[i]
<1>1. Tail(s) \in Seq(F) /\ Len(Tail(s)) = Len(s) - 1 /\ \A i \in 1..Len(s) - 1 : Tail(s)[i] = s[i + 1]
  OBVIOUS
<1>2. <<y>> \in Seq(F) /\ Len(<<y>>) = 1 /\ <<y>>[1] = y
  OBVIOUS
<1> QED  BY <1>1, <1>2, ConcatProperties

\* A stack whose top is replaced and covered by another frame.
LEMMA CallFacts ==
    ASSUME NEW F, NEW s \in Seq(F), s # <<>>, NEW x \in F, NEW y \in F
    PROVE  LET z == <<y, x>> \o Tail(s) IN
           /\ z \in Seq(F) /\ z # <<>> /\ Len(z) = Len(s) + 1 /\ z[1] = y /\ z[2] = x
           /\ \A i \in 2..Len(s) : z[i + 1] = s[i]
<1>1. Tail(s) \in Seq(F) /\ Len(Tail(s)) = Len(s) - 1 /\ \A i \in 1..Len(s) - 1 : Tail(s)[i] = s[i + 1]
  OBVIOUS
<1>2. <<y, x>> \in Seq(F) /\ Len(<<y, x>>) = 2 /\ <<y, x>>[1] = y /\ <<y, x>>[2] = x
  OBVIOUS
<1> QED  BY <1>1, <1>2, ConcatProperties

\* A stack whose top returns.
LEMMA ReturnFacts ==
    ASSUME NEW F, NEW s \in Seq(F), s # <<>>
    PROVE  /\ Tail(s) \in Seq(F) /\ Len(Tail(s)) = Len(s) - 1
           /\ \A i \in 1..Len(s) - 1 : Tail(s)[i] = s[i + 1]
           /\ s[1] \in F /\ Head(s) = s[1] /\ Len(s) \in Nat /\ Len(s) >= 1
  OBVIOUS

\* A stack with a frame is not empty.
LEMMA NonEmpty ==
    ASSUME NEW F, NEW s \in Seq(F), Len(s) > 0
    PROVE  s # <<>>
  OBVIOUS

\* Its first and last frames are in it.
LEMMA LenDomain ==
    ASSUME NEW F, NEW s \in Seq(F), Len(s) > 0
    PROVE  Len(s) \in DOMAIN s /\ 1 \in DOMAIN s
  OBVIOUS

\* What the constants are.
LEMMA ConstantFacts ==
    /\ IsFiniteSet(Threads) /\ IsFiniteSet(Clients) /\ Clients \subseteq Threads
    /\ Parents \cap Children = {} /\ NoBlock \notin Blocks /\ ExecutionFlag \in Nat
    /\ ExecutionFlag > 1 \/ Parents = {}
    /\ \A p \in Parents : Nested[p] \in Seq(Children)
    /\ \A p \in Parents : Range(Nested[p]) \subseteq Children /\ IsFiniteSet(Range(Nested[p]))
    /\ \A c \in Clients : Handle[c] \in Blocks
    /\ \A b \in Blocks : IsFiniteSet(Holders(b)) /\ Holders(b) \subseteq Clients
    /\ \A b \in Parents, c \in Clients : Handle[c] = b => c \in Holders(b)
<1>1. Clients \subseteq Threads /\ IsFiniteSet(Threads)
  BY TaskBlockAssumption DEF Threads
<1>2. IsFiniteSet(Clients)
  BY <1>1, FS_Subset
<1>3. ASSUME NEW p \in Parents
      PROVE  /\ Nested[p] \in Seq(Children) /\ Range(Nested[p]) \subseteq Children
             /\ IsFiniteSet(Range(Nested[p])) /\ ExecutionFlag > 1
  <2>1. Nested[p] \in Seq(Children) /\ Len(Nested[p]) + 1 < ExecutionFlag
    BY TaskBlockAssumption
  <2>2. DOMAIN Nested[p] = 1..Len(Nested[p]) /\ Len(Nested[p]) \in Nat
    BY <2>1
  <2>3. IsFiniteSet(DOMAIN Nested[p])
    BY <2>2, FS_Interval
  <2>4. Nested[p] \in Surjection(DOMAIN Nested[p], Range(Nested[p]))
    BY <2>1 DEF Surjection, Range
  <2>5. IsFiniteSet(Range(Nested[p]))
    BY <2>3, <2>4, FS_Surjection
  <2> QED  BY <2>1, <2>2, <2>5, TaskBlockAssumption DEF Range
<1>4. \A b \in Blocks : IsFiniteSet(Holders(b)) /\ Holders(b) \subseteq Clients
  BY <1>2, FS_Subset DEF Holders
<1>5. \A b \in Parents, c \in Clients : Handle[c] = b => c \in Holders(b)
  BY TaskBlockAssumption DEF Holders, Blocks
<1>6. /\ Parents \cap Children = {} /\ NoBlock \notin Blocks /\ ExecutionFlag \in Nat
      /\ \A c \in Clients : Handle[c] \in Blocks
  BY TaskBlockAssumption
<1> QED  BY <1>1, <1>2, <1>3, <1>4, <1>5, <1>6

\* A child is attached by one body, at one place.
LEMMA NestedFacts ==
    ASSUME NEW p \in Parents, NEW i \in DOMAIN Nested[p]
    PROVE  /\ Nested[p][i] \in Children /\ Nested[p][i] \in Range(Nested[p])
           /\ \A q \in Parents : Nested[p][i] \in Range(Nested[q]) => q = p
           /\ \A j \in DOMAIN Nested[p] : Nested[p][j] = Nested[p][i] => j = i
           /\ i \in Nat /\ 1 <= i /\ i <= Len(Nested[p])
<1>1. Nested[p] \in Seq(Children)
  BY ConstantFacts
<1>2. Nested[p][i] \in Children /\ i \in Nat /\ 1 <= i /\ i <= Len(Nested[p])
  BY <1>1
<1>3. Nested[p][i] \in Range(Nested[p])
  BY DEF Range
<1>4. \A q \in Parents : Nested[p][i] \in Range(Nested[q]) => q = p
  BY <1>3, TaskBlockAssumption
<1>5. \A j \in DOMAIN Nested[p] : Nested[p][j] = Nested[p][i] => j = i
  BY TaskBlockAssumption
<1> QED  BY <1>2, <1>3, <1>4, <1>5

\* Two parts of a finite set that differ in one element at most.
LEMMA CountStep ==
    ASSUME NEW T, IsFiniteSet(T), NEW A \in SUBSET T, NEW B \in SUBSET T, NEW t,
           \A u \in T : u # t => (u \in A <=> u \in B)
    PROVE  /\ Cardinality(A) \in Nat /\ Cardinality(B) \in Nat
           /\ Cardinality(B) = Cardinality(A) + (IF t \in B THEN 1 ELSE 0) - (IF t \in A THEN 1 ELSE 0)
<1>1. IsFiniteSet(A) /\ IsFiniteSet(B) /\ Cardinality(A) \in Nat /\ Cardinality(B) \in Nat
  BY FS_Subset, FS_CardinalityType
<1>2. CASE t \in A <=> t \in B
  <2>1. A = B
    BY <1>2
  <2> QED  BY <2>1, <1>1
<1>3. CASE t \in B /\ t \notin A
  <2>1. B = A \cup {t}
    BY <1>3
  <2> QED  BY <2>1, <1>1, <1>3, FS_AddElement
<1>4. CASE t \in A /\ t \notin B
  <2>1. B = A \ {t}
    BY <1>4
  <2> QED  BY <2>1, <1>1, <1>4, FS_RemoveElement
<1> QED  BY <1>2, <1>3, <1>4

\* A stack has three frames at most.
LEMMA StackLen ==
    ASSUME NEW s, StackOK(s)
    PROVE  s \in Seq(FrameSet) /\ Len(s) \in 0..3 /\ DOMAIN s = 1..Len(s)
<1>1. s \in Seq(FrameSet) /\ (Len(s) = 0 \/ Len(s) = 1 \/ Len(s) = 2 \/ Len(s) = 3)
  BY DEF StackOK
<1> QED  BY <1>1

\* No stack has two frames that count for the same.
LEMMA AtMostOne ==
    ASSUME NEW s, StackOK(s), NEW b \in Blocks, NEW n \in 1..9,
           NEW i \in DOMAIN s, NEW j \in DOMAIN s, Is(n, s[i], b), Is(n, s[j], b)
    PROVE  i = j
<1>1. s \in Seq(FrameSet) /\ Len(s) \in 0..3 /\ DOMAIN s = 1..Len(s)
  BY StackLen
<1>2. NoBlock # b
  BY ConstantFacts
<1>3. CASE Len(s) <= 1
  BY <1>1, <1>3
<1>4. CASE Len(s) = 2
  <2>1. i \in {1, 2} /\ j \in {1, 2}
    BY <1>1, <1>4
  <2>2. (s[1].f # s[2].f) /\ (s[2].parent = NoBlock) /\ s[1].f \notin {"run", "trigger"} /\ s[2].f # "release"
    BY <1>4 DEF StackOK, RunFrame, TriggerFrame, ParentSettle, ChildSettle, ReleaseFrame
  <2>3. ~(Is(n, s[1], b) /\ Is(n, s[2], b))
    BY <2>2, <1>2 DEF Is
  <2> QED  BY <2>1, <2>3
<1>5. CASE Len(s) = 3
  <2>1. i \in {1, 2, 3} /\ j \in {1, 2, 3}
    BY <1>1, <1>5
  <2>2. /\ s[3].f = "trigger" /\ s[3].parent = NoBlock /\ s[2].f = "settle" /\ s[1].f \in {"release", "settle"}
        /\ s[1].parent = NoBlock
    BY <1>5 DEF StackOK, RunFrame, TriggerFrame, ParentSettle, ChildSettle, ReleaseFrame
  <2>3. /\ ~(Is(n, s[1], b) /\ Is(n, s[2], b)) /\ ~(Is(n, s[1], b) /\ Is(n, s[3], b))
        /\ ~(Is(n, s[2], b) /\ Is(n, s[3], b))
    BY <2>2, <1>2 DEF Is
  <2> QED  BY <2>1, <2>3
<1> QED  BY <1>1, <1>3, <1>4, <1>5

\* A step of one thread moves a count by what it has on its stack.
LEMMA NumStep ==
    ASSUME stack \in [Threads -> Seq(FrameSet)], NEW t \in Threads, NEW s,
           stack' = [stack EXCEPT ![t] = s], kind' = kind,
           StackOK(stack[t]), StackOK(s), NEW b \in Blocks, NEW n \in 1..9
    PROVE  /\ Num(n, b) \in Nat /\ Num(n, b)' \in Nat
           /\ Num(n, b)' = Num(n, b) + Has(n, s, b) - Has(n, stack[t], b)
<1>1. \A u \in Threads : stack'[u] = (IF u = t THEN s ELSE stack[u])
  OBVIOUS
<1>2. With(n, b)' = {u \in Threads : \E i \in DOMAIN stack'[u] : Is(n, stack'[u][i], b)}
  BY DEF With, Is
<1>3. \A u \in Threads : u # t => (u \in With(n, b) <=> u \in With(n, b)')
  BY <1>1, <1>2 DEF With
<1>4. With(n, b) \in SUBSET Threads /\ With(n, b)' \in SUBSET Threads
  BY <1>2 DEF With
<1>5. (t \in With(n, b) <=> \E i \in DOMAIN stack[t] : Is(n, stack[t][i], b))
      /\ (t \in With(n, b)' <=> \E i \in DOMAIN s : Is(n, s[i], b))
  BY <1>1, <1>2 DEF With
<1>6. /\ Has(n, s, b) = (IF t \in With(n, b)' THEN 1 ELSE 0)
      /\ Has(n, stack[t], b) = (IF t \in With(n, b) THEN 1 ELSE 0)
  BY <1>5 DEF Has
<1>7. IsFiniteSet(Threads)
  BY ConstantFacts
<1>8. /\ Cardinality(With(n, b)) \in Nat /\ Cardinality(With(n, b)') \in Nat
      /\ Cardinality(With(n, b)') = Cardinality(With(n, b)) + (IF t \in With(n, b)' THEN 1 ELSE 0)
            - (IF t \in With(n, b) THEN 1 ELSE 0)
  <2>1. PICK A, B : A = With(n, b) /\ B = With(n, b)'
    OBVIOUS
  <2>2. A \in SUBSET Threads /\ B \in SUBSET Threads /\ \A u \in Threads : u # t => (u \in A <=> u \in B)
    BY <1>3, <1>4, <2>1
  <2>3. /\ Cardinality(A) \in Nat /\ Cardinality(B) \in Nat
        /\ Cardinality(B) = Cardinality(A) + (IF t \in B THEN 1 ELSE 0) - (IF t \in A THEN 1 ELSE 0)
    BY ZenonT(60), <2>2, <1>7, CountStep
  <2> QED  BY <2>1, <2>3
<1> QED  BY <1>6, <1>8 DEF Num

\* The references held by frames move term by term,
LEMMA RefsSum ==
    ASSUME NEW b, NEW s, NEW z
    PROVE  (/\ Num(1, b) \in Nat /\ Num(1, b)' \in Nat /\ Num(1, b)' = Num(1, b) + Has(1, s, b) - Has(1, z, b)
            /\ Num(2, b) \in Nat /\ Num(2, b)' \in Nat /\ Num(2, b)' = Num(2, b) + Has(2, s, b) - Has(2, z, b)
            /\ Num(3, b) \in Nat /\ Num(3, b)' \in Nat /\ Num(3, b)' = Num(3, b) + Has(3, s, b) - Has(3, z, b)
            /\ Num(4, b) \in Nat /\ Num(4, b)' \in Nat /\ Num(4, b)' = Num(4, b) + Has(4, s, b) - Has(4, z, b)
            /\ Num(5, b) \in Nat /\ Num(5, b)' \in Nat /\ Num(5, b)' = Num(5, b) + Has(5, s, b) - Has(5, z, b))
           => /\ StackRefs(b) \in Nat /\ StackRefs(b)' \in Nat
              /\ StackRefs(b)' = StackRefs(b) + G(s, b) - G(z, b)
<1>0. SUFFICES ASSUME Num(1, b) \in Nat /\ Num(1, b)' \in Nat /\ Num(1, b)' = Num(1, b) + Has(1, s, b) - Has(1, z, b),
                      Num(2, b) \in Nat /\ Num(2, b)' \in Nat /\ Num(2, b)' = Num(2, b) + Has(2, s, b) - Has(2, z, b),
                      Num(3, b) \in Nat /\ Num(3, b)' \in Nat /\ Num(3, b)' = Num(3, b) + Has(3, s, b) - Has(3, z, b),
                      Num(4, b) \in Nat /\ Num(4, b)' \in Nat /\ Num(4, b)' = Num(4, b) + Has(4, s, b) - Has(4, z, b),
                      Num(5, b) \in Nat /\ Num(5, b)' \in Nat /\ Num(5, b)' = Num(5, b) + Has(5, s, b) - Has(5, z, b)
      PROVE  /\ StackRefs(b) \in Nat /\ StackRefs(b)' \in Nat
             /\ StackRefs(b)' = StackRefs(b) + G(s, b) - G(z, b)
  OBVIOUS
<1>1. PICK a1 \in Nat, b1 \in Nat, x1 \in Int, y1 \in Int :
            /\ a1 = Num(1, b) /\ b1 = Num(1, b)' /\ x1 = Has(1, s, b) /\ y1 = Has(1, z, b)
            /\ b1 = a1 + x1 - y1
  <2>1. Has(1, s, b) \in Int /\ Has(1, z, b) \in Int
    BY DEF Has
  <2> QED  BY <1>0, <2>1
<1>2. PICK a2 \in Nat, b2 \in Nat, x2 \in Int, y2 \in Int :
            /\ a2 = Num(2, b) /\ b2 = Num(2, b)' /\ x2 = Has(2, s, b) /\ y2 = Has(2, z, b)
            /\ b2 = a2 + x2 - y2
  <2>1. Has(2, s, b) \in Int /\ Has(2, z, b) \in Int
    BY DEF Has
  <2> QED  BY <1>0, <2>1
<1>3. PICK a3 \in Nat, b3 \in Nat, x3 \in Int, y3 \in Int :
            /\ a3 = Num(3, b) /\ b3 = Num(3, b)' /\ x3 = Has(3, s, b) /\ y3 = Has(3, z, b)
            /\ b3 = a3 + x3 - y3
  <2>1. Has(3, s, b) \in Int /\ Has(3, z, b) \in Int
    BY DEF Has
  <2> QED  BY <1>0, <2>1
<1>4. PICK a4 \in Nat, b4 \in Nat, x4 \in Int, y4 \in Int :
            /\ a4 = Num(4, b) /\ b4 = Num(4, b)' /\ x4 = Has(4, s, b) /\ y4 = Has(4, z, b)
            /\ b4 = a4 + x4 - y4
  <2>1. Has(4, s, b) \in Int /\ Has(4, z, b) \in Int
    BY DEF Has
  <2> QED  BY <1>0, <2>1
<1>5. PICK a5 \in Nat, b5 \in Nat, x5 \in Int, y5 \in Int :
            /\ a5 = Num(5, b) /\ b5 = Num(5, b)' /\ x5 = Has(5, s, b) /\ y5 = Has(5, z, b)
            /\ b5 = a5 + x5 - y5
  <2>1. Has(5, s, b) \in Int /\ Has(5, z, b) \in Int
    BY DEF Has
  <2> QED  BY <1>0, <2>1
<1>6. StackRefs(b) = a1 + a2 + a3 + a4 + a5 /\ StackRefs(b)' = b1 + b2 + b3 + b4 + b5
  BY <1>1, <1>2, <1>3, <1>4, <1>5 DEF StackRefs
<1>7. G(s, b) = x1 + x2 + x3 + x4 + x5 /\ G(z, b) = y1 + y2 + y3 + y4 + y5
  BY <1>1, <1>2, <1>3, <1>4, <1>5 DEF G
<1> QED  BY <1>1, <1>2, <1>3, <1>4, <1>5, <1>6, <1>7

\* and so do the locks.
LEMMA LocksSum ==
    ASSUME NEW b, NEW s, NEW z
    PROVE  (/\ Num(6, b) \in Nat /\ Num(6, b)' \in Nat /\ Num(6, b)' = Num(6, b) + Has(6, s, b) - Has(6, z, b)
            /\ Num(7, b) \in Nat /\ Num(7, b)' \in Nat /\ Num(7, b)' = Num(7, b) + Has(7, s, b) - Has(7, z, b)
            /\ Num(8, b) \in Nat /\ Num(8, b)' \in Nat /\ Num(8, b)' = Num(8, b) + Has(8, s, b) - Has(8, z, b)
            /\ Num(9, b) \in Nat /\ Num(9, b)' \in Nat /\ Num(9, b)' = Num(9, b) + Has(9, s, b) - Has(9, z, b))
           => /\ StackLocks(b) \in Nat /\ StackLocks(b)' \in Nat
              /\ StackLocks(b)' = StackLocks(b) + M(s, b) - M(z, b)
<1>0. SUFFICES ASSUME Num(6, b) \in Nat /\ Num(6, b)' \in Nat /\ Num(6, b)' = Num(6, b) + Has(6, s, b) - Has(6, z, b),
                      Num(7, b) \in Nat /\ Num(7, b)' \in Nat /\ Num(7, b)' = Num(7, b) + Has(7, s, b) - Has(7, z, b),
                      Num(8, b) \in Nat /\ Num(8, b)' \in Nat /\ Num(8, b)' = Num(8, b) + Has(8, s, b) - Has(8, z, b),
                      Num(9, b) \in Nat /\ Num(9, b)' \in Nat /\ Num(9, b)' = Num(9, b) + Has(9, s, b) - Has(9, z, b)
      PROVE  /\ StackLocks(b) \in Nat /\ StackLocks(b)' \in Nat
             /\ StackLocks(b)' = StackLocks(b) + M(s, b) - M(z, b)
  OBVIOUS
<1>1. PICK a6 \in Nat, b6 \in Nat, x6 \in Int, y6 \in Int :
            /\ a6 = Num(6, b) /\ b6 = Num(6, b)' /\ x6 = Has(6, s, b) /\ y6 = Has(6, z, b)
            /\ b6 = a6 + x6 - y6
  <2>1. Has(6, s, b) \in Int /\ Has(6, z, b) \in Int
    BY DEF Has
  <2> QED  BY <1>0, <2>1
<1>2. PICK a7 \in Nat, b7 \in Nat, x7 \in Int, y7 \in Int :
            /\ a7 = Num(7, b) /\ b7 = Num(7, b)' /\ x7 = Has(7, s, b) /\ y7 = Has(7, z, b)
            /\ b7 = a7 + x7 - y7
  <2>1. Has(7, s, b) \in Int /\ Has(7, z, b) \in Int
    BY DEF Has
  <2> QED  BY <1>0, <2>1
<1>3. PICK a8 \in Nat, b8 \in Nat, x8 \in Int, y8 \in Int :
            /\ a8 = Num(8, b) /\ b8 = Num(8, b)' /\ x8 = Has(8, s, b) /\ y8 = Has(8, z, b)
            /\ b8 = a8 + x8 - y8
  <2>1. Has(8, s, b) \in Int /\ Has(8, z, b) \in Int
    BY DEF Has
  <2> QED  BY <1>0, <2>1
<1>4. PICK a9 \in Nat, b9 \in Nat, x9 \in Int, y9 \in Int :
            /\ a9 = Num(9, b) /\ b9 = Num(9, b)' /\ x9 = Has(9, s, b) /\ y9 = Has(9, z, b)
            /\ b9 = a9 + x9 - y9
  <2>1. Has(9, s, b) \in Int /\ Has(9, z, b) \in Int
    BY DEF Has
  <2> QED  BY <1>0, <2>1
<1>5. StackLocks(b) = a6 + a7 + a8 + a9 /\ StackLocks(b)' = b6 + b7 + b8 + b9
  BY <1>1, <1>2, <1>3, <1>4 DEF StackLocks
<1>6. M(s, b) = x6 + x7 + x8 + x9 /\ M(z, b) = y6 + y7 + y8 + y9
  BY <1>1, <1>2, <1>3, <1>4 DEF M
<1> QED  BY <1>1, <1>2, <1>3, <1>4, <1>5, <1>6

\* A step of one thread moves the references and the locks held by frames by what
\* it has on its stack.
LEMMA StackStep ==
    ASSUME stack \in [Threads -> Seq(FrameSet)], NEW t \in Threads, NEW s,
           stack' = [stack EXCEPT ![t] = s], kind' = kind,
           StackOK(stack[t]), StackOK(s), NEW b \in Blocks
    PROVE  /\ StackRefs(b) \in Nat /\ StackLocks(b) \in Nat
           /\ StackRefs(b)' \in Nat /\ StackLocks(b)' \in Nat
           /\ StackRefs(b)' = StackRefs(b) + G(s, b) - G(stack[t], b)
           /\ StackLocks(b)' = StackLocks(b) + M(s, b) - M(stack[t], b)
<1>1. \A n \in 1..9 : /\ Num(n, b) \in Nat /\ Num(n, b)' \in Nat
                      /\ Num(n, b)' = Num(n, b) + Has(n, s, b) - Has(n, stack[t], b)
  BY NumStep
<1>2. 1 \in 1..9 /\ 2 \in 1..9 /\ 3 \in 1..9 /\ 4 \in 1..9 /\ 5 \in 1..9
      /\ 6 \in 1..9 /\ 7 \in 1..9 /\ 8 \in 1..9 /\ 9 \in 1..9
  OBVIOUS
<1>3. PICK z : z = stack[t]
  OBVIOUS
<1>4. /\ StackRefs(b) \in Nat /\ StackRefs(b)' \in Nat
      /\ StackRefs(b)' = StackRefs(b) + G(s, b) - G(z, b)
  BY <1>1, <1>2, <1>3, RefsSum, Zenon
<1>5. /\ StackLocks(b) \in Nat /\ StackLocks(b)' \in Nat
      /\ StackLocks(b)' = StackLocks(b) + M(s, b) - M(z, b)
  BY <1>1, <1>2, <1>3, LocksSum, Zenon
<1> QED  BY <1>3, <1>4, <1>5

\* What a run counts for alone,
LEMMA HasRun ==
    ASSUME NEW s \in Seq(FrameSet), NEW b \in Blocks, Len(s) = 1, RunFrame(s[1])
    PROVE  /\ G(s, b) = (IF b = s[1].b /\ kind[b] = "task" THEN 1 ELSE 0) + (IF b = s[1].b /\ s[1].at \in InBody THEN 1 ELSE 0) + (IF b = s[1].b /\ s[1].at \in {"link", "unlink"} THEN 1 ELSE 0)
           /\ M(s, b) = (IF b = s[1].b /\ s[1].at \in InBody \cup {"self_lock"} THEN 1 ELSE 0) + (IF b = s[1].b /\ s[1].at = "link" THEN 1 ELSE 0)
<1>1. DOMAIN s = {1} /\ NoBlock # b
  BY ConstantFacts
<1>2. \A n : Has(n, s, b) = IF Is(n, s[1], b) THEN 1 ELSE 0
  BY <1>1 DEF Has
<1>3. Has(1, s, b) = (IF b = s[1].b /\ kind[b] = "task" THEN 1 ELSE 0)
  BY <1>1, <1>2 DEF Is, RunFrame
<1>4. Has(2, s, b) = (IF b = s[1].b /\ s[1].at \in InBody THEN 1 ELSE 0)
  BY <1>1, <1>2 DEF Is, RunFrame
<1>5. Has(3, s, b) = (IF b = s[1].b /\ s[1].at \in {"link", "unlink"} THEN 1 ELSE 0)
  BY <1>1, <1>2 DEF Is, RunFrame
<1>6. Has(4, s, b) = 0
  BY <1>1, <1>2 DEF Is, RunFrame
<1>7. Has(5, s, b) = 0
  BY <1>1, <1>2 DEF Is, RunFrame
<1>8. Has(6, s, b) = (IF b = s[1].b /\ s[1].at \in InBody \cup {"self_lock"} THEN 1 ELSE 0)
  BY <1>1, <1>2 DEF Is, RunFrame
<1>9. Has(7, s, b) = (IF b = s[1].b /\ s[1].at = "link" THEN 1 ELSE 0)
  BY <1>1, <1>2 DEF Is, RunFrame
<1>10. Has(8, s, b) = 0
  BY <1>1, <1>2 DEF Is, RunFrame
<1>11. Has(9, s, b) = 0
  BY <1>1, <1>2 DEF Is, RunFrame
<1>12. G(s, b) = (IF b = s[1].b /\ kind[b] = "task" THEN 1 ELSE 0) + (IF b = s[1].b /\ s[1].at \in InBody THEN 1 ELSE 0) + (IF b = s[1].b /\ s[1].at \in {"link", "unlink"} THEN 1 ELSE 0)
  BY <1>3, <1>4, <1>5, <1>6, <1>7 DEF G
<1>13. M(s, b) = (IF b = s[1].b /\ s[1].at \in InBody \cup {"self_lock"} THEN 1 ELSE 0) + (IF b = s[1].b /\ s[1].at = "link" THEN 1 ELSE 0)
  BY <1>8, <1>9, <1>10, <1>11 DEF M
<1> QED  BY <1>12, <1>13

\* under a settle,
LEMMA HasRunSettle ==
    ASSUME NEW s \in Seq(FrameSet), NEW b \in Blocks, Len(s) = 2, RunFrame(s[2]), NEW p, ParentSettle(s[1], p)
    PROVE  /\ G(s, b) = (IF b = s[2].b /\ kind[b] = "task" THEN 1 ELSE 0) + (IF b = s[2].b /\ s[2].at \in InBody THEN 1 ELSE 0) + (IF b = s[2].b /\ s[2].at \in {"link", "unlink"} THEN 1 ELSE 0)
           /\ M(s, b) = (IF b = s[2].b /\ s[2].at \in InBody \cup {"self_lock"} THEN 1 ELSE 0) + (IF b = s[2].b /\ s[2].at = "link" THEN 1 ELSE 0)
<1>1. DOMAIN s = {1, 2} /\ NoBlock # b
  BY ConstantFacts
<1>2. \A n : Has(n, s, b) = IF Is(n, s[1], b) \/ Is(n, s[2], b) THEN 1 ELSE 0
  BY <1>1 DEF Has
<1>3. Has(1, s, b) = (IF b = s[2].b /\ kind[b] = "task" THEN 1 ELSE 0)
  BY <1>1, <1>2 DEF Is, RunFrame, ParentSettle
<1>4. Has(2, s, b) = (IF b = s[2].b /\ s[2].at \in InBody THEN 1 ELSE 0)
  BY <1>1, <1>2 DEF Is, RunFrame, ParentSettle
<1>5. Has(3, s, b) = (IF b = s[2].b /\ s[2].at \in {"link", "unlink"} THEN 1 ELSE 0)
  BY <1>1, <1>2 DEF Is, RunFrame, ParentSettle
<1>6. Has(4, s, b) = 0
  BY <1>1, <1>2 DEF Is, RunFrame, ParentSettle
<1>7. Has(5, s, b) = 0
  BY <1>1, <1>2 DEF Is, RunFrame, ParentSettle
<1>8. Has(6, s, b) = (IF b = s[2].b /\ s[2].at \in InBody \cup {"self_lock"} THEN 1 ELSE 0)
  BY <1>1, <1>2 DEF Is, RunFrame, ParentSettle
<1>9. Has(7, s, b) = (IF b = s[2].b /\ s[2].at = "link" THEN 1 ELSE 0)
  BY <1>1, <1>2 DEF Is, RunFrame, ParentSettle
<1>10. Has(8, s, b) = 0
  BY <1>1, <1>2 DEF Is, RunFrame, ParentSettle
<1>11. Has(9, s, b) = 0
  BY <1>1, <1>2 DEF Is, RunFrame, ParentSettle
<1>12. G(s, b) = (IF b = s[2].b /\ kind[b] = "task" THEN 1 ELSE 0) + (IF b = s[2].b /\ s[2].at \in InBody THEN 1 ELSE 0) + (IF b = s[2].b /\ s[2].at \in {"link", "unlink"} THEN 1 ELSE 0)
  BY <1>3, <1>4, <1>5, <1>6, <1>7 DEF G
<1>13. M(s, b) = (IF b = s[2].b /\ s[2].at \in InBody \cup {"self_lock"} THEN 1 ELSE 0) + (IF b = s[2].b /\ s[2].at = "link" THEN 1 ELSE 0)
  BY <1>8, <1>9, <1>10, <1>11 DEF M
<1> QED  BY <1>12, <1>13

\* and under a release.
LEMMA HasRunRelease ==
    ASSUME NEW s \in Seq(FrameSet), NEW b \in Blocks, Len(s) = 2, RunFrame(s[2]), NEW p, ReleaseFrame(s[1], p)
    PROVE  /\ G(s, b) = (IF b = s[2].b /\ kind[b] = "task" THEN 1 ELSE 0) + (IF b = s[2].b /\ s[2].at \in InBody THEN 1 ELSE 0) + (IF b = s[2].b /\ s[2].at \in {"link", "unlink"} THEN 1 ELSE 0)
           /\ M(s, b) = (IF b = s[2].b /\ s[2].at \in InBody \cup {"self_lock"} THEN 1 ELSE 0) + (IF b = s[2].b /\ s[2].at = "link" THEN 1 ELSE 0) + (IF b = p THEN 1 ELSE 0)
<1>1. DOMAIN s = {1, 2} /\ NoBlock # b
  BY ConstantFacts
<1>2. \A n : Has(n, s, b) = IF Is(n, s[1], b) \/ Is(n, s[2], b) THEN 1 ELSE 0
  BY <1>1 DEF Has
<1>3. Has(1, s, b) = (IF b = s[2].b /\ kind[b] = "task" THEN 1 ELSE 0)
  BY <1>1, <1>2 DEF Is, RunFrame, ReleaseFrame
<1>4. Has(2, s, b) = (IF b = s[2].b /\ s[2].at \in InBody THEN 1 ELSE 0)
  BY <1>1, <1>2 DEF Is, RunFrame, ReleaseFrame
<1>5. Has(3, s, b) = (IF b = s[2].b /\ s[2].at \in {"link", "unlink"} THEN 1 ELSE 0)
  BY <1>1, <1>2 DEF Is, RunFrame, ReleaseFrame
<1>6. Has(4, s, b) = 0
  BY <1>1, <1>2 DEF Is, RunFrame, ReleaseFrame
<1>7. Has(5, s, b) = 0
  BY <1>1, <1>2 DEF Is, RunFrame, ReleaseFrame
<1>8. Has(6, s, b) = (IF b = s[2].b /\ s[2].at \in InBody \cup {"self_lock"} THEN 1 ELSE 0)
  BY <1>1, <1>2 DEF Is, RunFrame, ReleaseFrame
<1>9. Has(7, s, b) = (IF b = s[2].b /\ s[2].at = "link" THEN 1 ELSE 0)
  BY <1>1, <1>2 DEF Is, RunFrame, ReleaseFrame
<1>10. Has(8, s, b) = (IF b = p THEN 1 ELSE 0)
  BY <1>1, <1>2 DEF Is, RunFrame, ReleaseFrame
<1>11. Has(9, s, b) = 0
  BY <1>1, <1>2 DEF Is, RunFrame, ReleaseFrame
<1>12. G(s, b) = (IF b = s[2].b /\ kind[b] = "task" THEN 1 ELSE 0) + (IF b = s[2].b /\ s[2].at \in InBody THEN 1 ELSE 0) + (IF b = s[2].b /\ s[2].at \in {"link", "unlink"} THEN 1 ELSE 0)
  BY <1>3, <1>4, <1>5, <1>6, <1>7 DEF G
<1>13. M(s, b) = (IF b = s[2].b /\ s[2].at \in InBody \cup {"self_lock"} THEN 1 ELSE 0) + (IF b = s[2].b /\ s[2].at = "link" THEN 1 ELSE 0) + (IF b = p THEN 1 ELSE 0)
  BY <1>8, <1>9, <1>10, <1>11 DEF M
<1> QED  BY <1>12, <1>13

\* What a trigger counts for alone,
LEMMA HasTrigger ==
    ASSUME NEW s \in Seq(FrameSet), NEW b \in Blocks, Len(s) = 1, TriggerFrame(s[1])
    PROVE  /\ G(s, b) = (IF b = s[1].b THEN 1 ELSE 0)
           /\ M(s, b) = 0
<1>1. DOMAIN s = {1} /\ NoBlock # b
  BY ConstantFacts
<1>2. \A n : Has(n, s, b) = IF Is(n, s[1], b) THEN 1 ELSE 0
  BY <1>1 DEF Has
<1>3. Has(1, s, b) = 0
  BY <1>1, <1>2 DEF Is, TriggerFrame
<1>4. Has(2, s, b) = 0
  BY <1>1, <1>2 DEF Is, TriggerFrame
<1>5. Has(3, s, b) = 0
  BY <1>1, <1>2 DEF Is, TriggerFrame
<1>6. Has(4, s, b) = (IF b = s[1].b THEN 1 ELSE 0)
  BY <1>1, <1>2 DEF Is, TriggerFrame
<1>7. Has(5, s, b) = 0
  BY <1>1, <1>2 DEF Is, TriggerFrame
<1>8. Has(6, s, b) = 0
  BY <1>1, <1>2 DEF Is, TriggerFrame
<1>9. Has(7, s, b) = 0
  BY <1>1, <1>2 DEF Is, TriggerFrame
<1>10. Has(8, s, b) = 0
  BY <1>1, <1>2 DEF Is, TriggerFrame
<1>11. Has(9, s, b) = 0
  BY <1>1, <1>2 DEF Is, TriggerFrame
<1>12. G(s, b) = (IF b = s[1].b THEN 1 ELSE 0)
  BY <1>3, <1>4, <1>5, <1>6, <1>7 DEF G
<1>13. M(s, b) = 0
  BY <1>8, <1>9, <1>10, <1>11 DEF M
<1> QED  BY <1>12, <1>13

\* with the settle it makes,
LEMMA HasTriggerSettle ==
    ASSUME NEW s \in Seq(FrameSet), NEW b \in Blocks, Len(s) = 2, TriggerFrame(s[2]), ChildSettle(s[1])
    PROVE  /\ G(s, b) = (IF b = s[2].b THEN 1 ELSE 0) + (IF b = s[1].parent THEN 1 ELSE 0)
           /\ M(s, b) = (IF b = s[1].parent /\ s[1].at # "drop_parent" THEN 1 ELSE 0)
<1>1. DOMAIN s = {1, 2} /\ NoBlock # b
  BY ConstantFacts
<1>2. \A n : Has(n, s, b) = IF Is(n, s[1], b) \/ Is(n, s[2], b) THEN 1 ELSE 0
  BY <1>1 DEF Has
<1>3. Has(1, s, b) = 0
  BY <1>1, <1>2 DEF Is, TriggerFrame, ChildSettle
<1>4. Has(2, s, b) = 0
  BY <1>1, <1>2 DEF Is, TriggerFrame, ChildSettle
<1>5. Has(3, s, b) = 0
  BY <1>1, <1>2 DEF Is, TriggerFrame, ChildSettle
<1>6. Has(4, s, b) = (IF b = s[2].b THEN 1 ELSE 0)
  BY <1>1, <1>2 DEF Is, TriggerFrame, ChildSettle
<1>7. Has(5, s, b) = (IF b = s[1].parent THEN 1 ELSE 0)
  BY <1>1, <1>2 DEF Is, TriggerFrame, ChildSettle
<1>8. Has(6, s, b) = 0
  BY <1>1, <1>2 DEF Is, TriggerFrame, ChildSettle
<1>9. Has(7, s, b) = 0
  BY <1>1, <1>2 DEF Is, TriggerFrame, ChildSettle
<1>10. Has(8, s, b) = 0
  BY <1>1, <1>2 DEF Is, TriggerFrame, ChildSettle
<1>11. Has(9, s, b) = (IF b = s[1].parent /\ s[1].at # "drop_parent" THEN 1 ELSE 0)
  BY <1>1, <1>2 DEF Is, TriggerFrame, ChildSettle
<1>12. G(s, b) = (IF b = s[2].b THEN 1 ELSE 0) + (IF b = s[1].parent THEN 1 ELSE 0)
  BY <1>3, <1>4, <1>5, <1>6, <1>7 DEF G
<1>13. M(s, b) = (IF b = s[1].parent /\ s[1].at # "drop_parent" THEN 1 ELSE 0)
  BY <1>8, <1>9, <1>10, <1>11 DEF M
<1> QED  BY <1>12, <1>13

\* and with what that settle calls.
LEMMA HasTriggerRelease ==
    ASSUME NEW s \in Seq(FrameSet), NEW b \in Blocks, Len(s) = 3, TriggerFrame(s[3]), ChildSettle(s[2]), s[2].at = "drop_parent", NEW p, ReleaseFrame(s[1], p)
    PROVE  /\ G(s, b) = (IF b = s[3].b THEN 1 ELSE 0) + (IF b = s[2].parent THEN 1 ELSE 0)
           /\ M(s, b) = (IF b = p THEN 1 ELSE 0)
<1>1. DOMAIN s = {1, 2, 3} /\ NoBlock # b
  BY ConstantFacts
<1>2. \A n : Has(n, s, b) = IF Is(n, s[1], b) \/ Is(n, s[2], b) \/ Is(n, s[3], b) THEN 1 ELSE 0
  BY <1>1 DEF Has
<1>3. Has(1, s, b) = 0
  BY <1>1, <1>2 DEF Is, TriggerFrame, ChildSettle, ReleaseFrame
<1>4. Has(2, s, b) = 0
  BY <1>1, <1>2 DEF Is, TriggerFrame, ChildSettle, ReleaseFrame
<1>5. Has(3, s, b) = 0
  BY <1>1, <1>2 DEF Is, TriggerFrame, ChildSettle, ReleaseFrame
<1>6. Has(4, s, b) = (IF b = s[3].b THEN 1 ELSE 0)
  BY <1>1, <1>2 DEF Is, TriggerFrame, ChildSettle, ReleaseFrame
<1>7. Has(5, s, b) = (IF b = s[2].parent THEN 1 ELSE 0)
  BY <1>1, <1>2 DEF Is, TriggerFrame, ChildSettle, ReleaseFrame
<1>8. Has(6, s, b) = 0
  BY <1>1, <1>2 DEF Is, TriggerFrame, ChildSettle, ReleaseFrame
<1>9. Has(7, s, b) = 0
  BY <1>1, <1>2 DEF Is, TriggerFrame, ChildSettle, ReleaseFrame
<1>10. Has(8, s, b) = (IF b = p THEN 1 ELSE 0)
  BY <1>1, <1>2 DEF Is, TriggerFrame, ChildSettle, ReleaseFrame
<1>11. Has(9, s, b) = 0
  BY <1>1, <1>2 DEF Is, TriggerFrame, ChildSettle, ReleaseFrame
<1>12. G(s, b) = (IF b = s[3].b THEN 1 ELSE 0) + (IF b = s[2].parent THEN 1 ELSE 0)
  BY <1>3, <1>4, <1>5, <1>6, <1>7 DEF G
<1>13. M(s, b) = (IF b = p THEN 1 ELSE 0)
  BY <1>8, <1>9, <1>10, <1>11 DEF M
<1> QED  BY <1>12, <1>13

\* The same when the release settles the parent.
LEMMA HasTriggerParent ==
    ASSUME NEW s \in Seq(FrameSet), NEW b \in Blocks, Len(s) = 3, TriggerFrame(s[3]), ChildSettle(s[2]), s[2].at = "drop_parent", NEW p, ParentSettle(s[1], p)
    PROVE  /\ G(s, b) = (IF b = s[3].b THEN 1 ELSE 0) + (IF b = s[2].parent THEN 1 ELSE 0)
           /\ M(s, b) = 0
<1>1. DOMAIN s = {1, 2, 3} /\ NoBlock # b
  BY ConstantFacts
<1>2. \A n : Has(n, s, b) = IF Is(n, s[1], b) \/ Is(n, s[2], b) \/ Is(n, s[3], b) THEN 1 ELSE 0
  BY <1>1 DEF Has
<1>3. Has(1, s, b) = 0
  BY <1>1, <1>2 DEF Is, TriggerFrame, ChildSettle, ParentSettle
<1>4. Has(2, s, b) = 0
  BY <1>1, <1>2 DEF Is, TriggerFrame, ChildSettle, ParentSettle
<1>5. Has(3, s, b) = 0
  BY <1>1, <1>2 DEF Is, TriggerFrame, ChildSettle, ParentSettle
<1>6. Has(4, s, b) = (IF b = s[3].b THEN 1 ELSE 0)
  BY <1>1, <1>2 DEF Is, TriggerFrame, ChildSettle, ParentSettle
<1>7. Has(5, s, b) = (IF b = s[2].parent THEN 1 ELSE 0)
  BY <1>1, <1>2 DEF Is, TriggerFrame, ChildSettle, ParentSettle
<1>8. Has(6, s, b) = 0
  BY <1>1, <1>2 DEF Is, TriggerFrame, ChildSettle, ParentSettle
<1>9. Has(7, s, b) = 0
  BY <1>1, <1>2 DEF Is, TriggerFrame, ChildSettle, ParentSettle
<1>10. Has(8, s, b) = 0
  BY <1>1, <1>2 DEF Is, TriggerFrame, ChildSettle, ParentSettle
<1>11. Has(9, s, b) = 0
  BY <1>1, <1>2 DEF Is, TriggerFrame, ChildSettle, ParentSettle
<1>12. G(s, b) = (IF b = s[3].b THEN 1 ELSE 0) + (IF b = s[2].parent THEN 1 ELSE 0)
  BY <1>3, <1>4, <1>5, <1>6, <1>7 DEF G
<1>13. M(s, b) = 0
  BY <1>8, <1>9, <1>10, <1>11 DEF M
<1> QED  BY <1>12, <1>13

\* An empty stack counts for nothing.
LEMMA HasNone ==
    ASSUME NEW s \in Seq(FrameSet), NEW b, Len(s) = 0
    PROVE  /\ G(s, b) = 0 /\ M(s, b) = 0
<1>1. DOMAIN s = {}
  OBVIOUS
<1>2. \A n : Has(n, s, b) = 0
  BY <1>1 DEF Has
<1> QED  BY <1>2 DEF G, M

-----------------------------------------------------------------------------
(* Moves of a stack *)

\* What the invariant says of a thread's top frame.
LEMMA TopFacts ==
    ASSUME TypeInv, NEW t \in Threads, stack[t] # <<>>
    PROVE  /\ stack[t] \in Seq(FrameSet) /\ StackOK(stack[t]) /\ Len(stack[t]) \in 1..3
           /\ Top(t) = stack[t][1] /\ Top(t) \in FrameSet /\ Base(t) \in FrameSet
<1>1. stack[t] \in Seq(FrameSet) /\ StackOK(stack[t])
  BY DEF TypeInv, StackType
<1>2. Len(stack[t]) \in 1..3
  <2>1. Len(stack[t]) \in 0..3
    BY <1>1, StackLen
  <2>2. Len(stack[t]) # 0
    BY <1>1
  <2> QED  BY <2>1, <2>2
<1>3. Top(t) = stack[t][1] /\ Top(t) \in FrameSet
  BY <1>1, ReturnFacts DEF Top
<1>4. Base(t) \in FrameSet
  BY <1>1, <1>2 DEF Base
<1> QED  BY <1>1, <1>2, <1>3, <1>4

\* A thread at a statement of its body's dispatch has nothing else on its stack.
LEMMA RunTop ==
    ASSUME TypeInv, NEW t \in Threads, NEW a, At(t, "run", a)
    PROVE  /\ stack[t] # <<>> /\ Len(stack[t]) = 1 /\ RunFrame(Top(t)) /\ Top(t) = Base(t)
           /\ Top(t) \in FrameSet /\ stack[t][1] = Top(t) /\ Top(t).at = a
           /\ Top(t).b \in Parents /\ Top(t).b \in Blocks /\ Runs(t, Top(t).b)
<1>1. stack[t] # <<>> /\ Top(t).f = "run" /\ Top(t).at = a
  BY DEF At
<1>2. /\ stack[t] \in Seq(FrameSet) /\ StackOK(stack[t]) /\ Len(stack[t]) \in 1..3
      /\ Top(t) = stack[t][1] /\ Top(t) \in FrameSet
  BY <1>1, TopFacts
<1>3. Len(stack[t]) = 1 /\ RunFrame(stack[t][1])
  BY <1>1, <1>2 DEF StackOK, TriggerFrame, ParentSettle, ChildSettle, ReleaseFrame
<1>4. Base(t) = Top(t)
  BY <1>2, <1>3 DEF Base
<1>5. Top(t).b \in Parents
  BY <1>2, <1>3 DEF RunFrame
<1> QED  BY <1>1, <1>2, <1>3, <1>4, <1>5 DEF Blocks, Runs

\* A step replaces t's stack by s.
Moves(t, s) == stack' = [stack EXCEPT ![t] = s]

\* The stacks after a thread's stack was replaced.
LEMMA MoveFacts ==
    ASSUME TypeInv, NEW t \in Threads, NEW s, s \in Seq(FrameSet), Moves(t, s)
    PROVE  /\ stack'[t] = s /\ stack' \in [Threads -> Seq(FrameSet)]
           /\ \A u \in Threads : u # t => stack'[u] = stack[u]
  BY DEF Moves, TypeInv, StackType

\* Put.
LEMMA PutMove ==
    ASSUME TypeInv, NEW t \in Threads, stack[t] # <<>>, NEW y, y \in FrameSet, Put(t, y)
    PROVE  \E s \in Seq(FrameSet) :
              /\ Moves(t, s)
              /\ Len(s) = Len(stack[t]) /\ s[1] = y /\ \A i \in 2..Len(s) : s[i] = stack[t][i]
<1>1. stack[t] \in Seq(FrameSet)
  BY DEF TypeInv, StackType
<1>2. stack' = [stack EXCEPT ![t] = <<y>> \o Tail(stack[t])]
  BY DEF Put
<1>3. PICK s : s = <<y>> \o Tail(stack[t])
  OBVIOUS
<1>4. s \in Seq(FrameSet) /\ Len(s) = Len(stack[t]) /\ s[1] = y /\ \A i \in 2..Len(stack[t]) : s[i] = stack[t][i]
  BY <1>1, <1>3, PutFacts
<1>5. Moves(t, s) /\ \A i \in 2..Len(s) : s[i] = stack[t][i]
  BY <1>2, <1>3, <1>4 DEF Moves
<1> QED  BY <1>4, <1>5

\* Call.
LEMMA CallMove ==
    ASSUME TypeInv, NEW t \in Threads, stack[t] # <<>>, NEW y, y \in FrameSet, NEW a,
           [Top(t) EXCEPT !.at = a] \in FrameSet, Call(t, a, y)
    PROVE  \E s \in Seq(FrameSet) :
              /\ Moves(t, s)
              /\ Len(s) = Len(stack[t]) + 1 /\ s[1] = y /\ s[2] = [Top(t) EXCEPT !.at = a]
              /\ \A i \in 2..Len(stack[t]) : s[i + 1] = stack[t][i]
<1>1. stack[t] \in Seq(FrameSet)
  BY DEF TypeInv, StackType
<1>2. stack' = [stack EXCEPT ![t] = <<y, [Top(t) EXCEPT !.at = a]>> \o Tail(stack[t])]
  BY DEF Call
<1>3. PICK s : s = <<y, [Top(t) EXCEPT !.at = a]>> \o Tail(stack[t])
  OBVIOUS
<1>4. /\ s \in Seq(FrameSet) /\ Len(s) = Len(stack[t]) + 1 /\ s[1] = y /\ s[2] = [Top(t) EXCEPT !.at = a]
      /\ \A i \in 2..Len(stack[t]) : s[i + 1] = stack[t][i]
  BY <1>1, <1>3, CallFacts
<1>5. Moves(t, s)
  BY <1>2, <1>3 DEF Moves
<1> QED  BY <1>4, <1>5

\* Return.
LEMMA ReturnMove ==
    ASSUME TypeInv, NEW t \in Threads, stack[t] # <<>>, Return(t)
    PROVE  \E s \in Seq(FrameSet) :
              /\ Moves(t, s)
              /\ Len(s) = Len(stack[t]) - 1 /\ \A i \in 1..Len(s) : s[i] = stack[t][i + 1]
<1>1. stack[t] \in Seq(FrameSet)
  BY DEF TypeInv, StackType
<1>2. stack' = [stack EXCEPT ![t] = Tail(stack[t])]
  BY DEF Return
<1>3. PICK s : s = Tail(stack[t])
  OBVIOUS
<1>4. s \in Seq(FrameSet) /\ Len(s) = Len(stack[t]) - 1 /\ \A i \in 1..Len(stack[t]) - 1 : s[i] = stack[t][i + 1]
  BY <1>1, <1>3, ReturnFacts
<1>5. Moves(t, s)
  BY <1>2, <1>3 DEF Moves
<1> QED  BY <1>4, <1>5

-----------------------------------------------------------------------------
(* References that no frame holds *)

\* A child has one captor at most.
LEMMA CaptorsCount ==
    ASSUME NEW b \in Blocks
    PROVE  /\ \A p \in Parents : b \in Range(Nested[p]) =>
                  Cardinality(Captors(b)) = (IF Lives(p) THEN 1 ELSE 0)
           /\ (\A p \in Parents : b \notin Range(Nested[p])) => Cardinality(Captors(b)) = 0
           /\ Cardinality(Captors(b)) \in {0, 1}
<1>1. ASSUME NEW p \in Parents, b \in Range(Nested[p])
      PROVE  Cardinality(Captors(b)) = (IF Lives(p) THEN 1 ELSE 0)
  <2>1. Captor(b) = {p}
    BY <1>1, TaskBlockAssumption DEF Captor
  <2>2. CASE Lives(p)
    <3>1. Captors(b) = {p}
      BY <2>1, <2>2 DEF Captors
    <3> QED  BY <3>1, <2>2, FS_Singleton
  <2>3. CASE ~Lives(p)
    <3>1. Captors(b) = {}
      BY <2>1, <2>3 DEF Captors
    <3> QED  BY <3>1, <2>3, FS_EmptySet
  <2> QED  BY <2>2, <2>3
<1>2. ASSUME \A p \in Parents : b \notin Range(Nested[p])
      PROVE  Cardinality(Captors(b)) = 0
  <2>1. Captors(b) = {}
    BY <1>2 DEF Captors, Captor
  <2> QED  BY <2>1, FS_EmptySet
<1> QED  BY <1>1, <1>2

\* The same, after a step.
LEMMA CaptorsCountNext ==
    ASSUME NEW b \in Blocks
    PROVE  /\ \A p \in Parents : b \in Range(Nested[p]) =>
                  Cardinality(Captors(b)') = (IF Lives(p)' THEN 1 ELSE 0)
           /\ (\A p \in Parents : b \notin Range(Nested[p])) => Cardinality(Captors(b)') = 0
           /\ Cardinality(Captors(b)') \in {0, 1}
<1>0. Captors(b)' = {p \in Captor(b) : Lives(p)'}
  BY DEF Captors, Captor
<1>1. ASSUME NEW p \in Parents, b \in Range(Nested[p])
      PROVE  Cardinality(Captors(b)') = (IF Lives(p)' THEN 1 ELSE 0)
  <2>1. Captor(b) = {p}
    BY <1>1, TaskBlockAssumption DEF Captor
  <2>2. CASE Lives(p)'
    <3>1. Captors(b)' = {p}
      BY <1>0, <2>1, <2>2
    <3> QED  BY <3>1, <2>2, FS_Singleton
  <2>3. CASE ~Lives(p)'
    <3>1. Captors(b)' = {}
      BY <1>0, <2>1, <2>3
    <3> QED  BY <3>1, <2>3, FS_EmptySet
  <2> QED  BY <2>2, <2>3
<1>2. ASSUME \A p \in Parents : b \notin Range(Nested[p])
      PROVE  Cardinality(Captors(b)') = 0
  <2>1. Captors(b)' = {}
    BY <1>0, <1>2 DEF Captor
  <2> QED  BY <2>1, FS_EmptySet
<1> QED  BY <1>1, <1>2

\* Bodies that stay hold what they held.
LEMMA CaptorsSame ==
    ASSUME \A p \in Parents : Lives(p)' <=> Lives(p), NEW b \in Blocks
    PROVE  Cardinality(Captors(b)') = Cardinality(Captors(b))
<1>1. CASE \E p \in Parents : b \in Range(Nested[p])
  <2>1. PICK p \in Parents : b \in Range(Nested[p])
    BY <1>1
  <2> QED  BY <2>1, CaptorsCount, CaptorsCountNext
<1>2. CASE ~\E p \in Parents : b \in Range(Nested[p])
  BY <1>2, CaptorsCount, CaptorsCountNext
<1> QED  BY <1>1, <1>2

\* A body that is destroyed drops its children.
LEMMA CaptorsDrop ==
    ASSUME NEW q \in Parents, Lives(q), ~Lives(q)',
           \A p \in Parents : p # q => (Lives(p)' <=> Lives(p)), NEW b \in Blocks
    PROVE  /\ b \in Range(Nested[q]) => Cardinality(Captors(b)) = 1 /\ Cardinality(Captors(b)') = 0
           /\ b \notin Range(Nested[q]) => Cardinality(Captors(b)') = Cardinality(Captors(b))
<1>1. CASE b \in Range(Nested[q])
  BY <1>1, CaptorsCount, CaptorsCountNext
<1>2. CASE b \notin Range(Nested[q]) /\ \E p \in Parents : b \in Range(Nested[p])
  <2>1. PICK p \in Parents : b \in Range(Nested[p])
    BY <1>2
  <2>2. p # q
    BY <1>2, <2>1
  <2> QED  BY <1>2, <2>1, <2>2, CaptorsCount, CaptorsCountNext
<1>3. CASE ~\E p \in Parents : b \in Range(Nested[p])
  BY <1>3, CaptorsCount, CaptorsCountNext
<1> QED  BY <1>1, <1>2, <1>3

\* Handles.
LEMMA HeldFinite ==
    ASSUME NEW b \in Blocks
    PROVE  /\ IsFiniteSet(HeldBy(b)) /\ Cardinality(HeldBy(b)) \in Nat
           /\ IsFiniteSet(HeldBy(b)') /\ Cardinality(HeldBy(b)') \in Nat
<1>1. IsFiniteSet(Holders(b))
  BY ConstantFacts
<1>2. HeldBy(b) \subseteq Holders(b) /\ HeldBy(b)' \subseteq Holders(b)
  BY DEF HeldBy, Holders
<1> QED  BY <1>1, <1>2, FS_Subset, FS_CardinalityType

\* Nobody drops a handle.
LEMMA HeldSame ==
    ASSUME \A c \in Clients : (client'[c] = "gone") <=> (client[c] = "gone"), kind' = kind, NEW b \in Blocks
    PROVE  HeldBy(b)' = HeldBy(b)
  BY DEF HeldBy, Holders

\* Links.
LEMMA LinkedFinite ==
    ASSUME TypeInv, ChildInv, NEW b \in Blocks
    PROVE  IsFiniteSet(Linked(b)) /\ Cardinality(Linked(b)) \in Nat
<1>1. CASE b \in Parents
  <2>1. Linked(b) \subseteq Range(Nested[b])
    <3>1. ASSUME NEW c \in Linked(b)
          PROVE  c \in Range(Nested[b])
      <4>1. c \in Children /\ nested_parent[c] = b
        BY DEF Linked
      <4> QED  BY <1>1, <4>1 DEF ChildInv, Range
    <3> QED  BY <3>1
  <2>2. IsFiniteSet(Range(Nested[b]))
    BY <1>1, ConstantFacts
  <2> QED  BY <2>1, <2>2, FS_Subset, FS_CardinalityType
<1>2. CASE b \notin Parents
  <2>1. Linked(b) = {}
    <3>1. b # NoBlock
      BY ConstantFacts
    <3>2. \A c \in Children : nested_parent[c] \in Parents \cup {NoBlock}
      BY DEF TypeInv, LinkType, Blocks
    <3> QED  BY <1>2, <3>1, <3>2 DEF Linked
  <2> QED  BY <2>1, FS_EmptySet
<1> QED  BY <1>1, <1>2

\* The references that no frame holds are a number.
LEMMA RestNat ==
    ASSUME TypeInv, ChildInv, NEW b \in Blocks
    PROVE  Rest(b) \in Nat
<1>1. Cardinality(HeldBy(b)) \in Nat /\ Cardinality(Captors(b)) \in Nat /\ Cardinality(Linked(b)) \in Nat
  BY HeldFinite, CaptorsCount, LinkedFinite
<1>2. Owned(b) \in Nat
  BY DEF Owned
<1> QED  BY <1>1, <1>2 DEF Rest

\* Whoever has a handle, a child or a link, and is in no frame, is left alone.
LEMMA RestSame ==
    ASSUME \A p \in Parents : Lives(p)' <=> Lives(p),
           \A c \in Clients : (client'[c] = "gone") <=> (client[c] = "gone"),
           kind' = kind, queue' = queue, nested_parent' = nested_parent, NEW b \in Blocks
    PROVE  Rest(b)' = Rest(b)
<1>1. HeldBy(b)' = HeldBy(b)
  BY HeldSame
<1>2. Cardinality(Captors(b)') = Cardinality(Captors(b))
  BY CaptorsSame
<1>3. Owned(b)' = Owned(b)
  BY DEF Owned
<1>4. Linked(b)' = Linked(b)
  BY DEF Linked
<1>5. Rest(b)' = Cardinality(HeldBy(b)') + Cardinality(Captors(b)') + Owned(b)' + Cardinality(Linked(b)')
  BY DEF Rest
<1> QED  BY <1>1, <1>2, <1>3, <1>4, <1>5 DEF Rest

-----------------------------------------------------------------------------
(* What a step leaves alone *)

RunsKept ==
    \A u \in Threads, p \in Parents : (Runs(u, p)' <=> Runs(u, p)) /\ (Runs(u, p) => Base(u)' = Base(u))

\* A step on top of a body's dispatch, or of a trigger, does not move it.
LEMMA BaseKept ==
    ASSUME TypeInv, NEW t \in Threads, NEW s \in Seq(FrameSet), Moves(t, s),
           stack[t] # <<>> /\ Base(t).f = "run" => s # <<>> /\ s[Len(s)] = Base(t),
           s # <<>> /\ s[Len(s)].f = "run" => stack[t] # <<>> /\ s[Len(s)] = Base(t)
    PROVE  RunsKept
<1>1. stack'[t] = s /\ \A u \in Threads : u # t => stack'[u] = stack[u]
  BY MoveFacts
<1>2. ASSUME NEW u \in Threads, NEW p \in Parents
      PROVE  (Runs(u, p)' <=> Runs(u, p)) /\ (Runs(u, p) => Base(u)' = Base(u))
  <2>1. CASE u # t
    BY <1>1, <2>1 DEF Runs, Base
  <2>2. CASE u = t
    <3>1. Runs(t, p)' <=> (s # <<>> /\ s[Len(s)].f = "run" /\ s[Len(s)].b = p)
      BY <1>1 DEF Runs, Base
    <3>2. Base(t)' = s[Len(s)]
      BY <1>1 DEF Base
    <3> QED  BY <2>2, <3>1, <3>2 DEF Runs
  <2> QED  BY <2>1, <2>2
<1> QED  BY <1>2 DEF RunsKept

\* No body is destroyed.
LEMMA LivesKept ==
    ASSUME RunsKept, body_claimed' = body_claimed, kind' = kind,
           \A c \in Clients : (client'[c] = "gone") <=> (client[c] = "gone"), NEW p \in Parents
    PROVE  Lives(p)' <=> Lives(p)
<1>1. Holders(p) \subseteq Clients
  BY ConstantFacts DEF Blocks
<1>2. (\E c \in Holders(p) : client'[c] # "gone") <=> (\E c \in Holders(p) : client[c] # "gone")
  BY <1>1
<1>3. (\E t \in Threads : Runs(t, p)' /\ Base(t)'.at \in InBody) <=> (\E t \in Threads : Runs(t, p) /\ Base(t).at \in InBody)
  BY DEF RunsKept
<1>4. Lives(p)' <=> /\ kind'[p] = "task" /\ body_claimed'[p] => \E t \in Threads : Runs(t, p)' /\ Base(t)'.at \in InBody
                    /\ kind'[p] = "op" => \E c \in Holders(p) : client'[c] # "gone"
  BY DEF Lives, InBody, Holders
<1> QED  BY <1>2, <1>3, <1>4 DEF Lives

\* A caller-owned access is a parent.
LEMMA OpIsParent ==
    ASSUME TypeInv, NEW b \in Blocks, kind[b] # "bare"
    PROVE  b \in Parents
  BY DEF TypeInv, KindType, Blocks

\* A run of a body is at the bottom of a stack.
LEMMA RunBase ==
    ASSUME TypeInv, NEW t \in Threads, NEW p, Runs(t, p)
    PROVE  RunFrame(Base(t)) /\ p \in Parents /\ Base(t).b = p /\ Base(t) \in FrameSet
<1>1. stack[t] # <<>> /\ Base(t).f = "run" /\ Base(t).b = p
  BY DEF Runs
<1>2. StackOK(stack[t]) /\ Base(t) \in FrameSet /\ Len(stack[t]) \in 1..3
  BY <1>1, TopFacts
<1>3. RunFrame(Base(t))
  BY <1>1, <1>2 DEF Base, StackOK, TriggerFrame
<1> QED  BY <1>1, <1>2, <1>3 DEF RunFrame

\* The child a body is about to attach.
LEMMA UnlinkChild ==
    ASSUME TypeInv, NEW t \in Threads, NEW p, Runs(t, p), Base(t).at \in {"link", "unlink"}
    PROVE  Base(t).k + 1 \in DOMAIN Nested[p] /\ Nested[p][Base(t).k + 1] \in Children
<1>1. RunFrame(Base(t)) /\ p \in Parents /\ Base(t).b = p /\ Base(t) \in FrameSet
  BY RunBase
<1>2. Base(t).k \in Nat /\ Base(t).k < Len(Nested[p])
  BY <1>1 DEF RunFrame, FrameSet
<1>3. Nested[p] \in Seq(Children)
  BY <1>1, ConstantFacts
<1> QED  BY <1>2, <1>3

\* The runs of bodies.
LEMMA RunKept ==
    ASSUME TypeInv, RunInv, RunsKept, queue' = queue, body_claimed' = body_claimed, kind' = kind,
           \A p \in Parents : ~body_claimed[p] => num_locks'[p] = num_locks[p] /\ completed'[p] = completed[p],
           \A c \in Clients : client'[c] = "dormant" => client[c] = "dormant" /\ stack'[c] = stack[c]
    PROVE  RunInv'
<1>1. \A p \in queue' : ~body_claimed'[p] /\ \A t \in Threads : ~Runs(t, p)'
  BY DEF RunInv, RunsKept, TypeInv, LinkType
<1>2. \A p \in Parents, t \in Threads : Runs(t, p)' => (body_claimed'[p] <=> Base(t)'.at # "claim")
  BY DEF RunInv, RunsKept
<1>3. \A p \in Parents, t, u \in Threads : Runs(t, p)' /\ Runs(u, p)' => t = u
  BY DEF RunInv, RunsKept
<1>4. \A p \in Parents : ~body_claimed'[p] => num_locks'[p] = 0 /\ ~completed'[p]
  BY DEF RunInv
<1>5. ASSUME NEW c \in Clients, client'[c] = "dormant"
      PROVE  /\ stack'[c] = <<>> /\ kind'[Handle[c]] = "op" /\ ~body_claimed'[Handle[c]]
             /\ Handle[c] \notin queue' /\ \A t \in Threads : ~Runs(t, Handle[c])'
  <2>1. client[c] = "dormant" /\ stack'[c] = stack[c]
    BY <1>5
  <2>2. /\ stack[c] = <<>> /\ kind[Handle[c]] = "op" /\ ~body_claimed[Handle[c]]
        /\ Handle[c] \notin queue /\ \A t \in Threads : ~Runs(t, Handle[c])
    BY <2>1 DEF RunInv
  <2>3. CASE Handle[c] \in Parents
    BY <2>1, <2>2, <2>3 DEF RunsKept
  <2>4. CASE Handle[c] \notin Parents
    BY <2>1, <2>2, <2>4, OpIsParent, ConstantFacts
  <2> QED  BY <2>3, <2>4
<1> QED  BY <1>1, <1>2, <1>3, <1>4, <1>5 DEF RunInv

\* The links of children.
LEMMA ChildKept ==
    ASSUME TypeInv, ChildInv, RunsKept,
           \A p \in Parents : num_locks'[p] > 0 => num_locks[p] > 0,
           \A c \in Children : completed[c] => completed'[c],
           \A c \in Children : \/ nested_parent'[c] = nested_parent[c]
                               \/ nested_parent'[c] = NoBlock /\ completed'[c],
           \A c \in Children : nested_parent'[c] # NoBlock => ~completed'[c],
           \A p \in Parents : nested_parent'[p] = NoBlock
    PROVE  ChildInv'
<1>1. ASSUME NEW c \in Children, NEW p \in Parents, nested_parent'[c] = p
      PROVE  /\ ~completed'[c]
             /\ \E i \in DOMAIN Nested[p] : /\ c = Nested[p][i]
                                            /\ \A t \in Threads : Runs(t, p)' => i <= Base(t)'.k
  <2>1. nested_parent[c] = p /\ p # NoBlock
    BY <1>1, ConstantFacts DEF Blocks
  <2>3. PICK i \in DOMAIN Nested[p] : c = Nested[p][i] /\ \A t \in Threads : Runs(t, p) => i <= Base(t).k
    BY <2>1 DEF ChildInv
  <2>4. \A t \in Threads : Runs(t, p)' => i <= Base(t)'.k
    BY <2>3 DEF RunsKept
  <2> QED  BY <1>1, <2>1, <2>3, <2>4
<1>2. \A p \in Parents : nested_parent'[p] = NoBlock
  OBVIOUS
<1>3. ASSUME NEW p \in Parents, num_locks'[p] > 0, NEW i \in DOMAIN Nested[p]
      PROVE  \/ completed'[Nested[p][i]] \/ nested_parent'[Nested[p][i]] = p
             \/ \E t \in Threads : Runs(t, p)' /\ Base(t)'.at \in InBody /\ i > Base(t)'.k
  <2>1. \/ completed[Nested[p][i]] \/ nested_parent[Nested[p][i]] = p
        \/ \E t \in Threads : Runs(t, p) /\ Base(t).at \in InBody /\ i > Base(t).k
    BY <1>3 DEF ChildInv
  <2>2. Nested[p][i] \in Children
    BY NestedFacts
  <2> QED  BY <2>1, <2>2 DEF RunsKept
<1>4. ASSUME NEW p \in Parents, NEW t \in Threads, Runs(t, p)', Base(t)'.at = "unlink"
      PROVE  completed'[Nested[p][Base(t)'.k + 1]]
  <2>1. Runs(t, p) /\ Base(t)' = Base(t)
    BY <1>4 DEF RunsKept
  <2>2. completed[Nested[p][Base(t).k + 1]]
    BY <1>4, <2>1 DEF ChildInv
  <2>3. Nested[p][Base(t).k + 1] \in Children
    BY <1>4, <2>1, UnlinkChild
  <2> QED  BY <2>1, <2>2, <2>3
<1> QED  BY <1>1, <1>2, <1>3, <1>4 DEF ChildInv, InBody

\* Completion locks.
LEMMA LocksKept ==
    ASSUME LocksInv, \A p \in Parents : num_locks'[p] = num_locks[p] /\ StackLocks(p)' = StackLocks(p),
           nested_parent' = nested_parent
    PROVE  LocksInv'
<1>1. \A p \in Parents : Linked(p)' = Linked(p)
  BY DEF Linked
<1>2. \A p \in Parents : Cardinality(Linked(p))' = Cardinality(Linked(p))
  BY <1>1
<1> QED  BY <1>2 DEF LocksInv

\* The settle of a parent.
LEMMA SettleKept ==
    ASSUME NEW p \in Parents, SettleOK(p), body_claimed[p] => body_claimed'[p],
           completed'[p] = completed[p], cancelled'[p] = cancelled[p], num_locks[p] > 0 => num_locks'[p] > 0,
           StackLocks(p) = 0 /\ Linked(p) = {} => StackLocks(p)' = 0 /\ Linked(p)' = {},
           \A u \in Threads : Settles(u, p)' =>
                /\ Settles(u, p) /\ (Top(u)'.at = "lock" <=> Top(u).at = "lock")
                /\ Top(u)'.cancel = Top(u).cancel
    PROVE  SettleOK(p)'
<1>1. (completed'[p] \/ \E t \in Threads : Settles(t, p)') => body_claimed'[p] /\ StackLocks(p)' = 0 /\ Linked(p)' = {}
  BY DEF SettleOK
<1>2. \A t, u \in Threads : Settles(t, p)' /\ Settles(u, p)' => t = u
  BY DEF SettleOK
<1>3. \A t \in Threads : Settles(t, p)' => /\ completed'[p] <=> Top(t)'.at # "lock"
                                           /\ ~Top(t)'.cancel => num_locks'[p] > 0
  BY DEF SettleOK
<1>4. completed'[p] /\ ~cancelled'[p] => num_locks'[p] > 0
  BY DEF SettleOK
<1> QED  BY <1>1, <1>2, <1>3, <1>4 DEF SettleOK

\* Attached clients.
LEMMA AttachKept ==
    ASSUME AttachInv, kind' = kind, continuations' = continuations,
           \A b \in Blocks : (completed[b] => completed'[b]) /\ (continuations[b] # <<>> => ~completed'[b]),
           \A c \in Clients : client[c] \in {"attached", "gone"} => client'[c] = client[c],
           \A t \in Threads : stack'[t] # <<>> =>
                \/ Top(t)'.conts = <<>>
                \/ stack[t] # <<>> /\ Top(t)'.conts = Top(t).conts /\ Top(t)'.b = Top(t).b,
           TypeInv
    PROVE  AttachInv'
<1>1. ASSUME NEW b \in Blocks
      PROVE  ContsOK(b)'
  <2>1. continuations[b] \in Seq(Clients)
    BY DEF TypeInv, LinkType
  <2>2. Range(continuations[b]) \subseteq Clients
    BY <2>1 DEF Range
  <2>3. ContsOK(b)
    BY DEF AttachInv
  <2> QED  BY <2>2, <2>3 DEF ContsOK
<1>2. ASSUME NEW t \in Threads, stack'[t] # <<>>
      PROVE  TopOK(t)'
  <2>1. CASE Top(t)'.conts = <<>>
    BY <2>1 DEF IsInjective, Range, TopOK
  <2>2. CASE Top(t)'.conts # <<>>
    <3>1. stack[t] # <<>> /\ Top(t)'.conts = Top(t).conts /\ Top(t)'.b = Top(t).b
      BY <1>2, <2>2
    <3>2. Top(t).conts \in Seq(Clients) /\ Top(t).b \in Blocks
      BY <3>1, TopFacts DEF FrameSet
    <3>3. Range(Top(t).conts) \subseteq Clients
      BY <3>2 DEF Range
    <3>4. TopOK(t)
      BY <3>1 DEF AttachInv
    <3>5. /\ IsInjective(Top(t)'.conts) /\ completed'[Top(t)'.b]
          /\ \A c \in Range(Top(t)'.conts) : client'[c] = "attached" /\ Handle[c] = Top(t)'.b
      BY <2>2, <3>1, <3>2, <3>3, <3>4 DEF TopOK
    <3> QED  BY <3>5 DEF TopOK
  <2> QED  BY <2>1, <2>2
<1>3. ASSUME NEW t \in Threads, NEW u \in Threads, Resumes(t)', Resumes(u)', Top(t)'.b = Top(u)'.b
      PROVE  t = u
  <2>1. stack[t] # <<>> /\ Top(t)'.conts = Top(t).conts /\ Top(t)'.b = Top(t).b
    BY <1>3 DEF Resumes
  <2>2. stack[u] # <<>> /\ Top(u)'.conts = Top(u).conts /\ Top(u)'.b = Top(u).b
    BY <1>3 DEF Resumes
  <2>3. Resumes(t) /\ Resumes(u) /\ Top(t).b = Top(u).b
    BY <1>3, <2>1, <2>2 DEF Resumes
  <2> QED  BY <2>3 DEF AttachInv
<1>4. \A c \in Clients : kind'[Handle[c]] = "node" => client'[c] = "gone"
  BY DEF AttachInv
<1> QED  BY <1>1, <1>2, <1>3, <1>4 DEF AttachInv

\* Owners of accesses.
LEMMA OwnerKept ==
    ASSUME NEW c \in Clients, OwnerOK(c), TypeInv, kind[Handle[c]] = "op", RunsKept,
           client'[c] = client[c] \/ (client'[c] = "served" /\ completed[Handle[c]]),
           settle_synchronously' = settle_synchronously, completed'[Handle[c]] = completed[Handle[c]],
           ~completed[Handle[c]] /\ Settles(c, Handle[c]) => Settles(c, Handle[c])',
           \A t \in Threads : settle_synchronously[Handle[c]] /\ Runs(t, Handle[c])
                                /\ Base(t).at = "self_lock" => num_locks'[Handle[c]] = num_locks[Handle[c]]
    PROVE  OwnerOK(c)'
<1>1. Handle[c] \in Parents /\ c \in Threads
  BY OpIsParent, ConstantFacts
<1>2. PICK p \in Parents : p = Handle[c]
  BY <1>1
<1>3. client'[c] \in {"served", "gone"} => completed'[p]
  BY <1>2 DEF OwnerOK
<1>4. settle_synchronously'[p] => client'[c] \in {"idle", "served", "gone"}
  BY <1>2 DEF OwnerOK
<1>5. settle_synchronously'[p] /\ ~completed'[p] => (Runs(c, p)' /\ Base(c)'.at # "drop") \/ Settles(c, p)'
  BY <1>1, <1>2 DEF OwnerOK, RunsKept
<1>6. \A t \in Threads : settle_synchronously'[p] /\ Runs(t, p)' /\ Base(t)'.at = "self_lock" =>
            num_locks'[p] = ExecutionFlag + 1
  BY <1>2 DEF OwnerOK, RunsKept
<1> QED  BY <1>2, <1>3, <1>4, <1>5, <1>6 DEF OwnerOK

\* The counts of frames are numbers.
LEMMA StackNat ==
    ASSUME NEW b
    PROVE  StackRefs(b) \in Nat /\ StackLocks(b) \in Nat
<1>1. ASSUME NEW n
      PROVE  Num(n, b) \in Nat
  <2>1. With(n, b) \in SUBSET Threads /\ IsFiniteSet(Threads)
    BY ConstantFacts DEF With
  <2>2. IsFiniteSet(With(n, b))
    BY <2>1, FS_Subset
  <2> QED  BY <2>2, FS_CardinalityType DEF Num
<1>2. /\ Num(1, b) \in Nat /\ Num(2, b) \in Nat /\ Num(3, b) \in Nat /\ Num(4, b) \in Nat /\ Num(5, b) \in Nat
      /\ Num(6, b) \in Nat /\ Num(7, b) \in Nat /\ Num(8, b) \in Nat /\ Num(9, b) \in Nat
  BY <1>1
<1>3. StackRefs(b) \in Nat
  BY <1>2 DEF StackRefs
<1>4. StackLocks(b) \in Nat
  BY <1>2 DEF StackLocks
<1> QED  BY <1>3, <1>4

\* A reference count moves with the references.
LEMMA RefsMove ==
    ASSUME RefsInv, kind' = kind, TypeInv, ChildInv,
           \A b \in Blocks : Counted(b) => \E d, e \in Int :
                Rest(b)' = Rest(b) + d /\ StackRefs(b)' = StackRefs(b) + e /\ refcount'[b] = refcount[b] + d + e,
           \A b \in Blocks : ~Counted(b) => refcount'[b] = refcount[b]
    PROVE  RefsInv'
<1>1. ASSUME NEW b \in Blocks
      PROVE  refcount'[b] = IF Counted(b)' THEN Rest(b)' + StackRefs(b)' ELSE 0
  <2>0. Counted(b)' <=> Counted(b)
    BY DEF Counted
  <2>1. CASE Counted(b)
    <3>1. PICK d \in Int, e \in Int :
                Rest(b)' = Rest(b) + d /\ StackRefs(b)' = StackRefs(b) + e /\ refcount'[b] = refcount[b] + d + e
      BY <2>1
    <3>2. Rest(b) \in Nat /\ StackRefs(b) \in Nat /\ refcount[b] = Rest(b) + StackRefs(b)
      BY <2>1, RestNat, StackNat DEF RefsInv
    <3>3. refcount'[b] = Rest(b)' + StackRefs(b)'
      BY <3>1, <3>2
    <3> QED  BY <2>0, <2>1, <3>3
  <2>2. CASE ~Counted(b)
    BY <2>0, <2>2 DEF RefsInv
  <2> QED  BY <2>1, <2>2
<1> QED  BY <1>1 DEF RefsInv

\* The frames after a move of t's stack.
LEMMA FrameMove ==
    ASSUME TypeInv, NEW t \in Threads, NEW s \in Seq(FrameSet), Moves(t, s)
    PROVE  /\ stack' \in [Threads -> Seq(FrameSet)] /\ stack'[t] = s
           /\ s # <<>> => Top(t)' = s[1] /\ Base(t)' = s[Len(s)]
           /\ \A b \in Blocks : /\ Settles(t, b)' <=> s # <<>> /\ s[1].f = "settle" /\ s[1].b = b
                                /\ Runs(t, b)' <=> s # <<>> /\ s[Len(s)].f = "run" /\ s[Len(s)].b = b
           /\ \A u \in Threads : u # t =>
                  /\ stack'[u] = stack[u] /\ Top(u)' = Top(u) /\ Base(u)' = Base(u)
                  /\ \A b \in Blocks : (Settles(u, b)' <=> Settles(u, b)) /\ (Runs(u, b)' <=> Runs(u, b))
<1>1. /\ stack'[t] = s /\ stack' \in [Threads -> Seq(FrameSet)]
      /\ \A u \in Threads : u # t => stack'[u] = stack[u]
  BY MoveFacts
<1>2. s # <<>> => Head(s) = s[1]
  BY ReturnFacts
<1>3. s # <<>> => Top(t)' = s[1] /\ Base(t)' = s[Len(s)]
  BY <1>1, <1>2 DEF Top, Base
<1>4. ASSUME NEW b \in Blocks
      PROVE  /\ Settles(t, b)' <=> s # <<>> /\ s[1].f = "settle" /\ s[1].b = b
             /\ Runs(t, b)' <=> s # <<>> /\ s[Len(s)].f = "run" /\ s[Len(s)].b = b
  BY <1>1, <1>3 DEF Settles, Runs
<1>5. ASSUME NEW u \in Threads, u # t
      PROVE  /\ stack'[u] = stack[u] /\ Top(u)' = Top(u) /\ Base(u)' = Base(u)
             /\ \A b \in Blocks : (Settles(u, b)' <=> Settles(u, b)) /\ (Runs(u, b)' <=> Runs(u, b))
  <2>1. stack'[u] = stack[u] /\ Top(u)' = Top(u) /\ Base(u)' = Base(u)
    BY <1>1, <1>5 DEF Top, Base
  <2> QED  BY <2>1 DEF Settles, Runs
<1> QED  BY <1>1, <1>3, <1>4, <1>5

\* A settle or a release is called by something.
LEMMA UpperLen ==
    ASSUME TypeInv, NEW t \in Threads, stack[t] # <<>>, Top(t).f \in {"settle", "release"}
    PROVE  Len(stack[t]) \in {2, 3} /\ Base(t) = stack[t][Len(stack[t])]
<1>1. StackOK(stack[t]) /\ Top(t) = stack[t][1] /\ Len(stack[t]) \in 1..3
  BY TopFacts
<1>2. Len(stack[t]) # 1
  BY <1>1 DEF StackOK, RunFrame, TriggerFrame
<1> QED  BY <1>1, <1>2 DEF Base

\* It goes on,
LEMMA UpperPut ==
    ASSUME TypeInv, NEW t \in Threads, stack[t] # <<>>, Top(t).f \in {"settle", "release"},
           NEW y, y \in FrameSet, Put(t, y)
    PROVE  \E s \in Seq(FrameSet) :
              /\ Moves(t, s) /\ RunsKept
              /\ Len(s) = Len(stack[t]) /\ s[1] = y /\ s[2] = stack[t][2]
              /\ Len(s) = 3 => s[3] = stack[t][3]
<1>1. PICK s \in Seq(FrameSet) :
              /\ Moves(t, s)
              /\ Len(s) = Len(stack[t]) /\ s[1] = y /\ \A i \in 2..Len(s) : s[i] = stack[t][i]
  BY PutMove
<1>2. Len(stack[t]) \in {2, 3} /\ Base(t) = stack[t][Len(stack[t])]
  BY UpperLen
<1>3. s # <<>> /\ s[Len(s)] = Base(t) /\ s[2] = stack[t][2] /\ (Len(s) = 3 => s[3] = stack[t][3])
  <2>1. CASE Len(stack[t]) = 2
    <3>1. Len(s) = 2 /\ s[2] = stack[t][2] /\ Base(t) = stack[t][2]
      BY <1>1, <1>2, <2>1
    <3>2. s # <<>>
      BY <3>1
    <3>3. s[Len(s)] = s[2]
      BY <3>1
    <3> QED  BY <3>1, <3>2, <3>3
  <2>2. CASE Len(stack[t]) = 3
    <3>1. Len(s) = 3 /\ s[2] = stack[t][2] /\ s[3] = stack[t][3] /\ Base(t) = stack[t][3]
      BY <1>1, <1>2, <2>2
    <3>2. s # <<>>
      BY SMTT(60), <3>1
    <3>3. s[Len(s)] = s[3]
      BY <3>1
    <3> QED  BY <3>1, <3>2, <3>3
  <2> QED  BY <1>2, <2>1, <2>2
<1>4. RunsKept
  BY <1>1, <1>3, BaseKept
<1> QED  BY <1>1, <1>3, <1>4

\* or returns.
LEMMA UpperReturn ==
    ASSUME TypeInv, NEW t \in Threads, stack[t] # <<>>, Top(t).f \in {"settle", "release"}, Return(t)
    PROVE  \E s \in Seq(FrameSet) :
              /\ Moves(t, s) /\ RunsKept
              /\ Len(s) = Len(stack[t]) - 1 /\ s[1] = stack[t][2]
              /\ Len(s) = 2 => s[2] = stack[t][3]
<1>1. PICK s \in Seq(FrameSet) :
              /\ Moves(t, s)
              /\ Len(s) = Len(stack[t]) - 1 /\ \A i \in 1..Len(s) : s[i] = stack[t][i + 1]
  BY ReturnMove
<1>2. Len(stack[t]) \in {2, 3} /\ Base(t) = stack[t][Len(stack[t])]
  BY UpperLen
<1>3. s # <<>> /\ s[Len(s)] = Base(t) /\ s[1] = stack[t][2] /\ (Len(s) = 2 => s[2] = stack[t][3])
  <2>1. CASE Len(stack[t]) = 2
    <3>1. Len(s) = 1 /\ s[1] = stack[t][2] /\ Base(t) = stack[t][2]
      <4>1. Len(s) = 1
        BY <1>1, <2>1
      <4>2. 1 \in 1..Len(s) /\ 1 + 1 = 2
        BY <4>1
      <4> QED  BY <1>1, <1>2, <2>1, <4>1, <4>2
    <3>2. Len(s) > 0
      BY <3>1
    <3>4. s # <<>>
      BY <3>2, NonEmpty, Zenon
    <3>3. s[Len(s)] = s[1]
      BY <3>1
    <3> QED  BY <3>1, <3>4, <3>3
  <2>2. CASE Len(stack[t]) = 3
    <3>1. Len(s) = 2 /\ s[1] = stack[t][2] /\ s[2] = stack[t][3] /\ Base(t) = stack[t][3]
      <4>1. Len(s) = 2
        BY <1>1, <2>2
      <4>2. 1 \in 1..Len(s) /\ 1 + 1 = 2 /\ 2 \in 1..Len(s) /\ 2 + 1 = 3
        BY <4>1
      <4> QED  BY <1>1, <1>2, <2>2, <4>1, <4>2
    <3>2. Len(s) > 0
      BY <3>1
    <3>4. s # <<>>
      BY <3>2, NonEmpty, Zenon
    <3>3. s[Len(s)] = s[2]
      BY <3>1
    <3> QED  BY <3>1, <3>4, <3>3
  <2> QED  BY <1>2, <2>1, <2>2
<1>4. RunsKept
  BY <1>1, <1>3, BaseKept
<1> QED  BY <1>1, <1>3, <1>4

\* Weights are numbers.
LEMMA WeightInt ==
    ASSUME NEW s, NEW b
    PROVE  G(s, b) \in Int /\ M(s, b) \in Int
<1>1. ASSUME NEW n
      PROVE  Has(n, s, b) \in Int
  BY DEF Has
<1>2. G(s, b) \in Int
  BY <1>1 DEF G
<1>3. M(s, b) \in Int
  BY <1>1 DEF M
<1> QED  BY <1>2, <1>3

\* What a move of t's stack does to the counts.
LEMMA StackMove ==
    ASSUME TypeInv, NEW t \in Threads, NEW s, Moves(t, s), kind' = kind,
           StackOK(s), NEW b \in Blocks
    PROVE  /\ StackRefs(b) \in Nat /\ StackLocks(b) \in Nat
           /\ StackRefs(b)' \in Nat /\ StackLocks(b)' \in Nat
           /\ StackRefs(b)' = StackRefs(b) + G(s, b) - G(stack[t], b)
           /\ StackLocks(b)' = StackLocks(b) + M(s, b) - M(stack[t], b)
<1>1. stack \in [Threads -> Seq(FrameSet)] /\ StackOK(stack[t])
  BY DEF TypeInv, StackType
<1> QED  BY <1>1, StackStep DEF Moves

\* A move that counts for the same.
LEMMA StackSame ==
    ASSUME TypeInv, NEW t \in Threads, NEW s, Moves(t, s), kind' = kind,
           StackOK(s), NEW b \in Blocks, G(s, b) = G(stack[t], b), M(s, b) = M(stack[t], b)
    PROVE  StackRefs(b)' = StackRefs(b) /\ StackLocks(b)' = StackLocks(b)
<1>1. /\ StackRefs(b) \in Nat /\ StackLocks(b) \in Nat
      /\ StackRefs(b)' = StackRefs(b) + G(s, b) - G(stack[t], b)
      /\ StackLocks(b)' = StackLocks(b) + M(s, b) - M(stack[t], b)
  BY StackMove
<1>2. G(s, b) \in Int /\ M(s, b) \in Int
  BY WeightInt
<1> QED  BY <1>1, <1>2

\* A step that moves frames and clients only.
LEMMA QuietStep ==
    ASSUME BlockInv, NEW t \in Threads, NEW s \in Seq(FrameSet), Moves(t, s),
           StackOK(s), RunsKept,
           UNCHANGED <<kind, num_locks, body_claimed, completed, cancelled, prereq_cancelled,
                       nested_parent, settle_synchronously, refcount, queue>>,
           \A b \in Blocks : G(s, b) = G(stack[t], b) /\ M(s, b) = M(stack[t], b),
           \A p \in Parents : s # <<>> /\ s[1].f = "settle" /\ s[1].b = p =>
                /\ Settles(t, p) /\ (s[1].at = "lock" <=> Top(t).at = "lock") /\ s[1].cancel = Top(t).cancel,
           \A p \in Parents : ~completed[p] /\ Settles(t, p) => s # <<>> /\ s[1].f = "settle" /\ s[1].b = p,
           client' \in [Clients -> {"dormant", "idle", "blocked", "attached", "served", "gone"}],
           continuations' \in [Blocks -> Seq(Clients)],
           \A c \in Clients : (client'[c] = "gone") <=> (client[c] = "gone"),
           \A c \in Clients : client'[c] = "dormant" => client[c] = "dormant" /\ stack'[c] = stack[c],
           \A c \in Clients : kind[Handle[c]] = "op" =>
                \/ client'[c] = client[c] \/ (client'[c] = "served" /\ completed[Handle[c]])
                \/ ~settle_synchronously[Handle[c]] /\ client'[c] \notin {"served", "gone"}
    PROVE  TypeInv' /\ RefsInv' /\ LocksInv' /\ RunInv' /\ SettleInv' /\ ChildInv' /\ OwnerInv'
<1>0. /\ kind' = kind /\ num_locks' = num_locks /\ body_claimed' = body_claimed /\ completed' = completed
      /\ cancelled' = cancelled /\ prereq_cancelled' = prereq_cancelled /\ nested_parent' = nested_parent
      /\ settle_synchronously' = settle_synchronously /\ refcount' = refcount /\ queue' = queue
  OBVIOUS
<1>1. TypeInv /\ RefsInv /\ LocksInv /\ RunInv /\ SettleInv /\ ChildInv /\ OwnerInv
  BY DEF BlockInv
<1>2. /\ stack' \in [Threads -> Seq(FrameSet)] /\ stack'[t] = s
      /\ s # <<>> => Top(t)' = s[1] /\ Base(t)' = s[Len(s)]
      /\ \A b \in Blocks : Settles(t, b)' <=> s # <<>> /\ s[1].f = "settle" /\ s[1].b = b
      /\ \A u \in Threads : u # t => /\ stack'[u] = stack[u] /\ Top(u)' = Top(u)
                                     /\ \A b \in Blocks : Settles(u, b)' <=> Settles(u, b)
  <2>1. TypeInv /\ s \in Seq(FrameSet) /\ Moves(t, s)
    BY <1>1
  <2>2. stack' \in [Threads -> Seq(FrameSet)] /\ stack'[t] = s /\ (s # <<>> => Top(t)' = s[1] /\ Base(t)' = s[Len(s)])
    BY <2>1, FrameMove, ZenonT(60)
  <2>3. \A b \in Blocks : Settles(t, b)' <=> s # <<>> /\ s[1].f = "settle" /\ s[1].b = b
    BY <2>1, FrameMove, ZenonT(60)
  <2>4. \A u \in Threads : u # t => /\ stack'[u] = stack[u] /\ Top(u)' = Top(u)
                                   /\ \A b \in Blocks : Settles(u, b)' <=> Settles(u, b)
    BY <2>1, FrameMove, ZenonT(60)
  <2> QED  BY <2>2, <2>3, <2>4, Zenon
<1>3. TypeInv'
  <2>1. CountType'
    BY <1>0, <1>1 DEF TypeInv, CountType
  <2>2. FlagType'
    BY <1>0, <1>1 DEF TypeInv, FlagType
  <2>3. LinkType'
    BY <1>0, <1>1 DEF TypeInv, LinkType
  <2>4. KindType'
    BY <1>0, <1>1 DEF TypeInv, KindType, Holders
  <2>5. StackType'
    <3>1. \A u \in Threads : StackOK(stack'[u])
      BY <1>1, <1>2 DEF TypeInv, StackType
    <3> QED  BY <1>2, <3>1 DEF StackType, StackOK, FrameSet, RunFrame, TriggerFrame, ParentSettle, ChildSettle, ReleaseFrame
  <2> QED  BY <2>1, <2>2, <2>3, <2>4, <2>5 DEF TypeInv
<1>4. \A b \in Blocks : StackRefs(b)' = StackRefs(b) /\ StackLocks(b)' = StackLocks(b)
  <2>1. ASSUME NEW b \in Blocks
        PROVE  StackRefs(b)' = StackRefs(b) /\ StackLocks(b)' = StackLocks(b)
    <3>1. TypeInv /\ Moves(t, s) /\ kind' = kind /\ StackOK(s)
      BY <1>0, <1>1
    <3>2. G(s, b) = G(stack[t], b) /\ M(s, b) = M(stack[t], b)
      OBVIOUS
    <3> QED  BY <3>1, <3>2, StackSame
  <2> QED  BY <2>1
<1>5. \A p \in Parents : Lives(p)' <=> Lives(p)
  BY <1>0, LivesKept
<1>6. \A b \in Blocks : Rest(b)' = Rest(b)
  BY <1>0, <1>5, RestSame
<1>7. RefsInv'
  <2>1. \A b \in Blocks : Counted(b)' <=> Counted(b)
    BY <1>0 DEF Counted
  <2> QED  BY <1>0, <1>1, <1>4, <1>6, <2>1 DEF RefsInv
<1>8. LocksInv'
  BY <1>0, <1>1, <1>4, LocksKept DEF Blocks
<1>9. RunInv'
  BY <1>0, <1>1, RunKept
<1>10. ChildInv'
  <2>1. \A c \in Children : nested_parent'[c] # NoBlock => ~completed'[c]
    BY <1>0, <1>1 DEF ChildInv, TypeInv, LinkType, Blocks
  <2>2. \A p \in Parents : nested_parent'[p] = NoBlock
    BY <1>0, <1>1 DEF ChildInv
  <2>3. \A p \in Parents : num_locks'[p] > 0 => num_locks[p] > 0
    BY <1>0
  <2>4. \A c \in Children : completed[c] => completed'[c]
    BY <1>0
  <2>5. \A c \in Children : \/ nested_parent'[c] = nested_parent[c]
                            \/ nested_parent'[c] = NoBlock /\ completed'[c]
    BY <1>0
  <2> QED  BY <1>1, <2>1, <2>2, <2>3, <2>4, <2>5, ChildKept
<1>11. SettleInv'
  <2>1. ASSUME NEW p \in Parents
        PROVE  SettleOK(p)'
    <3>1. SettleOK(p) /\ p \in Blocks
      BY <1>1 DEF SettleInv, Blocks
    <3>2. Linked(p)' = Linked(p)
      BY <1>0 DEF Linked
    <3>3. \A u \in Threads : Settles(u, p)' =>
                /\ Settles(u, p) /\ (Top(u)'.at = "lock" <=> Top(u).at = "lock")
                /\ Top(u)'.cancel = Top(u).cancel
      BY <1>2, <3>1
    <3> QED  BY <1>0, <1>4, <3>1, <3>2, <3>3, SettleKept
  <2> QED  BY <2>1 DEF SettleInv
<1>12. OwnerInv'
  <2>1. ASSUME NEW c \in Clients, kind[Handle[c]] = "op"
        PROVE  OwnerOK(c)'
    <3>1. Handle[c] \in Parents /\ c \in Threads /\ Handle[c] \in Blocks /\ OwnerOK(c)
      BY <1>1, <2>1, OpIsParent, ConstantFacts DEF OwnerInv
    <3>2. ~completed[Handle[c]] /\ Settles(c, Handle[c]) => Settles(c, Handle[c])'
      BY <1>2, <3>1
    <3>3. CASE client'[c] = client[c] \/ (client'[c] = "served" /\ completed[Handle[c]])
      BY <1>0, <1>1, <2>1, <3>1, <3>2, <3>3, OwnerKept
    <3>4. CASE ~settle_synchronously[Handle[c]] /\ client'[c] \notin {"served", "gone"}
      BY <1>0, <3>4 DEF OwnerOK
    <3> QED  BY <2>1, <3>3, <3>4
  <2> QED  BY <1>0, <2>1 DEF OwnerInv
<1> QED  BY <1>3, <1>7, <1>8, <1>9, <1>10, <1>11, <1>12

-----------------------------------------------------------------------------
(* Settles *)

\* A settle on top of a stack is one of three: of the body below it, of the child that was
\* triggered, of that child's parent.
LEMMA SettleShape ==
    ASSUME TypeInv, NEW t \in Threads, NEW a, At(t, "settle", a)
    PROVE  /\ stack[t] # <<>> /\ Top(t) = stack[t][1] /\ Top(t) \in FrameSet /\ stack[t] \in Seq(FrameSet)
           /\ Top(t).f = "settle" /\ Top(t).at = a
           /\ \/ SettleOfRun(stack[t]) /\ Top(t).b \in Parents
              \/ SettleOfChild(stack[t]) /\ Top(t).b \in Children
              \/ SettleOfParent(stack[t]) /\ Top(t).b \in Parents
<1>1. stack[t] # <<>> /\ Top(t).f = "settle" /\ Top(t).at = a
  BY DEF At
<1>2. stack[t] \in Seq(FrameSet) /\ StackOK(stack[t]) /\ Top(t) = stack[t][1] /\ Top(t) \in FrameSet
  BY <1>1, TopFacts
<1>3. stack[t][1].f = "settle"
  BY <1>1, <1>2
<1>4. Len(stack[t]) # 0
  BY <1>1, <1>2
<1>5. SettleOfRun(stack[t]) \/ SettleOfChild(stack[t]) \/ SettleOfParent(stack[t])
  BY <1>2, <1>3, <1>4 DEF StackOK, SettleOfRun, SettleOfChild, SettleOfParent, RunFrame, TriggerFrame, ReleaseFrame
<1>6. SettleOfRun(stack[t]) \/ SettleOfParent(stack[t]) => Top(t).b \in Parents
  BY <1>2 DEF SettleOfRun, SettleOfParent, ParentSettle
<1>7. SettleOfChild(stack[t]) => Top(t).b \in Children
  BY <1>2 DEF SettleOfChild, ChildSettle
<1> QED  BY <1>1, <1>2, <1>5, <1>6, <1>7

\* A settle goes on,
LEMMA SettleGoes ==
    ASSUME TypeInv, NEW t \in Threads, NEW a, At(t, "settle", a), a # "drop_parent",
           NEW y, y \in FrameSet, Put(t, y), y.f = "settle", y.b = Top(t).b, y.parent = Top(t).parent,
           y.at \in {"notify", "conts", "on_complete"},
           y.at = "on_complete" => y.conts = <<>> /\ y.parent = NoBlock
    PROVE  \E s \in Seq(FrameSet) :
              /\ Moves(t, s) /\ RunsKept /\ StackOK(s) /\ s # <<>> /\ s[1] = y
              /\ \A b \in Blocks : G(s, b) = G(stack[t], b) /\ M(s, b) = M(stack[t], b)
<1>1. /\ stack[t] # <<>> /\ Top(t) = stack[t][1] /\ Top(t) \in FrameSet /\ stack[t] \in Seq(FrameSet)
      /\ Top(t).f = "settle" /\ Top(t).at = a
      /\ SettleOfRun(stack[t]) \/ SettleOfChild(stack[t]) \/ SettleOfParent(stack[t])
  BY SettleShape
<1>2. PICK s \in Seq(FrameSet) :
              /\ Moves(t, s) /\ RunsKept
              /\ Len(s) = Len(stack[t]) /\ s[1] = y /\ s[2] = stack[t][2]
              /\ Len(s) = 3 => s[3] = stack[t][3]
  BY <1>1, UpperPut
<1>3. Len(s) > 0 => s # <<>>
  BY NonEmpty
<1>4. CASE SettleOfRun(stack[t])
  <2>1. /\ Len(stack[t]) = 2 /\ RunFrame(stack[t][2]) /\ stack[t][2].at = "drop"
        /\ ParentSettle(stack[t][1], stack[t][2].b)
    BY <1>4 DEF SettleOfRun
  <2>2. ParentSettle(y, stack[t][2].b)
    BY <1>1, <2>1 DEF ParentSettle
  <2>3. StackOK(s) /\ s # <<>>
    BY <1>2, <1>3, <2>1, <2>2 DEF StackOK
  <2>4. ASSUME NEW b \in Blocks
        PROVE  G(s, b) = G(stack[t], b) /\ M(s, b) = M(stack[t], b)
    <3>1. PICK z : z = stack[t]
      OBVIOUS
    <3>2. G(z, b) = G(s, b) /\ M(z, b) = M(s, b)
      BY ZenonT(60), <1>1, <1>2, <2>1, <2>2, <3>1, HasRunSettle
    <3> QED  BY <3>1, <3>2
  <2> QED  BY <1>2, <2>3, <2>4
<1>5. CASE SettleOfChild(stack[t])
  <2>1. /\ Len(stack[t]) = 2 /\ TriggerFrame(stack[t][2]) /\ ChildSettle(stack[t][1])
        /\ stack[t][1].b = stack[t][2].b
    BY <1>5 DEF SettleOfChild
  <2>2. ChildSettle(y)
    BY <1>1, <2>1 DEF ChildSettle
  <2>3. StackOK(s) /\ s # <<>>
    BY <1>1, <1>2, <1>3, <2>1, <2>2 DEF StackOK
  <2>4. ASSUME NEW b \in Blocks
        PROVE  G(s, b) = G(stack[t], b) /\ M(s, b) = M(stack[t], b)
    <3>1. PICK z : z = stack[t]
      OBVIOUS
    <3>2. /\ G(z, b) = (IF b = z[2].b THEN 1 ELSE 0) + (IF b = z[1].parent THEN 1 ELSE 0)
          /\ M(z, b) = (IF b = z[1].parent /\ z[1].at # "drop_parent" THEN 1 ELSE 0)
      BY <1>1, <2>1, <3>1, HasTriggerSettle
    <3>3. /\ G(s, b) = (IF b = s[2].b THEN 1 ELSE 0) + (IF b = s[1].parent THEN 1 ELSE 0)
          /\ M(s, b) = (IF b = s[1].parent /\ s[1].at # "drop_parent" THEN 1 ELSE 0)
      BY <1>2, <2>1, <2>2, HasTriggerSettle
    <3>4. s[2] = z[2] /\ s[1].parent = z[1].parent /\ s[1].at # "drop_parent" /\ z[1].at # "drop_parent"
      BY <1>1, <1>2, <3>1
    <3>5. G(s, b) = G(z, b) /\ M(s, b) = M(z, b)
      BY <3>2, <3>3, <3>4
    <3> QED  BY <3>1, <3>5
  <2> QED  BY <1>2, <2>3, <2>4
<1>6. CASE SettleOfParent(stack[t])
  <2>1. /\ Len(stack[t]) = 3 /\ TriggerFrame(stack[t][3]) /\ ChildSettle(stack[t][2])
        /\ stack[t][2].b = stack[t][3].b /\ stack[t][2].at = "drop_parent"
        /\ ParentSettle(stack[t][1], stack[t][2].parent)
    BY <1>6 DEF SettleOfParent
  <2>2. ParentSettle(y, stack[t][2].parent)
    BY <1>1, <2>1 DEF ParentSettle
  <2>3. StackOK(s) /\ s # <<>>
    BY <1>2, <1>3, <2>1, <2>2 DEF StackOK
  <2>4. ASSUME NEW b \in Blocks
        PROVE  G(s, b) = G(stack[t], b) /\ M(s, b) = M(stack[t], b)
    <3>1. PICK z : z = stack[t]
      OBVIOUS
    <3>2. G(z, b) = G(s, b) /\ M(z, b) = M(s, b)
      BY ZenonT(60), <1>1, <1>2, <2>1, <2>2, <3>1, HasTriggerParent
    <3> QED  BY <3>1, <3>2
  <2> QED  BY <1>2, <2>3, <2>4
<1> QED  BY <1>1, <1>4, <1>5, <1>6

\* or returns.
LEMMA SettleReturns ==
    ASSUME TypeInv, NEW t \in Threads, NEW a, At(t, "settle", a), Top(t).parent = NoBlock, Return(t)
    PROVE  \E s \in Seq(FrameSet) :
              /\ Moves(t, s) /\ RunsKept /\ StackOK(s) /\ s # <<>> /\ s[1].conts = <<>>
              /\ s[1].f = "settle" => s[1].b \in Children
              /\ \A b \in Blocks : G(s, b) = G(stack[t], b) /\ M(s, b) = M(stack[t], b)
<1>1. /\ stack[t] # <<>> /\ Top(t) = stack[t][1] /\ Top(t) \in FrameSet /\ stack[t] \in Seq(FrameSet)
      /\ Top(t).f = "settle" /\ Top(t).at = a
      /\ SettleOfRun(stack[t]) \/ SettleOfChild(stack[t]) \/ SettleOfParent(stack[t])
  BY SettleShape
<1>2. PICK s \in Seq(FrameSet) :
              /\ Moves(t, s) /\ RunsKept
              /\ Len(s) = Len(stack[t]) - 1 /\ s[1] = stack[t][2]
              /\ Len(s) = 2 => s[2] = stack[t][3]
  BY <1>1, UpperReturn
<1>3. Len(s) > 0 => s # <<>>
  BY NonEmpty
<1>4. CASE SettleOfRun(stack[t])
  <2>1. /\ Len(stack[t]) = 2 /\ RunFrame(stack[t][2]) /\ stack[t][2].at = "drop"
        /\ ParentSettle(stack[t][1], stack[t][2].b) /\ Len(s) = 1 /\ RunFrame(s[1])
    BY <1>2, <1>4 DEF SettleOfRun
  <2>3. StackOK(s) /\ s # <<>> /\ s[1].conts = <<>> /\ s[1].f = "run"
    BY <1>2, <1>3, <2>1 DEF StackOK, RunFrame
  <2>4. ASSUME NEW b \in Blocks
        PROVE  G(s, b) = G(stack[t], b) /\ M(s, b) = M(stack[t], b)
    <3>1. PICK z : z = stack[t]
      OBVIOUS
    <3>2. /\ Len(s) = 1 /\ RunFrame(s[1]) /\ s[1] = z[2] /\ z \in Seq(FrameSet)
          /\ Len(z) = 2 /\ RunFrame(z[2]) /\ ParentSettle(z[1], z[2].b)
      BY <1>1, <1>2, <2>1, <3>1
    <3>3. /\ G(z, b) = (IF b = z[2].b /\ kind[b] = "task" THEN 1 ELSE 0) + (IF b = z[2].b /\ z[2].at \in InBody THEN 1 ELSE 0) + (IF b = z[2].b /\ z[2].at \in {"link", "unlink"} THEN 1 ELSE 0)
          /\ M(z, b) = (IF b = z[2].b /\ z[2].at \in InBody \cup {"self_lock"} THEN 1 ELSE 0) + (IF b = z[2].b /\ z[2].at = "link" THEN 1 ELSE 0)
      BY <3>2, HasRunSettle, ZenonT(60)
    <3>4. /\ G(s, b) = (IF b = s[1].b /\ kind[b] = "task" THEN 1 ELSE 0) + (IF b = s[1].b /\ s[1].at \in InBody THEN 1 ELSE 0) + (IF b = s[1].b /\ s[1].at \in {"link", "unlink"} THEN 1 ELSE 0)
          /\ M(s, b) = (IF b = s[1].b /\ s[1].at \in InBody \cup {"self_lock"} THEN 1 ELSE 0) + (IF b = s[1].b /\ s[1].at = "link" THEN 1 ELSE 0)
      BY <3>2, HasRun, ZenonT(60)
    <3> QED  BY <3>1, <3>2, <3>3, <3>4
  <2> QED  BY <1>2, <2>3, <2>4
<1>5. CASE SettleOfChild(stack[t])
  <2>1. /\ Len(stack[t]) = 2 /\ TriggerFrame(stack[t][2]) /\ ChildSettle(stack[t][1])
        /\ stack[t][1].b = stack[t][2].b /\ Len(s) = 1 /\ TriggerFrame(s[1])
    BY <1>2, <1>5 DEF SettleOfChild
  <2>3. StackOK(s) /\ s # <<>> /\ s[1].conts = <<>> /\ s[1].f = "trigger"
    BY <1>2, <1>3, <2>1 DEF StackOK, TriggerFrame
  <2>4. ASSUME NEW b \in Blocks
        PROVE  G(s, b) = G(stack[t], b) /\ M(s, b) = M(stack[t], b)
    <3>1. PICK z : z = stack[t]
      OBVIOUS
    <3>2. /\ G(z, b) = (IF b = z[2].b THEN 1 ELSE 0) + (IF b = z[1].parent THEN 1 ELSE 0)
          /\ M(z, b) = (IF b = z[1].parent /\ z[1].at # "drop_parent" THEN 1 ELSE 0)
      BY <1>1, <2>1, <3>1, HasTriggerSettle
    <3>3. G(s, b) = (IF b = s[1].b THEN 1 ELSE 0) /\ M(s, b) = 0
      BY <1>2, <2>1, HasTrigger
    <3>4. s[1] = z[2] /\ z[1].parent # b
      BY <1>1, <1>2, <3>1, ConstantFacts
    <3>5. G(s, b) = G(z, b) /\ M(s, b) = M(z, b)
      BY <3>2, <3>3, <3>4
    <3> QED  BY <3>1, <3>5
  <2> QED  BY <1>2, <2>3, <2>4
<1>6. CASE SettleOfParent(stack[t])
  <2>1. /\ Len(stack[t]) = 3 /\ TriggerFrame(stack[t][3]) /\ ChildSettle(stack[t][2])
        /\ stack[t][2].b = stack[t][3].b /\ stack[t][2].at = "drop_parent"
        /\ ParentSettle(stack[t][1], stack[t][2].parent)
        /\ Len(s) = 2 /\ TriggerFrame(s[2]) /\ ChildSettle(s[1]) /\ s[1] = stack[t][2] /\ s[2] = stack[t][3]
    BY <1>2, <1>6 DEF SettleOfParent
  <2>3. StackOK(s) /\ s # <<>> /\ s[1].conts = <<>> /\ s[1].b \in Children
    BY <1>2, <1>3, <2>1 DEF StackOK, ChildSettle
  <2>4. ASSUME NEW b \in Blocks
        PROVE  G(s, b) = G(stack[t], b) /\ M(s, b) = M(stack[t], b)
    <3>1. PICK z : z = stack[t]
      OBVIOUS
    <3>2. G(z, b) = (IF b = z[3].b THEN 1 ELSE 0) + (IF b = z[2].parent THEN 1 ELSE 0) /\ M(z, b) = 0
      BY <1>1, <2>1, <3>1, HasTriggerParent
    <3>3. /\ G(s, b) = (IF b = s[2].b THEN 1 ELSE 0) + (IF b = s[1].parent THEN 1 ELSE 0)
          /\ M(s, b) = (IF b = s[1].parent /\ s[1].at # "drop_parent" THEN 1 ELSE 0)
      BY <1>2, <2>1, HasTriggerSettle
    <3>5. G(s, b) = G(z, b) /\ M(s, b) = M(z, b)
      BY <2>1, <3>1, <3>2, <3>3
    <3> QED  BY <3>1, <3>5
  <2> QED  BY <1>2, <2>3, <2>4
<1> QED  BY <1>1, <1>4, <1>5, <1>6

\* A parent is complete once its settle is past the lock.
LEMMA SettledTop ==
    ASSUME TypeInv, SettleInv, NEW t \in Threads, NEW a, At(t, "settle", a), Top(t).b \in Parents
    PROVE  /\ completed[Top(t).b] <=> a # "lock"
           /\ Settles(t, Top(t).b) /\ \A u \in Threads : Settles(u, Top(t).b) => u = t
           /\ body_claimed[Top(t).b] /\ StackLocks(Top(t).b) = 0 /\ Linked(Top(t).b) = {}
           /\ ~Top(t).cancel => num_locks[Top(t).b] > 0
<1>1. stack[t] # <<>> /\ Top(t).f = "settle" /\ Top(t).at = a
  BY DEF At
<1>2. Settles(t, Top(t).b)
  BY <1>1 DEF Settles
<1>3. SettleOK(Top(t).b)
  BY DEF SettleInv
<1> QED  BY <1>1, <1>2, <1>3 DEF SettleOK

\* A step of a settle past the lock that moves frames and clients only.
LEMMA QuietSettle ==
    ASSUME BlockInv, NEW t \in Threads, NEW a, At(t, "settle", a), a # "lock",
           NEW s \in Seq(FrameSet), Moves(t, s), RunsKept, StackOK(s), s # <<>>,
           \A b \in Blocks : G(s, b) = G(stack[t], b) /\ M(s, b) = M(stack[t], b),
           s[1].f = "settle" /\ s[1].b \in Parents =>
                s[1].b = Top(t).b /\ s[1].at # "lock" /\ s[1].cancel = Top(t).cancel,
           UNCHANGED <<kind, num_locks, body_claimed, completed, cancelled, prereq_cancelled,
                       nested_parent, continuations, settle_synchronously, refcount, queue>>,
           client' \in [Clients -> {"dormant", "idle", "blocked", "attached", "served", "gone"}],
           \A c \in Clients : client'[c] = client[c] \/
                (/\ client[c] \in {"blocked", "attached"} /\ client'[c] = "served"
                 /\ kind[Handle[c]] = "op" => completed[Handle[c]])
    PROVE  TypeInv' /\ RefsInv' /\ LocksInv' /\ RunInv' /\ SettleInv' /\ ChildInv' /\ OwnerInv'
<1>1. TypeInv /\ SettleInv /\ RunInv /\ continuations' \in [Blocks -> Seq(Clients)]
  BY DEF BlockInv, TypeInv, LinkType
<1>2. stack[t] # <<>> /\ Top(t).f = "settle" /\ Top(t).at = a /\ Top(t) \in FrameSet
  BY <1>1, SettleShape
<1>3. \A p \in Parents : Settles(t, p) => completed[p]
  <2>1. ASSUME NEW p \in Parents, Settles(t, p)
        PROVE  completed[p]
    <3>1. Top(t).b = p
      BY <2>1 DEF Settles
    <3> QED  BY <1>1, <3>1, SettledTop
  <2> QED  BY <2>1
<1>4. \A p \in Parents : s # <<>> /\ s[1].f = "settle" /\ s[1].b = p =>
                /\ Settles(t, p) /\ (s[1].at = "lock" <=> Top(t).at = "lock") /\ s[1].cancel = Top(t).cancel
  BY <1>2 DEF Settles
<1>5. \A p \in Parents : ~completed[p] /\ Settles(t, p) => s # <<>> /\ s[1].f = "settle" /\ s[1].b = p
  BY <1>3
<1>6. \A c \in Clients : (client'[c] = "gone") <=> (client[c] = "gone")
  OBVIOUS
<1>7. ASSUME NEW c \in Clients, client'[c] = "dormant"
      PROVE  client[c] = "dormant" /\ stack'[c] = stack[c]
  <2>1. client[c] = "dormant"
    BY <1>7
  <2>2. stack[c] = <<>>
    BY <1>1, <2>1 DEF RunInv
  <2>3. c # t /\ c \in Threads
    BY <1>2, <2>2, ConstantFacts
  <2> QED  BY <1>1, <2>1, <2>3, MoveFacts
<1>8. \A c \in Clients : kind[Handle[c]] = "op" =>
                \/ client'[c] = client[c] \/ (client'[c] = "served" /\ completed[Handle[c]])
                \/ ~settle_synchronously[Handle[c]] /\ client'[c] \notin {"served", "gone"}
  OBVIOUS
<1>9. UNCHANGED <<kind, num_locks, body_claimed, completed, cancelled, prereq_cancelled,
                       nested_parent, settle_synchronously, refcount, queue>>
  OBVIOUS
<1> QED  BY <1>1, <1>4, <1>5, <1>6, <1>7, <1>8, <1>9, QuietStep

\* The attached clients, when a thread moves to s and no client is resumed.
LEMMA AttachMove ==
    ASSUME TypeInv, AttachInv, NEW t \in Threads, NEW s \in Seq(FrameSet), Moves(t, s), kind' = kind,
           continuations' = continuations,
           \A b \in Blocks : (completed[b] => completed'[b]) /\ (continuations[b] # <<>> => ~completed'[b]),
           \A c \in Clients : client[c] \in {"attached", "gone"} => client'[c] = client[c],
           s # <<>> => \/ s[1].conts = <<>>
                       \/ stack[t] # <<>> /\ s[1].conts = Top(t).conts /\ s[1].b = Top(t).b
    PROVE  AttachInv'
<1>1. /\ stack'[t] = s /\ (s # <<>> => Top(t)' = s[1])
      /\ \A u \in Threads : u # t => stack'[u] = stack[u] /\ Top(u)' = Top(u)
  BY FrameMove
<1>2. \A u \in Threads : stack'[u] # <<>> =>
                \/ Top(u)'.conts = <<>>
                \/ stack[u] # <<>> /\ Top(u)'.conts = Top(u).conts /\ Top(u)'.b = Top(u).b
  BY <1>1
<1> QED  BY <1>2, AttachKept

\* Frames that differ from the top in where they are.
LEMMA GotoFrame ==
    ASSUME NEW x, x \in FrameSet, NEW a,
           a \in {"claim", "body", "link", "unlink", "self_lock", "drop", "lock", "notify", "conts",
                  "drop_parent", "on_complete", "sub"}
    PROVE  LET y == [x EXCEPT !.at = a] IN
           /\ y \in FrameSet /\ y.f = x.f /\ y.b = x.b /\ y.at = a /\ y.k = x.k
           /\ y.cancel = x.cancel /\ y.conts = x.conts /\ y.parent = x.parent
  BY DEF FrameSet

\* settle wakes the waiters and takes the continuations: the invariant is kept.
LEMMA NotifyKept ==
    ASSUME BlockInv, NEW t \in Threads, settle_notify(t)
    PROVE  BlockInv'
<1>1. TypeInv /\ SettleInv /\ AttachInv
  BY DEF BlockInv
<1>2. At(t, "settle", "notify") /\ client' = Notified(Top(t).b) /\ Goto(t, "conts")
  BY DEF settle_notify
<1>3. /\ UNCHANGED <<kind, num_locks, body_claimed, completed, cancelled, prereq_cancelled,
                       nested_parent, continuations, settle_synchronously, refcount, queue>>
      /\ kind' = kind /\ completed' = completed /\ continuations' = continuations
  BY DEF settle_notify, blockVars
<1>4. /\ stack[t] # <<>> /\ Top(t) \in FrameSet /\ Top(t).f = "settle" /\ Top(t).at = "notify"
      /\ Top(t).b \in Blocks
  BY <1>1, <1>2, SettleShape DEF FrameSet
<1>5. PICK y : y = [Top(t) EXCEPT !.at = "conts"]
  OBVIOUS
<1>6. /\ y \in FrameSet /\ y.f = "settle" /\ y.b = Top(t).b /\ y.at = "conts" /\ y.cancel = Top(t).cancel
      /\ y.conts = Top(t).conts /\ y.parent = Top(t).parent /\ Put(t, y)
  BY <1>2, <1>4, <1>5, GotoFrame DEF Goto
<1>7. PICK s \in Seq(FrameSet) :
              /\ Moves(t, s) /\ RunsKept /\ StackOK(s) /\ s # <<>> /\ s[1] = y
              /\ \A b \in Blocks : G(s, b) = G(stack[t], b) /\ M(s, b) = M(stack[t], b)
  BY <1>1, <1>2, <1>6, SettleGoes
<1>8. client' \in [Clients -> {"dormant", "idle", "blocked", "attached", "served", "gone"}]
  BY <1>1, <1>2 DEF Notified, TypeInv, LinkType
<1>9. kind[Top(t).b] = "op" => completed[Top(t).b]
  BY <1>1, <1>2, <1>4, SettledTop, OpIsParent
<1>10. \A c \in Clients : client'[c] = client[c] \/
                (/\ client[c] \in {"blocked", "attached"} /\ client'[c] = "served"
                 /\ kind[Handle[c]] = "op" => completed[Handle[c]])
  BY <1>2, <1>9 DEF Notified
<1>11. TypeInv' /\ RefsInv' /\ LocksInv' /\ RunInv' /\ SettleInv' /\ ChildInv' /\ OwnerInv'
  BY <1>2, <1>3, <1>6, <1>7, <1>8, <1>10, QuietSettle
<1>12. AttachInv'
  <2>1. \A b \in Blocks : (completed[b] => completed'[b]) /\ (continuations[b] # <<>> => ~completed'[b])
    BY <1>1, <1>3 DEF AttachInv, ContsOK
  <2>2. \A c \in Clients : client[c] \in {"attached", "gone"} => client'[c] = client[c]
    BY <1>2 DEF Notified
  <2> QED  BY <1>1, <1>3, <1>4, <1>6, <1>7, <2>1, <2>2, AttachMove
<1> QED  BY <1>11, <1>12 DEF BlockInv

\* The end of settle, on_complete, drops what the settled block held: the invariant is
\* kept.
LEMMA OnCompleteKept ==
    ASSUME BlockInv, NEW t \in Threads, on_complete(t)
    PROVE  BlockInv'
<1>1. TypeInv /\ SettleInv /\ AttachInv
  BY DEF BlockInv
<1>2. At(t, "settle", "on_complete") /\ Return(t)
  BY DEF on_complete
<1>3. /\ UNCHANGED <<kind, num_locks, body_claimed, completed, cancelled, prereq_cancelled,
                       nested_parent, continuations, settle_synchronously, refcount, queue>>
      /\ kind' = kind /\ completed' = completed /\ continuations' = continuations /\ client' = client
  BY DEF on_complete, blockVars
<1>4. /\ stack[t] # <<>> /\ Top(t) \in FrameSet /\ Top(t) = stack[t][1] /\ Top(t).at = "on_complete"
      /\ SettleOfRun(stack[t]) \/ SettleOfChild(stack[t]) \/ SettleOfParent(stack[t])
  BY <1>1, <1>2, SettleShape
<1>5. Top(t).parent = NoBlock
  BY <1>4 DEF SettleOfRun, SettleOfChild, SettleOfParent, ParentSettle, ChildSettle
<1>7. PICK s \in Seq(FrameSet) :
              /\ Moves(t, s) /\ RunsKept /\ StackOK(s) /\ s # <<>> /\ s[1].conts = <<>>
              /\ s[1].f = "settle" => s[1].b \in Children
              /\ \A b \in Blocks : G(s, b) = G(stack[t], b) /\ M(s, b) = M(stack[t], b)
  BY <1>1, <1>2, <1>5, SettleReturns
<1>8. client' \in [Clients -> {"dormant", "idle", "blocked", "attached", "served", "gone"}]
  BY <1>1, <1>3 DEF TypeInv, LinkType
<1>9. s[1].f = "settle" => s[1].b \notin Parents
  BY <1>7, ConstantFacts
<1>11. TypeInv' /\ RefsInv' /\ LocksInv' /\ RunInv' /\ SettleInv' /\ ChildInv' /\ OwnerInv'
  BY <1>2, <1>3, <1>7, <1>8, <1>9, QuietSettle
<1>12. AttachInv'
  <2>1. \A b \in Blocks : (completed[b] => completed'[b]) /\ (continuations[b] # <<>> => ~completed'[b])
    BY <1>1, <1>3 DEF AttachInv, ContsOK
  <2> QED  BY <1>1, <1>3, <1>7, <2>1, AttachMove
<1> QED  BY <1>11, <1>12 DEF BlockInv

\* New frames.
LEMMA NewFrame ==
    ASSUME NEW f, f \in {"run", "settle", "release", "trigger"}, NEW b, b \in Blocks, NEW a,
           a \in {"claim", "lock", "sub", "drop"}, NEW cancel, cancel \in BOOLEAN
    PROVE  LET y == [Frame(f, b, a) EXCEPT !.cancel = cancel] IN
           /\ y \in FrameSet /\ y.f = f /\ y.b = b /\ y.at = a /\ y.k = 0 /\ y.cancel = cancel
           /\ y.conts = <<>> /\ y.parent = NoBlock
<1>1. <<>> \in Seq(Clients) /\ 0 \in Nat
  OBVIOUS
<1>2. PICK y : y = [f |-> f, b |-> b, at |-> a, k |-> 0, cancel |-> cancel, conts |-> <<>>, parent |-> NoBlock]
  OBVIOUS
<1>3. y = [Frame(f, b, a) EXCEPT !.cancel = cancel]
  BY <1>2 DEF Frame
<1>4. y \in FrameSet
  BY <1>1, <1>2 DEF FrameSet
<1>5. y.f = f /\ y.b = b /\ y.at = a /\ y.k = 0 /\ y.cancel = cancel /\ y.conts = <<>> /\ y.parent = NoBlock
  BY <1>2
<1> QED  BY <1>3, <1>4, <1>5

\* The release of a parent is called by the settle of its child.
LEMMA ReleaseCalled ==
    ASSUME TypeInv, NEW t \in Threads, At(t, "settle", "conts"), Top(t).conts = <<>>, Top(t).parent # NoBlock,
           Call(t, "drop_parent", Release(Top(t).parent, Top(t).cancel))
    PROVE  \E s \in Seq(FrameSet) :
              /\ Moves(t, s) /\ RunsKept /\ StackOK(s) /\ s # <<>> /\ s[1].conts = <<>> /\ s[1].f = "release"
              /\ \A b \in Blocks : G(s, b) = G(stack[t], b) /\ M(s, b) = M(stack[t], b)
<1>1. /\ stack[t] # <<>> /\ Top(t) = stack[t][1] /\ Top(t) \in FrameSet /\ stack[t] \in Seq(FrameSet)
      /\ Top(t).f = "settle" /\ Top(t).at = "conts"
      /\ SettleOfRun(stack[t]) \/ SettleOfChild(stack[t]) \/ SettleOfParent(stack[t])
  BY SettleShape
<1>2. SettleOfChild(stack[t])
  BY <1>1 DEF SettleOfRun, SettleOfParent, ParentSettle
<1>3. /\ Len(stack[t]) = 2 /\ TriggerFrame(stack[t][2]) /\ ChildSettle(Top(t)) /\ Top(t).b = stack[t][2].b
  BY <1>1, <1>2 DEF SettleOfChild
<1>4. Top(t).parent \in Parents /\ Top(t).cancel \in BOOLEAN
  BY <1>1 DEF FrameSet
<1>5. PICK y, x : y = Release(Top(t).parent, Top(t).cancel) /\ x = [Top(t) EXCEPT !.at = "drop_parent"]
  OBVIOUS
<1>6. y \in FrameSet /\ ReleaseFrame(y, Top(t).parent)
  <2>1. /\ y \in FrameSet /\ y.f = "release" /\ y.b = Top(t).parent /\ y.at = "sub" /\ y.conts = <<>>
        /\ y.parent = NoBlock
    BY <1>4, <1>5, NewFrame DEF Release, Blocks
  <2> QED  BY <1>4, <2>1 DEF ReleaseFrame
<1>7. /\ x \in FrameSet /\ x.f = "settle" /\ x.b = Top(t).b /\ x.at = "drop_parent"
      /\ x.conts = <<>> /\ x.parent = Top(t).parent
  BY ZenonT(60), <1>1, <1>5, GotoFrame
<1>8. ChildSettle(x)
  BY <1>3, <1>7 DEF ChildSettle
<1>9. PICK s \in Seq(FrameSet) :
              /\ Moves(t, s)
              /\ Len(s) = Len(stack[t]) + 1 /\ s[1] = y /\ s[2] = x
              /\ \A i \in 2..Len(stack[t]) : s[i + 1] = stack[t][i]
  BY <1>1, <1>5, <1>6, <1>7, CallMove
<1>10. Len(s) = 3 /\ s[3] = stack[t][2]
  <2>1. 2 \in 2..Len(stack[t]) /\ 2 + 1 = 3
    BY <1>3
  <2> QED  BY <1>3, <1>9, <2>1
<1>11. s # <<>>
  <2>1. Len(s) > 0
    BY <1>10
  <2> QED  BY <2>1, NonEmpty, Zenon
<1>12. StackOK(s)
  BY <1>3, <1>6, <1>7, <1>8, <1>9, <1>10 DEF StackOK
<1>13. RunsKept
  <2>1. Base(t).f = "trigger" /\ s[Len(s)].f = "trigger"
    BY <1>3, <1>10 DEF Base, TriggerFrame
  <2> QED  BY <1>9, <2>1, BaseKept
<1>14. ASSUME NEW b \in Blocks
       PROVE  G(s, b) = G(stack[t], b) /\ M(s, b) = M(stack[t], b)
  <2>1. PICK z : z = stack[t]
    OBVIOUS
  <2>2. /\ G(z, b) = (IF b = z[2].b THEN 1 ELSE 0) + (IF b = z[1].parent THEN 1 ELSE 0)
        /\ M(z, b) = (IF b = z[1].parent /\ z[1].at # "drop_parent" THEN 1 ELSE 0)
    BY <1>1, <1>3, <2>1, HasTriggerSettle
  <2>3. /\ G(s, b) = (IF b = s[3].b THEN 1 ELSE 0) + (IF b = s[2].parent THEN 1 ELSE 0)
        /\ M(s, b) = (IF b = Top(t).parent THEN 1 ELSE 0)
    BY <1>3, <1>6, <1>7, <1>8, <1>9, <1>10, HasTriggerRelease
  <2>4. /\ s[3] = z[2] /\ s[2].parent = z[1].parent /\ z[1].parent = Top(t).parent
        /\ z[1].at # "drop_parent"
    BY <1>1, <1>7, <1>9, <1>10, <2>1
  <2>5. G(s, b) = G(z, b) /\ M(s, b) = M(z, b)
    BY <2>2, <2>3, <2>4
  <2> QED  BY <2>1, <2>5
<1>15. s[1].conts = <<>> /\ s[1].f = "release"
  BY <1>6, <1>9 DEF ReleaseFrame
<1> QED  BY <1>9, <1>11, <1>12, <1>13, <1>14, <1>15

\* After its continuations settle releases the parent: the invariant is kept.
LEMMA SettleParentKept ==
    ASSUME BlockInv, NEW t \in Threads, settle_parent(t)
    PROVE  BlockInv'
<1>1. TypeInv /\ SettleInv /\ AttachInv
  BY DEF BlockInv
<1>2. At(t, "settle", "conts") /\ Top(t).conts = <<>>
  BY DEF settle_parent
<1>3. /\ UNCHANGED <<kind, num_locks, body_claimed, completed, cancelled, prereq_cancelled,
                       nested_parent, continuations, settle_synchronously, refcount, queue>>
      /\ kind' = kind /\ completed' = completed /\ continuations' = continuations /\ client' = client
  BY DEF settle_parent, blockVars
<1>4. /\ stack[t] # <<>> /\ Top(t) \in FrameSet /\ Top(t) = stack[t][1] /\ Top(t).at = "conts"
      /\ Top(t).f = "settle" /\ Top(t).b \in Blocks
      /\ SettleOfRun(stack[t]) \/ SettleOfChild(stack[t]) \/ SettleOfParent(stack[t])
  BY <1>1, <1>2, SettleShape DEF FrameSet
<1>8. client' \in [Clients -> {"dormant", "idle", "blocked", "attached", "served", "gone"}]
  BY <1>1, <1>3 DEF TypeInv, LinkType
<1>9. \E s \in Seq(FrameSet) :
         /\ Moves(t, s) /\ RunsKept /\ StackOK(s) /\ s # <<>> /\ s[1].conts = <<>>
         /\ \A b \in Blocks : G(s, b) = G(stack[t], b) /\ M(s, b) = M(stack[t], b)
         /\ s[1].f = "settle" /\ s[1].b \in Parents =>
                s[1].b = Top(t).b /\ s[1].at # "lock" /\ s[1].cancel = Top(t).cancel
  <2>1. CASE kind[Top(t).b] = "op"
    <3>1. Top(t).b \in Parents
      BY <1>1, <1>4, <2>1, OpIsParent
    <3>2. Top(t).parent = NoBlock
      BY <1>4, <3>1, ConstantFacts DEF SettleOfRun, SettleOfChild, SettleOfParent, ParentSettle, ChildSettle
    <3>3. Return(t)
      BY <2>1 DEF settle_parent
    <3>4. PICK s \in Seq(FrameSet) :
              /\ Moves(t, s) /\ RunsKept /\ StackOK(s) /\ s # <<>> /\ s[1].conts = <<>>
              /\ s[1].f = "settle" => s[1].b \in Children
              /\ \A b \in Blocks : G(s, b) = G(stack[t], b) /\ M(s, b) = M(stack[t], b)
      BY <1>1, <1>2, <3>2, <3>3, SettleReturns
    <3>5. s[1].f = "settle" => s[1].b \notin Parents
      BY <3>4, ConstantFacts
    <3> QED  BY <3>4, <3>5
  <2>2. CASE kind[Top(t).b] # "op" /\ Top(t).parent # NoBlock
    <3>1. Call(t, "drop_parent", Release(Top(t).parent, Top(t).cancel))
      BY <2>2 DEF settle_parent
    <3>2. PICK s \in Seq(FrameSet) :
              /\ Moves(t, s) /\ RunsKept /\ StackOK(s) /\ s # <<>> /\ s[1].conts = <<>> /\ s[1].f = "release"
              /\ \A b \in Blocks : G(s, b) = G(stack[t], b) /\ M(s, b) = M(stack[t], b)
      BY <1>1, <1>2, <2>2, <3>1, ReleaseCalled
    <3> QED  BY <3>2
  <2>3. CASE kind[Top(t).b] # "op" /\ Top(t).parent = NoBlock
    <3>1. Goto(t, "on_complete")
      BY <2>3 DEF settle_parent
    <3>2. PICK y : y = [Top(t) EXCEPT !.at = "on_complete"]
      OBVIOUS
    <3>3. /\ y \in FrameSet /\ y.f = "settle" /\ y.b = Top(t).b /\ y.at = "on_complete" /\ y.cancel = Top(t).cancel
          /\ y.conts = <<>> /\ y.parent = Top(t).parent /\ Put(t, y)
      BY ZenonT(60), <1>2, <1>4, <3>1, <3>2, GotoFrame DEF Goto
    <3>4. PICK s \in Seq(FrameSet) :
              /\ Moves(t, s) /\ RunsKept /\ StackOK(s) /\ s # <<>> /\ s[1] = y
              /\ \A b \in Blocks : G(s, b) = G(stack[t], b) /\ M(s, b) = M(stack[t], b)
      BY <1>1, <1>2, <2>3, <3>3, SettleGoes
    <3> QED  BY <3>3, <3>4
  <2> QED  BY <2>1, <2>2, <2>3
<1>10. PICK s \in Seq(FrameSet) :
         /\ Moves(t, s) /\ RunsKept /\ StackOK(s) /\ s # <<>> /\ s[1].conts = <<>>
         /\ \A b \in Blocks : G(s, b) = G(stack[t], b) /\ M(s, b) = M(stack[t], b)
         /\ s[1].f = "settle" /\ s[1].b \in Parents =>
                s[1].b = Top(t).b /\ s[1].at # "lock" /\ s[1].cancel = Top(t).cancel
  BY <1>9
<1>11. TypeInv' /\ RefsInv' /\ LocksInv' /\ RunInv' /\ SettleInv' /\ ChildInv' /\ OwnerInv'
  BY <1>2, <1>3, <1>10, <1>8, QuietSettle
<1>12. AttachInv'
  <2>1. \A b \in Blocks : (completed[b] => completed'[b]) /\ (continuations[b] # <<>> => ~completed'[b])
    BY <1>1, <1>3 DEF AttachInv, ContsOK
  <2> QED  BY <1>1, <1>3, <1>10, <2>1, AttachMove
<1> QED  BY <1>11, <1>12 DEF BlockInv

\* settle resumes one continuation: the invariant is kept.
LEMMA SettleContKept ==
    ASSUME BlockInv, NEW t \in Threads, settle_cont(t)
    PROVE  BlockInv'
<1>1. TypeInv /\ SettleInv /\ AttachInv
  BY DEF BlockInv
<1>2. /\ At(t, "settle", "conts") /\ Top(t).conts # <<>>
      /\ client' = [client EXCEPT ![Head(Top(t).conts)] = "served"]
      /\ Put(t, [Top(t) EXCEPT !.conts = Tail(@)])
  BY DEF settle_cont
<1>3. /\ UNCHANGED <<kind, num_locks, body_claimed, completed, cancelled, prereq_cancelled,
                       nested_parent, continuations, settle_synchronously, refcount, queue>>
      /\ kind' = kind /\ completed' = completed /\ continuations' = continuations
  BY DEF settle_cont, blockVars
<1>4. /\ stack[t] # <<>> /\ Top(t) \in FrameSet /\ Top(t).f = "settle" /\ Top(t).at = "conts"
      /\ Top(t).b \in Blocks /\ Top(t).conts \in Seq(Clients)
  BY <1>1, <1>2, SettleShape DEF FrameSet
<1>5. PICK q, c, b : q = Top(t).conts /\ c = Head(q) /\ b = Top(t).b
  OBVIOUS
<1>6. PICK r : r = Tail(q)
  OBVIOUS
<1>7. /\ r \in Seq(Clients) /\ c \in Clients /\ c \in Range(q) /\ Range(r) \subseteq Range(q)
  <2>1. q \in Seq(Clients) /\ q # <<>>
    BY <1>2, <1>4, <1>5
  <2>2. /\ r \in Seq(Clients) /\ Len(r) = Len(q) - 1 /\ \A i \in 1..Len(q) - 1 : r[i] = q[i + 1]
        /\ q[1] \in Clients /\ c = q[1] /\ Len(q) \in Nat /\ Len(q) >= 1
    BY <1>5, <1>6, <2>1, ReturnFacts
  <2>3. DOMAIN q = 1..Len(q) /\ DOMAIN r = 1..Len(q) - 1 /\ 1 \in DOMAIN q
    BY <2>1, <2>2
  <2>4. \A i \in DOMAIN r : i + 1 \in DOMAIN q /\ r[i] = q[i + 1]
    BY <2>2, <2>3
  <2> QED  BY <2>2, <2>3, <2>4 DEF Range
<1>8. IsInjective(r) /\ c \notin Range(r)
  <2>1. q \in Seq(Clients) /\ q # <<>> /\ IsInjective(q)
    BY <1>1, <1>2, <1>4, <1>5 DEF AttachInv, TopOK
  <2>2. /\ r \in Seq(Clients) /\ Len(r) = Len(q) - 1 /\ \A i \in 1..Len(q) - 1 : r[i] = q[i + 1]
        /\ q[1] \in Clients /\ c = q[1] /\ Len(q) \in Nat /\ Len(q) >= 1
    BY <1>5, <1>6, <2>1, ReturnFacts
  <2>3. DOMAIN q = 1..Len(q) /\ DOMAIN r = 1..Len(q) - 1 /\ 1 \in DOMAIN q
    BY <2>1, <2>2
  <2>4. \A i, j \in DOMAIN q : q[i] = q[j] => i = j
    BY <2>1 DEF IsInjective
  <2>5. ASSUME NEW i \in DOMAIN r
        PROVE  i + 1 \in DOMAIN q /\ r[i] = q[i + 1] /\ i + 1 # 1 /\ i \in Int
    BY <2>2, <2>3
  <2>6. ASSUME NEW i \in DOMAIN r, NEW j \in DOMAIN r, r[i] = r[j]
        PROVE  i = j
    <3>1. i + 1 = j + 1 /\ i \in Int /\ j \in Int
      BY <2>4, <2>5, <2>6
    <3> QED  BY <3>1
  <2>7. c \notin Range(r)
    BY <2>2, <2>3, <2>4, <2>5 DEF Range
  <2> QED  BY <2>6, <2>7 DEF IsInjective
<1>9. completed[b] /\ \A d \in Range(q) : client[d] = "attached" /\ Handle[d] = b
  BY <1>1, <1>2, <1>4, <1>5 DEF AttachInv, TopOK
<1>10. PICK y : y = [Top(t) EXCEPT !.conts = r]
  OBVIOUS
<1>11. /\ y \in FrameSet /\ y.f = "settle" /\ y.b = Top(t).b /\ y.at = "conts" /\ y.cancel = Top(t).cancel
       /\ y.conts = r /\ y.parent = Top(t).parent
  BY <1>4, <1>7, <1>10 DEF FrameSet
<1>12. Put(t, y)
  BY <1>2, <1>5, <1>6, <1>10
<1>13. PICK s \in Seq(FrameSet) :
              /\ Moves(t, s) /\ RunsKept /\ StackOK(s) /\ s # <<>> /\ s[1] = y
              /\ \A x \in Blocks : G(s, x) = G(stack[t], x) /\ M(s, x) = M(stack[t], x)
  BY <1>1, <1>2, <1>11, <1>12, SettleGoes
<1>14. /\ client' \in [Clients -> {"dormant", "idle", "blocked", "attached", "served", "gone"}]
       /\ client'[c] = "served" /\ \A d \in Clients : d # c => client'[d] = client[d]
  BY <1>1, <1>2, <1>5, <1>7 DEF TypeInv, LinkType
<1>15. client[c] = "attached" /\ Handle[c] = b
  BY <1>7, <1>9
<1>16. \A d \in Clients : client'[d] = client[d] \/
                (/\ client[d] \in {"blocked", "attached"} /\ client'[d] = "served"
                 /\ kind[Handle[d]] = "op" => completed[Handle[d]])
  BY <1>9, <1>14, <1>15
<1>17. TypeInv' /\ RefsInv' /\ LocksInv' /\ RunInv' /\ SettleInv' /\ ChildInv' /\ OwnerInv'
  BY <1>2, <1>3, <1>11, <1>13, <1>14, <1>16, QuietSettle
<1>18. AttachInv'
  <2>0. /\ stack'[t] = s /\ Top(t)' = y
        /\ \A u \in Threads : u # t => stack'[u] = stack[u] /\ Top(u)' = Top(u)
    BY <1>1, <1>13, FrameMove
  <2>1. ASSUME NEW x \in Blocks
        PROVE  ContsOK(x)'
    <3>1. ContsOK(x)
      BY <1>1 DEF AttachInv
    <3>2. c \notin Range(continuations[x])
      <4>1. CASE x = b
        <5>1. continuations[x] = <<>>
          BY <1>9, <3>1, <4>1 DEF ContsOK
        <5> QED  BY <5>1 DEF Range
      <4>2. CASE x # b
        BY <1>15, <3>1, <4>2 DEF ContsOK
      <4> QED  BY <4>1, <4>2
    <3>3. Range(continuations[x]) \subseteq Clients
      BY <1>1 DEF TypeInv, LinkType, Range
    <3>4. \A d \in Range(continuations[x]) : client'[d] = client[d]
      BY <1>14, <3>2, <3>3
    <3> QED  BY <1>3, <3>1, <3>4 DEF ContsOK
  <2>2. TopOK(t)'
    <3>1. \A d \in Range(r) : client'[d] = "attached" /\ Handle[d] = b
      <4>1. \A d \in Range(r) : d # c /\ d \in Clients
        BY <1>7, <1>8 DEF Range
      <4> QED  BY <1>7, <1>9, <1>14, <4>1
    <3>2. Top(t)'.conts = r /\ Top(t)'.b = b
      BY <1>5, <1>11, <2>0
    <3>3. completed'[b] /\ IsInjective(r)
      BY <1>3, <1>8, <1>9
    <3> QED  BY <3>1, <3>2, <3>3 DEF TopOK
  <2>3. ASSUME NEW u \in Threads, u # t, stack'[u] # <<>>
        PROVE  TopOK(u)'
    <3>1. stack[u] # <<>> /\ Top(u)' = Top(u) /\ TopOK(u)
      BY <1>1, <2>0, <2>3 DEF AttachInv
    <3>2. Top(u).conts \in Seq(Clients)
      BY <1>1, <3>1, TopFacts DEF FrameSet
    <3>3. Range(Top(u).conts) \subseteq Clients
      BY <3>2 DEF Range
    <3>4. c \notin Range(Top(u).conts)
      <4>1. SUFFICES ASSUME c \in Range(Top(u).conts)
                     PROVE  FALSE
        OBVIOUS
      <4>2. Top(u).b = b
        BY <1>15, <3>1, <4>1 DEF TopOK
      <4>3. Top(u).conts # <<>>
        BY <4>1 DEF Range
      <4>4. Resumes(u) /\ Resumes(t)
        BY <1>2, <1>4, <3>1, <4>3 DEF Resumes
      <4> QED  BY <1>1, <1>5, <2>3, <4>2, <4>4 DEF AttachInv
    <3>5. \A d \in Range(Top(u).conts) : client'[d] = client[d]
      BY <1>14, <3>3, <3>4
    <3>6. /\ IsInjective(Top(u)'.conts) /\ (Top(u)'.conts # <<>> => completed'[Top(u)'.b])
          /\ \A d \in Range(Top(u)'.conts) : client'[d] = "attached" /\ Handle[d] = Top(u)'.b
      BY <1>3, <3>1, <3>5 DEF TopOK
    <3> QED  BY <3>6 DEF TopOK
  <2>4. ASSUME NEW u \in Threads, NEW v \in Threads, Resumes(u)', Resumes(v)', Top(u)'.b = Top(v)'.b
        PROVE  u = v
    <3>1. \A w \in Threads : Resumes(w)' => Resumes(w) /\ Top(w)'.b = Top(w).b
      <4>1. ASSUME NEW w \in Threads, Resumes(w)'
            PROVE  Resumes(w) /\ Top(w)'.b = Top(w).b
        <5>1. CASE w = t
          BY <1>2, <1>4, <1>11, <2>0, <5>1 DEF Resumes
        <5>2. CASE w # t
          BY <2>0, <4>1, <5>2 DEF Resumes
        <5> QED  BY <5>1, <5>2
      <4> QED  BY <4>1
    <3>2. Resumes(u) /\ Resumes(v) /\ Top(u).b = Top(v).b
      BY <2>4, <3>1
    <3> QED  BY <1>1, <3>2 DEF AttachInv
  <2>5. \A d \in Clients : kind'[Handle[d]] = "node" => client'[d] = "gone"
    BY <1>1, <1>3, <1>14, <1>15 DEF AttachInv
  <2>6. \A u \in Threads : stack'[u] # <<>> => TopOK(u)'
    BY <2>2, <2>3
  <2> QED  BY <2>1, <2>4, <2>5, <2>6 DEF AttachInv
<1> QED  BY <1>17, <1>18 DEF BlockInv

-----------------------------------------------------------------------------
(* Clients *)

\* A step that leaves the stacks alone.
LEMMA StillMove ==
    ASSUME TypeInv, NEW t \in Threads, stack' = stack
    PROVE  Moves(t, stack[t]) /\ RunsKept /\ StackOK(stack[t]) /\ stack[t] \in Seq(FrameSet)
<1>1. stack \in [Threads -> Seq(FrameSet)] /\ StackOK(stack[t])
  BY DEF TypeInv, StackType
<1>2. Moves(t, stack[t])
  BY <1>1 DEF Moves
<1>3. RunsKept
  BY DEF RunsKept, Runs, Base
<1> QED  BY <1>1, <1>2, <1>3

\* A client outside the library waits or attaches.
LEMMA WaitKept ==
    ASSUME BlockInv, NEW c \in Clients, Outside(c), client[c] = "idle", stack' = stack, NEW v,
           client' = [client EXCEPT ![c] = v],
           (completed[Handle[c]] /\ v = "served") \/ (~completed[Handle[c]] /\ v \in {"blocked", "attached"}),
           UNCHANGED <<kind, num_locks, body_claimed, completed, cancelled, prereq_cancelled,
                       nested_parent, settle_synchronously, refcount, queue>>,
           continuations' \in [Blocks -> Seq(Clients)]
    PROVE  TypeInv' /\ RefsInv' /\ LocksInv' /\ RunInv' /\ SettleInv' /\ ChildInv' /\ OwnerInv'
<1>1. TypeInv /\ OwnerInv /\ c \in Threads /\ stack[c] = <<>>
  BY ConstantFacts DEF BlockInv, Outside
<1>2. Moves(c, stack[c]) /\ RunsKept /\ StackOK(stack[c]) /\ stack[c] \in Seq(FrameSet)
  BY <1>1, StillMove
<1>3. /\ client' \in [Clients -> {"dormant", "idle", "blocked", "attached", "served", "gone"}]
      /\ client'[c] = v /\ \A d \in Clients : d # c => client'[d] = client[d]
  BY <1>1 DEF TypeInv, LinkType
<1>4. kind[Handle[c]] = "op" /\ ~completed[Handle[c]] => ~settle_synchronously[Handle[c]]
  <2>1. ~Runs(c, Handle[c]) /\ ~Settles(c, Handle[c])
    BY <1>1 DEF Runs, Settles
  <2> QED  BY <1>1, <2>1 DEF OwnerInv, OwnerOK
<1>5. \A d \in Clients : (client'[d] = "gone") <=> (client[d] = "gone")
  BY <1>3
<1>6. \A d \in Clients : client'[d] = "dormant" => client[d] = "dormant" /\ stack'[d] = stack[d]
  BY <1>3
<1>7. \A d \in Clients : kind[Handle[d]] = "op" =>
                \/ client'[d] = client[d] \/ (client'[d] = "served" /\ completed[Handle[d]])
                \/ ~settle_synchronously[Handle[d]] /\ client'[d] \notin {"served", "gone"}
  BY <1>3, <1>4
<1>8. \A p \in Parents : ~Settles(c, p)
  BY <1>1 DEF Settles
<1> QED  BY <1>1, <1>2, <1>3, <1>5, <1>6, <1>7, <1>8, QuietStep

\* A client waits for its block: the invariant is kept.
LEMMA WaitActionKept ==
    ASSUME BlockInv, NEW c \in Threads, wait(c)
    PROVE  BlockInv'
<1>1. TypeInv /\ AttachInv /\ c \in Clients /\ Outside(c) /\ client[c] = "idle" /\ stack' = stack
  BY DEF BlockInv, wait, Outside
<1>2. PICK v : v = IF completed[Handle[c]] THEN "served" ELSE "blocked"
  OBVIOUS
<1>3. client' = [client EXCEPT ![c] = v]
  BY <1>2 DEF wait
<1>4. /\ UNCHANGED <<kind, num_locks, body_claimed, completed, cancelled, prereq_cancelled,
                       nested_parent, settle_synchronously, refcount, queue>>
      /\ kind' = kind /\ completed' = completed /\ continuations' = continuations
  BY DEF wait, blockVars
<1>5. (completed[Handle[c]] /\ v = "served") \/ (~completed[Handle[c]] /\ v \in {"blocked", "attached"})
  BY <1>2
<1>6. continuations' \in [Blocks -> Seq(Clients)]
  BY <1>1, <1>4 DEF TypeInv, LinkType
<1>7. TypeInv' /\ RefsInv' /\ LocksInv' /\ RunInv' /\ SettleInv' /\ ChildInv' /\ OwnerInv'
  BY <1>1, <1>3, <1>4, <1>5, <1>6, WaitKept
<1>8. AttachInv'
  <2>1. \A b \in Blocks : (completed[b] => completed'[b]) /\ (continuations[b] # <<>> => ~completed'[b])
    BY <1>1, <1>4 DEF AttachInv, ContsOK
  <2>2. \A d \in Clients : client[d] \in {"attached", "gone"} => client'[d] = client[d]
    BY <1>1, <1>3 DEF TypeInv, LinkType
  <2>3. Moves(c, stack[c]) /\ stack[c] \in Seq(FrameSet)
    BY <1>1, StillMove
  <2>4. stack[c] = <<>>
    BY <1>1 DEF Outside
  <2> QED  BY <1>1, <1>4, <2>1, <2>2, <2>3, <2>4, AttachMove
<1> QED  BY <1>7, <1>8 DEF BlockInv

\* A client is added to a list that it is not in.
LEMMA AppendFacts ==
    ASSUME NEW C, NEW q \in Seq(C), NEW c \in C, IsInjective(q), c \notin Range(q)
    PROVE  /\ Append(q, c) \in Seq(C) /\ IsInjective(Append(q, c))
           /\ \A d \in Range(Append(q, c)) : d = c \/ d \in Range(q)
<1>1. PICK r : r = Append(q, c)
  OBVIOUS
<1>2. /\ r \in Seq(C) /\ Len(r) = Len(q) + 1 /\ Len(q) \in Nat /\ DOMAIN r = 1..Len(q) + 1
      /\ DOMAIN q = 1..Len(q) /\ r[Len(q) + 1] = c /\ \A i \in 1..Len(q) : r[i] = q[i]
  BY <1>1
<1>3. ASSUME NEW i \in DOMAIN r
      PROVE  (i \in DOMAIN q /\ r[i] = q[i] /\ r[i] \in Range(q)) \/ (i = Len(q) + 1 /\ r[i] = c)
  <2>1. i \in 1..Len(q) \/ i = Len(q) + 1
    BY <1>2
  <2> QED  BY <1>2, <2>1 DEF Range
<1>4. \A i, j \in DOMAIN q : q[i] = q[j] => i = j
  BY DEF IsInjective
<1>5. ASSUME NEW i \in DOMAIN r, NEW j \in DOMAIN r, r[i] = r[j]
      PROVE  i = j
  BY <1>3, <1>4, <1>5
<1>6. \A d \in Range(r) : d = c \/ d \in Range(q)
  BY <1>3 DEF Range
<1> QED  BY <1>1, <1>2, <1>5, <1>6 DEF IsInjective

\* A client attaches a continuation, or is served at once by a settled block: the invariant
\* is kept.
LEMMA AttachActionKept ==
    ASSUME BlockInv, NEW c \in Threads, attach(c)
    PROVE  BlockInv'
<1>1. TypeInv /\ AttachInv /\ c \in Clients /\ Outside(c) /\ client[c] = "idle" /\ stack' = stack
  BY DEF BlockInv, attach, Outside
<1>2. PICK v, b : v = (IF completed[Handle[c]] THEN "served" ELSE "attached") /\ b = Handle[c]
  OBVIOUS
<1>3. /\ client' = [client EXCEPT ![c] = v]
      /\ completed[b] => continuations' = continuations
      /\ ~completed[b] => continuations' = [continuations EXCEPT ![b] = Append(@, c)]
  BY <1>2 DEF attach
<1>4. /\ UNCHANGED <<kind, num_locks, body_claimed, completed, cancelled, prereq_cancelled,
                       nested_parent, settle_synchronously, refcount, queue>>
      /\ kind' = kind /\ completed' = completed
  BY DEF attach
<1>5. (completed[Handle[c]] /\ v = "served") \/ (~completed[Handle[c]] /\ v \in {"blocked", "attached"})
  BY <1>2
<1>6. /\ b \in Blocks /\ continuations[b] \in Seq(Clients) /\ continuations \in [Blocks -> Seq(Clients)]
      /\ Range(continuations[b]) \subseteq Clients
  BY <1>1, <1>2, ConstantFacts DEF TypeInv, LinkType, Range
<1>7. ContsOK(b) /\ c \notin Range(continuations[b])
  BY <1>1, <1>6 DEF AttachInv, ContsOK
<1>8. /\ Append(continuations[b], c) \in Seq(Clients) /\ IsInjective(Append(continuations[b], c))
      /\ \A d \in Range(Append(continuations[b], c)) : d = c \/ d \in Range(continuations[b])
  BY <1>1, <1>6, <1>7, AppendFacts DEF ContsOK
<1>9. continuations' \in [Blocks -> Seq(Clients)]
  BY <1>3, <1>6, <1>8
<1>10. /\ client'[c] = v /\ \A d \in Clients : d # c => client'[d] = client[d]
  BY <1>1, <1>3 DEF TypeInv, LinkType
<1>11. TypeInv' /\ RefsInv' /\ LocksInv' /\ RunInv' /\ SettleInv' /\ ChildInv' /\ OwnerInv'
  BY <1>1, <1>3, <1>4, <1>5, <1>9, WaitKept
<1>12. AttachInv'
  <2>1. ASSUME NEW x \in Blocks
        PROVE  ContsOK(x)'
    <3>1. CASE continuations'[x] = continuations[x]
      <4>1. ContsOK(x)
        BY <1>1 DEF AttachInv
      <4>2. Range(continuations[x]) \subseteq Clients
        BY <1>1 DEF TypeInv, LinkType, Range
      <4>3. \A d \in Range(continuations[x]) : client'[d] = client[d]
        BY <1>1, <1>10, <4>1, <4>2 DEF ContsOK
      <4> QED  BY <1>4, <3>1, <4>1, <4>3 DEF ContsOK
    <3>2. CASE continuations'[x] # continuations[x]
      <4>1. ~completed[b] /\ x = b /\ continuations'[x] = Append(continuations[b], c)
        BY <1>3, <1>6, <3>2
      <4>2. \A d \in Range(continuations'[x]) : client'[d] = "attached" /\ Handle[d] = x
        <5>1. ASSUME NEW d \in Range(continuations'[x])
              PROVE  client'[d] = "attached" /\ Handle[d] = x
          <6>1. d = c \/ (d # c /\ d \in Range(continuations[b]) /\ d \in Clients)
            BY <1>6, <1>8, <4>1
          <6> QED  BY <1>2, <1>7, <1>10, <4>1, <6>1 DEF ContsOK
        <5> QED  BY <5>1
      <4>3. IsInjective(continuations'[x]) /\ ~completed'[x]
        BY <1>4, <1>8, <4>1
      <4> QED  BY <4>2, <4>3 DEF ContsOK
    <3> QED  BY <3>1, <3>2
  <2>2. ASSUME NEW u \in Threads, stack'[u] # <<>>
        PROVE  TopOK(u)'
    <3>1. stack[u] # <<>> /\ Top(u)' = Top(u) /\ TopOK(u)
      BY <1>1, <2>2 DEF AttachInv, Top
    <3>2. Top(u).conts \in Seq(Clients)
      BY <1>1, <3>1, TopFacts DEF FrameSet
    <3>3. Range(Top(u).conts) \subseteq Clients
      BY <3>2 DEF Range
    <3>4. \A d \in Range(Top(u).conts) : client'[d] = client[d]
      BY <1>1, <1>10, <3>1, <3>3 DEF TopOK
    <3>5. /\ IsInjective(Top(u)'.conts) /\ (Top(u)'.conts # <<>> => completed'[Top(u)'.b])
          /\ \A d \in Range(Top(u)'.conts) : client'[d] = "attached" /\ Handle[d] = Top(u)'.b
      BY <1>4, <3>1, <3>4 DEF TopOK
    <3> QED  BY <3>5 DEF TopOK
  <2>3. \A u, w \in Threads : Resumes(u)' /\ Resumes(w)' /\ Top(u)'.b = Top(w)'.b => u = w
    BY <1>1 DEF AttachInv, Resumes, Top
  <2>4. \A d \in Clients : kind'[Handle[d]] = "node" => client'[d] = "gone"
    BY <1>1, <1>4, <1>10 DEF AttachInv
  <2> QED  BY <2>1, <2>2, <2>3, <2>4 DEF AttachInv
<1> QED  BY <1>11, <1>12 DEF BlockInv

-----------------------------------------------------------------------------
(* Completion *)

\* A stack stays well formed.
LEMMA StackTypeKept ==
    ASSUME TypeInv, NEW t \in Threads, NEW s \in Seq(FrameSet), Moves(t, s), StackOK(s)
    PROVE  StackType'
<1>1. stack' \in [Threads -> Seq(FrameSet)] /\ stack'[t] = s /\ \A u \in Threads : u # t => stack'[u] = stack[u]
  BY MoveFacts
<1>2. \A u \in Threads : StackOK(stack'[u])
  BY <1>1 DEF TypeInv, StackType
<1> QED  BY <1>1, <1>2 DEF StackType, StackOK, FrameSet, RunFrame, TriggerFrame, ParentSettle, ChildSettle, ReleaseFrame

\* A parent completes.
LEMMA CompleteParent ==
    ASSUME BlockInv, NEW t \in Threads, At(t, "settle", "lock"), Top(t).b \in Parents,
           completed' = [completed EXCEPT ![Top(t).b] = TRUE],
           cancelled' = [cancelled EXCEPT ![Top(t).b] = Top(t).cancel],
           NEW s \in Seq(FrameSet), Moves(t, s), RunsKept, StackOK(s), s # <<>>,
           \A b \in Blocks : G(s, b) = G(stack[t], b) /\ M(s, b) = M(stack[t], b),
           s[1].f = "settle" /\ s[1].b \in Parents =>
                s[1].b = Top(t).b /\ s[1].at # "lock" /\ s[1].cancel = Top(t).cancel,
           UNCHANGED <<kind, num_locks, body_claimed, prereq_cancelled,
                       nested_parent, settle_synchronously, refcount, queue>>,
           client' \in [Clients -> {"dormant", "idle", "blocked", "attached", "served", "gone"}],
           continuations' \in [Blocks -> Seq(Clients)],
           \A c \in Clients : client'[c] = client[c] \/
                (client[c] = "blocked" /\ client'[c] = "served" /\ Handle[c] = Top(t).b)
    PROVE  TypeInv' /\ RefsInv' /\ LocksInv' /\ RunInv' /\ SettleInv' /\ ChildInv' /\ OwnerInv'
<1>0. /\ kind' = kind /\ num_locks' = num_locks /\ body_claimed' = body_claimed
      /\ prereq_cancelled' = prereq_cancelled /\ nested_parent' = nested_parent
      /\ settle_synchronously' = settle_synchronously /\ refcount' = refcount /\ queue' = queue
  OBVIOUS
<1>1. TypeInv /\ RefsInv /\ LocksInv /\ RunInv /\ SettleInv /\ ChildInv /\ OwnerInv
  BY DEF BlockInv
<1>2. PICK b \in Parents : b = Top(t).b
  OBVIOUS
<1>3. /\ stack[t] # <<>> /\ Top(t).f = "settle" /\ Top(t).at = "lock" /\ Top(t) \in FrameSet
      /\ b \in Blocks /\ b \notin Children /\ Top(t).cancel \in BOOLEAN
  BY <1>1, <1>2, SettleShape, ConstantFacts DEF FrameSet, Blocks
<1>4. /\ ~completed[b] /\ Settles(t, b) /\ \A u \in Threads : Settles(u, b) => u = t
      /\ body_claimed[b] /\ StackLocks(b) = 0 /\ Linked(b) = {}
      /\ ~Top(t).cancel => num_locks[b] > 0
  BY <1>1, <1>2, SettledTop
<1>5. /\ completed' \in [Blocks -> BOOLEAN] /\ completed'[b] /\ \A x \in Blocks : x # b => completed'[x] = completed[x]
      /\ cancelled' \in [Blocks -> BOOLEAN] /\ cancelled'[b] = Top(t).cancel
      /\ \A x \in Blocks : x # b => cancelled'[x] = cancelled[x]
  BY <1>1, <1>2, <1>3 DEF TypeInv, FlagType
<1>6. /\ stack'[t] = s /\ Top(t)' = s[1]
      /\ \A x \in Blocks : Settles(t, x)' <=> s[1].f = "settle" /\ s[1].b = x
      /\ \A u \in Threads : u # t => /\ stack'[u] = stack[u] /\ Top(u)' = Top(u)
                                     /\ \A x \in Blocks : Settles(u, x)' <=> Settles(u, x)
  BY <1>1, FrameMove
<1>7. TypeInv'
  <2>1. CountType'
    BY <1>0, <1>1 DEF TypeInv, CountType
  <2>2. FlagType'
    BY <1>0, <1>1, <1>5 DEF TypeInv, FlagType
  <2>3. LinkType'
    BY <1>0, <1>1 DEF TypeInv, LinkType
  <2>4. KindType'
    BY <1>0, <1>1 DEF TypeInv, KindType, Holders
  <2>5. StackType'
    BY <1>1, StackTypeKept
  <2> QED  BY <2>1, <2>2, <2>3, <2>4, <2>5 DEF TypeInv
<1>8. \A x \in Blocks : StackRefs(x)' = StackRefs(x) /\ StackLocks(x)' = StackLocks(x)
  BY <1>0, <1>1, StackSame
<1>9. \A c \in Clients : (client'[c] = "gone") <=> (client[c] = "gone")
  OBVIOUS
<1>10. \A p \in Parents : Lives(p)' <=> Lives(p)
  BY <1>0, <1>9, LivesKept
<1>11. \A x \in Blocks : Rest(x)' = Rest(x)
  BY <1>0, <1>9, <1>10, RestSame
<1>12. RefsInv'
  <2>1. \A x \in Blocks : Counted(x)' <=> Counted(x)
    BY <1>0 DEF Counted
  <2> QED  BY <1>0, <1>1, <1>8, <1>11, <2>1 DEF RefsInv
<1>13. LocksInv'
  BY <1>0, <1>1, <1>8, LocksKept DEF Blocks
<1>14. RunInv'
  <2>1. \A p \in Parents : ~body_claimed[p] => num_locks'[p] = num_locks[p] /\ completed'[p] = completed[p]
    BY <1>0, <1>4, <1>5 DEF Blocks
  <2>2. ASSUME NEW c \in Clients, client'[c] = "dormant"
        PROVE  client[c] = "dormant" /\ stack'[c] = stack[c]
    <3>1. client[c] = "dormant" /\ c \in Threads
      BY <2>2, ConstantFacts
    <3>2. stack[c] = <<>>
      BY <1>1, <3>1 DEF RunInv
    <3> QED  BY <1>3, <1>6, <3>1, <3>2
  <2> QED  BY <1>0, <1>1, <2>1, <2>2, RunKept
<1>15. ChildInv'
  <2>0. \A c \in Children : c \in Blocks /\ completed'[c] = completed[c]
    BY <1>3, <1>5 DEF Blocks
  <2>1. \A c \in Children : nested_parent'[c] # NoBlock => ~completed'[c]
    BY <1>0, <1>1, <2>0 DEF ChildInv, TypeInv, LinkType, Blocks
  <2>2. \A p \in Parents : nested_parent'[p] = NoBlock
    BY <1>0, <1>1 DEF ChildInv
  <2>3. \A p \in Parents : num_locks'[p] > 0 => num_locks[p] > 0
    BY <1>0
  <2>4. \A c \in Children : completed[c] => completed'[c]
    BY <2>0, <1>0
  <2>5. \A c \in Children : \/ nested_parent'[c] = nested_parent[c]
                            \/ nested_parent'[c] = NoBlock /\ completed'[c]
    BY <1>0
  <2> QED  BY <1>1, <2>1, <2>2, <2>3, <2>4, <2>5, ChildKept
<1>16. SettleInv'
  <2>1. ASSUME NEW p \in Parents
        PROVE  SettleOK(p)'
    <3>1. SettleOK(p) /\ p \in Blocks
      BY <1>1 DEF SettleInv, Blocks
    <3>2. Linked(p)' = Linked(p) /\ StackLocks(p)' = StackLocks(p)
      BY <1>0, <1>8, <3>1 DEF Linked
    <3>3. CASE p # b
      <4>1. \A u \in Threads : Settles(u, p)' =>
                /\ Settles(u, p) /\ (Top(u)'.at = "lock" <=> Top(u).at = "lock")
                /\ Top(u)'.cancel = Top(u).cancel
        BY <1>2, <1>6, <3>1, <3>3
      <4> QED  BY ZenonT(60), <1>0, <1>5, <3>1, <3>2, <3>3, <4>1, SettleKept
    <3>4. CASE p = b
      <4>1. \A u \in Threads : Settles(u, b)' => u = t /\ Top(u)'.at # "lock" /\ Top(u)'.cancel = Top(t).cancel
        BY <1>2, <1>3, <1>4, <1>6
      <4>2. body_claimed'[b] /\ StackLocks(b)' = 0 /\ Linked(b)' = {} /\ completed'[b]
        BY <1>0, <1>4, <1>5, <3>2, <3>4
      <4>3. ~Top(t).cancel => num_locks'[b] > 0
        BY <1>0, <1>4
      <4> QED  BY <1>5, <3>4, <4>1, <4>2, <4>3 DEF SettleOK
    <3> QED  BY <3>3, <3>4
  <2> QED  BY <2>1 DEF SettleInv
<1>17. OwnerInv'
  <2>1. ASSUME NEW c \in Clients, kind[Handle[c]] = "op"
        PROVE  OwnerOK(c)'
    <3>1. Handle[c] \in Parents /\ c \in Threads /\ Handle[c] \in Blocks /\ OwnerOK(c)
      BY <1>1, <2>1, OpIsParent, ConstantFacts DEF OwnerInv
    <3>2. CASE Handle[c] # b
      <4>1. client'[c] = client[c] /\ completed'[Handle[c]] = completed[Handle[c]]
        BY <1>2, <1>5, <3>1, <3>2
      <4>2. Settles(c, Handle[c]) => Settles(c, Handle[c])'
        BY <1>2, <1>6, <3>1, <3>2 DEF Settles
      <4> QED  BY <1>0, <1>1, <2>1, <3>1, <4>1, <4>2, OwnerKept
    <3>3. CASE Handle[c] = b
      <4>1. completed'[b] /\ (settle_synchronously'[b] => client'[c] \in {"idle", "served", "gone"})
        BY <1>0, <1>5, <3>1, <3>3 DEF OwnerOK
      <4>2. \A u \in Threads : settle_synchronously'[b] /\ Runs(u, b)' /\ Base(u)'.at = "self_lock" =>
                num_locks'[b] = ExecutionFlag + 1
        BY <1>0, <3>1, <3>3 DEF OwnerOK, RunsKept
      <4> QED  BY <3>3, <4>1, <4>2 DEF OwnerOK
    <3> QED  BY <3>2, <3>3
  <2> QED  BY <1>0, <2>1 DEF OwnerInv
<1> QED  BY <1>7, <1>12, <1>13, <1>14, <1>15, <1>16, <1>17

\* The settle takes the continuations of the block.
LEMMA AttachSettled ==
    ASSUME TypeInv, AttachInv, NEW t \in Threads, NEW s \in Seq(FrameSet), Moves(t, s), s # <<>>, kind' = kind,
           NEW b \in Blocks, ~completed[b], s[1].conts = continuations[b], s[1].b = b,
           completed' = [completed EXCEPT ![b] = TRUE],
           continuations' = [continuations EXCEPT ![b] = <<>>],
           \A c \in Clients : client[c] \in {"attached", "gone"} => client'[c] = client[c]
    PROVE  AttachInv'
<1>1. /\ stack'[t] = s /\ Top(t)' = s[1]
      /\ \A u \in Threads : u # t => stack'[u] = stack[u] /\ Top(u)' = Top(u)
  BY FrameMove
<1>2. /\ completed'[b] /\ \A x \in Blocks : x # b => completed'[x] = completed[x]
      /\ continuations'[b] = <<>> /\ \A x \in Blocks : x # b => continuations'[x] = continuations[x]
      /\ \A x \in Blocks : Range(continuations[x]) \subseteq Clients
      /\ \A x \in Blocks : completed[x] => completed'[x]
  BY DEF TypeInv, FlagType, LinkType, Range
<1>3. ASSUME NEW x \in Blocks
      PROVE  ContsOK(x)'
  <2>1. CASE x = b
    BY <1>2, <2>1 DEF ContsOK, Range, IsInjective
  <2>2. CASE x # b
    <3>1. ContsOK(x)
      BY DEF AttachInv
    <3> QED  BY <1>2, <2>2, <3>1 DEF ContsOK
  <2> QED  BY <2>1, <2>2
<1>4. TopOK(t)'
  <2>1. ContsOK(b)
    BY DEF AttachInv
  <2>2. /\ IsInjective(Top(t)'.conts) /\ completed'[Top(t)'.b]
        /\ \A c \in Range(Top(t)'.conts) : client'[c] = "attached" /\ Handle[c] = Top(t)'.b
    BY <1>1, <1>2, <2>1 DEF ContsOK
  <2> QED  BY <2>2 DEF TopOK
<1>5. ASSUME NEW u \in Threads, u # t, stack'[u] # <<>>
      PROVE  TopOK(u)'
  <2>1. stack[u] # <<>> /\ Top(u)' = Top(u) /\ TopOK(u)
    BY <1>1, <1>5 DEF AttachInv
  <2>2. Top(u).conts \in Seq(Clients) /\ Top(u).b \in Blocks
    BY <2>1, TopFacts DEF FrameSet
  <2>3. Range(Top(u).conts) \subseteq Clients
    BY <2>2 DEF Range
  <2>4. /\ IsInjective(Top(u)'.conts) /\ (Top(u)'.conts # <<>> => completed'[Top(u)'.b])
        /\ \A c \in Range(Top(u)'.conts) : client'[c] = "attached" /\ Handle[c] = Top(u)'.b
    BY <1>2, <2>1, <2>2, <2>3 DEF TopOK
  <2> QED  BY <2>4 DEF TopOK
<1>6. ASSUME NEW u \in Threads, NEW v \in Threads, Resumes(u)', Resumes(v)', Top(u)'.b = Top(v)'.b
      PROVE  u = v
  <2>1. ASSUME NEW w \in Threads, w # t, Resumes(w)'
        PROVE  Resumes(w) /\ Top(w)' = Top(w) /\ Top(w).b # b
    <3>1. stack[w] # <<>> /\ Top(w)' = Top(w) /\ Top(w).conts # <<>>
      BY <1>1, <2>1 DEF Resumes
    <3>2. completed[Top(w).b]
      BY <3>1 DEF AttachInv, TopOK
    <3> QED  BY <3>1, <3>2 DEF Resumes
  <2>2. CASE u # t /\ v # t
    BY <1>6, <2>1, <2>2 DEF AttachInv
  <2>3. CASE u = t \/ v = t
    BY <1>1, <1>6, <2>1, <2>3
  <2> QED  BY <2>2, <2>3
<1>7. \A c \in Clients : kind'[Handle[c]] = "node" => client'[c] = "gone"
  BY DEF AttachInv
<1>8. \A u \in Threads : stack'[u] # <<>> => TopOK(u)'
  BY <1>4, <1>5
<1> QED  BY <1>3, <1>6, <1>7, <1>8 DEF AttachInv

\* The settle of a child takes its parent.
LEMMA SettleTakes ==
    ASSUME TypeInv, NEW t \in Threads, At(t, "settle", "lock"), Top(t).b \in Children,
           NEW y, y \in FrameSet, Put(t, y), y.f = "settle", y.b = Top(t).b, y.at = "notify"
    PROVE  \E s \in Seq(FrameSet) :
              /\ Moves(t, s) /\ RunsKept /\ StackOK(s) /\ s # <<>> /\ s[1] = y
              /\ \A b \in Blocks : /\ G(s, b) = G(stack[t], b) + (IF b = y.parent THEN 1 ELSE 0)
                                   /\ M(s, b) = M(stack[t], b) + (IF b = y.parent THEN 1 ELSE 0)
<1>1. /\ stack[t] # <<>> /\ Top(t) = stack[t][1] /\ Top(t) \in FrameSet /\ stack[t] \in Seq(FrameSet)
      /\ Top(t).f = "settle" /\ Top(t).at = "lock" /\ SettleOfChild(stack[t])
  BY SettleShape, ConstantFacts
<1>2. PICK s \in Seq(FrameSet) :
              /\ Moves(t, s) /\ RunsKept
              /\ Len(s) = Len(stack[t]) /\ s[1] = y /\ s[2] = stack[t][2]
              /\ Len(s) = 3 => s[3] = stack[t][3]
  BY <1>1, UpperPut
<1>3. Len(s) > 0 => s # <<>>
  BY NonEmpty
<1>4. /\ Len(stack[t]) = 2 /\ TriggerFrame(stack[t][2]) /\ ChildSettle(stack[t][1])
      /\ stack[t][1].b = stack[t][2].b
  BY <1>1 DEF SettleOfChild
<1>5. ChildSettle(y)
  BY <1>1, <1>4 DEF ChildSettle
<1>6. StackOK(s) /\ s # <<>>
  BY <1>1, <1>2, <1>3, <1>4, <1>5 DEF StackOK
<1>7. ASSUME NEW b \in Blocks
      PROVE  /\ G(s, b) = G(stack[t], b) + (IF b = y.parent THEN 1 ELSE 0)
             /\ M(s, b) = M(stack[t], b) + (IF b = y.parent THEN 1 ELSE 0)
  <2>1. PICK z : z = stack[t]
    OBVIOUS
  <2>2. /\ G(z, b) = (IF b = z[2].b THEN 1 ELSE 0) + (IF b = z[1].parent THEN 1 ELSE 0)
        /\ M(z, b) = (IF b = z[1].parent /\ z[1].at # "drop_parent" THEN 1 ELSE 0)
    BY <1>1, <1>4, <2>1, HasTriggerSettle
  <2>3. /\ G(s, b) = (IF b = s[2].b THEN 1 ELSE 0) + (IF b = s[1].parent THEN 1 ELSE 0)
        /\ M(s, b) = (IF b = s[1].parent /\ s[1].at # "drop_parent" THEN 1 ELSE 0)
    BY <1>2, <1>4, <1>5, HasTriggerSettle
  <2>4. s[2] = z[2] /\ s[1] = y /\ y.at # "drop_parent" /\ z[1].parent # b
    BY <1>1, <1>2, <1>4, <2>1, ConstantFacts DEF ChildSettle
  <2>5. G(s, b) = G(z, b) + (IF b = y.parent THEN 1 ELSE 0) /\ M(s, b) = M(z, b) + (IF b = y.parent THEN 1 ELSE 0)
    BY <2>2, <2>3, <2>4
  <2> QED  BY <2>1, <2>5
<1> QED  BY <1>2, <1>6, <1>7

\* A link goes.
LEMMA UnlinkCount ==
    ASSUME TypeInv, ChildInv, NEW c \in Children, nested_parent' = [nested_parent EXCEPT ![c] = NoBlock],
           NEW x \in Blocks
    PROVE  /\ Cardinality(Linked(x)) \in Nat /\ Cardinality(Linked(x)') \in Nat
           /\ Cardinality(Linked(x)) = Cardinality(Linked(x)') + (IF x = nested_parent[c] THEN 1 ELSE 0)
           /\ Linked(x) = {} => Linked(x)' = {} /\ x # nested_parent[c]
<1>1. IsFiniteSet(Linked(x)) /\ x # NoBlock /\ c \in Blocks
  BY LinkedFinite, ConstantFacts DEF Blocks
<1>2. Linked(x)' = Linked(x) \ {c}
  <2>1. nested_parent'[c] = NoBlock /\ \A d \in Children : d # c => nested_parent'[d] = nested_parent[d]
    BY <1>1 DEF TypeInv, LinkType, Blocks
  <2> QED  BY <1>1, <2>1 DEF Linked
<1>3. c \in Linked(x) <=> x = nested_parent[c]
  BY DEF Linked
<1>4. Linked(x)' \in SUBSET Linked(x)
  BY <1>2
<1>5. PICK A, B : A = Linked(x) /\ B = Linked(x)'
  OBVIOUS
<1>6. /\ Cardinality(A) \in Nat /\ Cardinality(B) \in Nat
      /\ Cardinality(B) = Cardinality(A) + (IF c \in B THEN 1 ELSE 0) - (IF c \in A THEN 1 ELSE 0)
  <2>1. \A u \in A : u # c => (u \in A <=> u \in B)
    BY <1>2, <1>5
  <2>2. A \in SUBSET A /\ B \in SUBSET A /\ IsFiniteSet(A)
    BY <1>1, <1>4, <1>5
  <2> QED  BY <2>1, <2>2, CountStep
<1>7. c \notin B /\ (c \in A <=> x = nested_parent[c])
  BY <1>2, <1>3, <1>5
<1>8. Cardinality(A) = Cardinality(B) + (IF x = nested_parent[c] THEN 1 ELSE 0)
  BY <1>6, <1>7
<1> QED  BY <1>2, <1>3, <1>5, <1>6, <1>8

\* s counts for one more than z with q.
Takes(s, z, x, q) ==
    /\ G(s, x) = G(z, x) + (IF x = q THEN 1 ELSE 0)
    /\ M(s, x) = M(z, x) + (IF x = q THEN 1 ELSE 0)

\* What settle_lock assigns.
Completes(b, v) ==
    /\ completed' = [completed EXCEPT ![b] = TRUE] /\ cancelled' = [cancelled EXCEPT ![b] = v]
    /\ continuations' = [continuations EXCEPT ![b] = <<>>]
    /\ nested_parent' = [nested_parent EXCEPT ![b] = NoBlock]

\* A child completes.
LEMMA CompleteChild ==
    ASSUME BlockInv, NEW t \in Threads, At(t, "settle", "lock"), Top(t).b \in Children,
           ~completed[Top(t).b], Completes(Top(t).b, Top(t).cancel),
           NEW s \in Seq(FrameSet), Moves(t, s), RunsKept, StackOK(s), s # <<>>,
           \A x \in Blocks : Takes(s, stack[t], x, nested_parent[Top(t).b]),
           s[1].f = "settle" /\ s[1].b = Top(t).b,
           UNCHANGED <<kind, num_locks, refcount, body_claimed, prereq_cancelled,
                       settle_synchronously, queue, client>>
    PROVE  TypeInv' /\ RefsInv' /\ LocksInv' /\ RunInv' /\ SettleInv' /\ ChildInv' /\ OwnerInv'
<1>b. PICK b : b = Top(t).b
  OBVIOUS
<1>v. PICK v : v = Top(t).cancel
  OBVIOUS
<1>0. /\ kind' = kind /\ num_locks' = num_locks /\ body_claimed' = body_claimed
      /\ prereq_cancelled' = prereq_cancelled /\ client' = client
      /\ settle_synchronously' = settle_synchronously /\ refcount' = refcount /\ queue' = queue
      /\ nested_parent' = [nested_parent EXCEPT ![b] = NoBlock]
  BY <1>b DEF Completes
<1>1. TypeInv /\ RefsInv /\ LocksInv /\ RunInv /\ SettleInv /\ ChildInv /\ OwnerInv
  BY DEF BlockInv
<1>3. /\ stack[t] # <<>> /\ Top(t).f = "settle" /\ Top(t).at = "lock" /\ Top(t) \in FrameSet
      /\ b \in Blocks /\ b \in Children /\ b \notin Parents /\ v \in BOOLEAN /\ s[1].f = "settle" /\ s[1].b = b
  BY <1>1, <1>b, <1>v, SettleShape, ConstantFacts DEF FrameSet, Blocks
<1>5. /\ completed' \in [Blocks -> BOOLEAN] /\ completed'[b] /\ \A x \in Blocks : x # b => completed'[x] = completed[x]
      /\ cancelled' \in [Blocks -> BOOLEAN]
      /\ \A x \in Blocks : x # b => cancelled'[x] = cancelled[x]
  BY <1>1, <1>3, <1>b, <1>v DEF TypeInv, FlagType, Completes
<1>55. /\ nested_parent' \in [Blocks -> Parents \cup {NoBlock}] /\ continuations' \in [Blocks -> Seq(Clients)]
       /\ nested_parent'[b] = NoBlock /\ \A x \in Blocks : x # b => nested_parent'[x] = nested_parent[x]
  BY <1>1, <1>3, <1>b DEF TypeInv, LinkType, Completes
<1>6. /\ stack'[t] = s /\ Top(t)' = s[1]
      /\ \A x \in Blocks : Settles(t, x)' <=> s[1].f = "settle" /\ s[1].b = x
      /\ \A u \in Threads : u # t => /\ stack'[u] = stack[u] /\ Top(u)' = Top(u)
                                     /\ \A x \in Blocks : Settles(u, x)' <=> Settles(u, x)
  BY <1>1, FrameMove
<1>7. TypeInv'
  <2>1. CountType'
    BY <1>0, <1>1 DEF TypeInv, CountType
  <2>2. FlagType'
    BY <1>0, <1>1, <1>5 DEF TypeInv, FlagType
  <2>3. LinkType'
    BY <1>0, <1>1, <1>55 DEF TypeInv, LinkType
  <2>4. KindType'
    BY <1>0, <1>1 DEF TypeInv, KindType, Holders
  <2>5. StackType'
    BY <1>1, StackTypeKept
  <2> QED  BY <2>1, <2>2, <2>3, <2>4, <2>5 DEF TypeInv
<1>8. ASSUME NEW x \in Blocks
      PROVE  /\ StackRefs(x) \in Nat /\ StackLocks(x) \in Nat
             /\ StackRefs(x)' = StackRefs(x) + (IF x = nested_parent[b] THEN 1 ELSE 0)
             /\ StackLocks(x)' = StackLocks(x) + (IF x = nested_parent[b] THEN 1 ELSE 0)
  <2>1. /\ StackRefs(x) \in Nat /\ StackLocks(x) \in Nat
        /\ StackRefs(x)' = StackRefs(x) + G(s, x) - G(stack[t], x)
        /\ StackLocks(x)' = StackLocks(x) + M(s, x) - M(stack[t], x)
    BY <1>0, <1>1, StackMove
  <2>2. G(stack[t], x) \in Int /\ M(stack[t], x) \in Int
    BY WeightInt
  <2>3. /\ G(s, x) = G(stack[t], x) + (IF x = nested_parent[b] THEN 1 ELSE 0)
        /\ M(s, x) = M(stack[t], x) + (IF x = nested_parent[b] THEN 1 ELSE 0)
    BY <1>b DEF Takes
  <2> QED  BY <2>1, <2>2, <2>3
<1>9. \A p \in Parents : Lives(p)' <=> Lives(p)
  BY <1>0, LivesKept
<1>10. ASSUME NEW x \in Blocks
       PROVE  /\ Cardinality(Linked(x)) \in Nat /\ Cardinality(Linked(x)') \in Nat
              /\ Cardinality(Linked(x)) = Cardinality(Linked(x)') + (IF x = nested_parent[b] THEN 1 ELSE 0)
              /\ Linked(x) = {} => Linked(x)' = {} /\ x # nested_parent[b]
  BY <1>0, <1>1, <1>3, UnlinkCount
<1>11. ASSUME NEW x \in Blocks
       PROVE  Rest(x) \in Int /\ Rest(x)' = Rest(x) - (IF x = nested_parent[b] THEN 1 ELSE 0)
  <2>1. HeldBy(x)' = HeldBy(x) /\ Cardinality(HeldBy(x)) \in Nat
    BY <1>0, HeldSame, HeldFinite
  <2>2. Cardinality(Captors(x)') = Cardinality(Captors(x)) /\ Cardinality(Captors(x)) \in Nat
    BY <1>9, CaptorsSame, CaptorsCount
  <2>3. Owned(x)' = Owned(x) /\ Owned(x) \in Nat
    BY <1>0 DEF Owned
  <2>4. Rest(x)' = Cardinality(HeldBy(x)') + Cardinality(Captors(x)') + Owned(x)' + Cardinality(Linked(x)')
    BY DEF Rest
  <2>5. Rest(x) = Cardinality(HeldBy(x)) + Cardinality(Captors(x)) + Owned(x) + Cardinality(Linked(x))
    BY DEF Rest
  <2> QED  BY <1>10, <2>1, <2>2, <2>3, <2>4, <2>5
<1>12. RefsInv'
  <2>1. ASSUME NEW x \in Blocks
        PROVE  \E d, e \in Int : Rest(x)' = Rest(x) + d /\ StackRefs(x)' = StackRefs(x) + e
                                 /\ refcount'[x] = refcount[x] + d + e
    <3>1. refcount'[x] = refcount[x] /\ refcount[x] \in Int
      BY <1>0, <1>1 DEF TypeInv, CountType
    <3>2. CASE x = nested_parent[b]
      <4>1. Rest(x)' = Rest(x) + (-1) /\ StackRefs(x)' = StackRefs(x) + 1 /\ refcount'[x] = refcount[x] + (-1) + 1
        BY <1>8, <1>11, <3>1, <3>2
      <4> QED  BY <4>1
    <3>3. CASE x # nested_parent[b]
      <4>1. Rest(x)' = Rest(x) + 0 /\ StackRefs(x)' = StackRefs(x) + 0 /\ refcount'[x] = refcount[x] + 0 + 0
        BY <1>8, <1>11, <3>1, <3>3
      <4> QED  BY <4>1
    <3> QED  BY <3>2, <3>3
  <2> QED  BY <1>0, <1>1, <2>1, RefsMove
<1>13. LocksInv'
  <2>1. ASSUME NEW p \in Parents
        PROVE  \/ num_locks'[p] = 0 /\ StackLocks(p)' + Cardinality(Linked(p)') = 0
               \/ num_locks'[p] = ExecutionFlag + StackLocks(p)' + Cardinality(Linked(p)')
    <3>1. p \in Blocks /\ ExecutionFlag \in Nat
      BY ConstantFacts DEF Blocks
    <3>2. PICK n, k, m, j, e : /\ n = StackLocks(p) /\ k = Cardinality(Linked(p)) /\ m = StackLocks(p)'
                               /\ j = Cardinality(Linked(p)') /\ e = IF p = nested_parent[b] THEN 1 ELSE 0
      OBVIOUS
    <3>3. n \in Nat /\ k \in Nat /\ j \in Nat /\ e \in Nat /\ m = n + e /\ k = j + e
      BY <1>8, <1>10, <3>1, <3>2
    <3>4. (num_locks[p] = 0 /\ n + k = 0) \/ num_locks[p] = ExecutionFlag + n + k
      BY <1>1, <3>2 DEF LocksInv
    <3>5. n + k = m + j /\ ExecutionFlag + n + k = ExecutionFlag + m + j
      BY <3>1, <3>3
    <3> QED  BY <1>0, <3>2, <3>4, <3>5
  <2> QED  BY <2>1 DEF LocksInv
<1>14. RunInv'
  <2>1. \A p \in Parents : ~body_claimed[p] => num_locks'[p] = num_locks[p] /\ completed'[p] = completed[p]
    BY <1>0, <1>3, <1>5 DEF Blocks
  <2>2. ASSUME NEW c \in Clients, client'[c] = "dormant"
        PROVE  client[c] = "dormant" /\ stack'[c] = stack[c]
    <3>1. client[c] = "dormant" /\ c \in Threads
      BY <1>0, <2>2, ConstantFacts
    <3>2. stack[c] = <<>>
      BY <1>1, <3>1 DEF RunInv
    <3> QED  BY <1>3, <1>6, <3>1, <3>2
  <2> QED  BY <1>0, <1>1, <2>1, <2>2, RunKept
<1>15. ChildInv'
  <2>0. \A c \in Children : c \in Blocks /\ (c # b => completed'[c] = completed[c] /\ nested_parent'[c] = nested_parent[c])
    BY <1>5, <1>55 DEF Blocks
  <2>1. \A c \in Children : nested_parent'[c] # NoBlock => ~completed'[c]
    <3>1. ASSUME NEW c \in Children, nested_parent'[c] # NoBlock
          PROVE  ~completed'[c]
      <4>1. c # b
        BY <1>55, <3>1
      <4>2. nested_parent[c] \in Parents /\ completed'[c] = completed[c]
        BY <1>1, <2>0, <3>1, <4>1 DEF TypeInv, LinkType
      <4> QED  BY <1>1, <4>2 DEF ChildInv
    <3> QED  BY <3>1
  <2>2. \A p \in Parents : nested_parent'[p] = NoBlock
    BY <1>1, <1>3, <1>55 DEF ChildInv, Blocks
  <2>3. \A p \in Parents : num_locks'[p] > 0 => num_locks[p] > 0
    BY <1>0
  <2>4. \A c \in Children : completed[c] => completed'[c]
    BY <1>5, <2>0
  <2>5. \A c \in Children : \/ nested_parent'[c] = nested_parent[c]
                            \/ nested_parent'[c] = NoBlock /\ completed'[c]
    BY <1>5, <1>55, <2>0
  <2> QED  BY <1>1, <2>1, <2>2, <2>3, <2>4, <2>5, ChildKept
<1>16. SettleInv'
  <2>1. ASSUME NEW p \in Parents
        PROVE  SettleOK(p)'
    <3>1. SettleOK(p) /\ p \in Blocks /\ p # b
      BY <1>1, <1>3 DEF SettleInv, Blocks
    <3>2. StackLocks(p) = 0 /\ Linked(p) = {} => StackLocks(p)' = 0 /\ Linked(p)' = {}
      <4>1. SUFFICES ASSUME StackLocks(p) = 0, Linked(p) = {}
                     PROVE  StackLocks(p)' = 0 /\ Linked(p)' = {}
        OBVIOUS
      <4>2. Linked(p)' = {} /\ p # nested_parent[b]
        BY <1>10, <3>1, <4>1
      <4> QED  BY <1>8, <3>1, <4>1, <4>2
    <3>3. \A u \in Threads : Settles(u, p)' =>
                /\ Settles(u, p) /\ (Top(u)'.at = "lock" <=> Top(u).at = "lock")
                /\ Top(u)'.cancel = Top(u).cancel
      BY <1>3, <1>6, <1>b, <3>1
    <3>4. completed'[p] = completed[p] /\ cancelled'[p] = cancelled[p]
      BY <1>5, <3>1
    <3> QED  BY <1>0, <3>1, <3>2, <3>3, <3>4, SettleKept
  <2> QED  BY <2>1 DEF SettleInv
<1>17. OwnerInv'
  <2>1. ASSUME NEW c \in Clients, kind[Handle[c]] = "op"
        PROVE  OwnerOK(c)'
    <3>1. Handle[c] \in Parents /\ c \in Threads /\ Handle[c] \in Blocks /\ OwnerOK(c) /\ Handle[c] # b
      BY <1>1, <1>3, <2>1, OpIsParent, ConstantFacts DEF OwnerInv
    <3>2. client'[c] = client[c] /\ completed'[Handle[c]] = completed[Handle[c]]
      BY <1>0, <1>5, <3>1
    <3>3. Settles(c, Handle[c]) => Settles(c, Handle[c])'
      BY <1>3, <1>6, <1>b, <3>1 DEF Settles
    <3> QED  BY <1>0, <1>1, <2>1, <3>1, <3>2, <3>3, OwnerKept
  <2> QED  BY <1>0, <2>1 DEF OwnerInv
<1> QED  BY <1>7, <1>12, <1>13, <1>14, <1>15, <1>16, <1>17

\* A list with nothing in it is empty.
LEMMA EmptyRange ==
    ASSUME NEW C, NEW q \in Seq(C), Range(q) = {}
    PROVE  q = <<>>
<1>1. Len(q) \in Nat /\ DOMAIN q = 1..Len(q)
  OBVIOUS
<1>2. CASE Len(q) = 0
  BY <1>2
<1>3. CASE Len(q) # 0
  <2>1. 1 \in DOMAIN q
    BY <1>1, <1>3
  <2>2. q[1] \in Range(q)
    BY <2>1 DEF Range
  <2> QED  BY <2>2
<1> QED  BY <1>2, <1>3

\* What a settle at the lock is.
LEMMA LockTop ==
    ASSUME TypeInv, NEW t \in Threads, At(t, "settle", "lock")
    PROVE  /\ stack[t] # <<>> /\ Top(t) \in FrameSet /\ Top(t).f = "settle" /\ Top(t).at = "lock"
           /\ Top(t).b \in Blocks /\ Top(t).parent = NoBlock /\ Top(t).conts = <<>> /\ Top(t).cancel \in BOOLEAN
           /\ (Top(t).b \in Parents \/ Top(t).b \in Children)
<1>1. /\ stack[t] # <<>> /\ Top(t) = stack[t][1] /\ Top(t) \in FrameSet
      /\ Top(t).f = "settle" /\ Top(t).at = "lock"
      /\ SettleOfRun(stack[t]) \/ SettleOfChild(stack[t]) \/ SettleOfParent(stack[t])
      /\ (Top(t).b \in Parents \/ Top(t).b \in Children)
  BY SettleShape
<1>2. Top(t).parent = NoBlock /\ Top(t).conts = <<>>
  BY <1>1 DEF SettleOfRun, SettleOfChild, SettleOfParent, ParentSettle, ChildSettle
<1> QED  BY <1>1, <1>2 DEF FrameSet

\* A second settle of the same block.
LEMMA SettleAgainKept ==
    ASSUME BlockInv, NEW t \in Threads, settle_lock(t), completed[Top(t).b]
    PROVE  BlockInv'
<1>1. TypeInv /\ SettleInv /\ AttachInv /\ RunInv
  BY DEF BlockInv
<1>2. At(t, "settle", "lock") /\ Return(t)
  BY DEF settle_lock
<1>3. /\ UNCHANGED <<kind, num_locks, body_claimed, completed, cancelled, prereq_cancelled,
                       nested_parent, settle_synchronously, refcount, queue>>
      /\ kind' = kind /\ completed' = completed /\ continuations' = continuations /\ client' = client
  BY DEF settle_lock
<1>4. stack[t] # <<>> /\ Top(t).parent = NoBlock
  BY <1>1, <1>2, LockTop
<1>5. PICK s \in Seq(FrameSet) :
              /\ Moves(t, s) /\ RunsKept /\ StackOK(s) /\ s # <<>> /\ s[1].conts = <<>>
              /\ s[1].f = "settle" => s[1].b \in Children
              /\ \A b \in Blocks : G(s, b) = G(stack[t], b) /\ M(s, b) = M(stack[t], b)
  BY <1>1, <1>2, <1>4, SettleReturns
<1>6. /\ client' \in [Clients -> {"dormant", "idle", "blocked", "attached", "served", "gone"}]
      /\ continuations' \in [Blocks -> Seq(Clients)]
  BY <1>1, <1>3 DEF TypeInv, LinkType
<1>7. s[1].f = "settle" => s[1].b \notin Parents
  BY <1>5, ConstantFacts
<1>8. \A p \in Parents : Settles(t, p) => completed[p]
  BY DEF Settles
<1>9. \A c \in Clients : client'[c] = "dormant" => client[c] = "dormant" /\ stack'[c] = stack[c]
  <2>1. ASSUME NEW c \in Clients, client'[c] = "dormant"
        PROVE  stack'[c] = stack[c]
    <3>1. stack[c] = <<>> /\ c \in Threads
      BY <1>1, <1>3, <2>1, ConstantFacts DEF RunInv
    <3>2. c # t
      BY <1>4, <3>1
    <3> QED  BY <1>1, <1>5, <3>1, <3>2, MoveFacts
  <2> QED  BY <1>3, <2>1
<1>11. TypeInv' /\ RefsInv' /\ LocksInv' /\ RunInv' /\ SettleInv' /\ ChildInv' /\ OwnerInv'
  BY <1>3, <1>5, <1>6, <1>7, <1>8, <1>9, QuietStep
<1>12. AttachInv'
  <2>1. \A b \in Blocks : (completed[b] => completed'[b]) /\ (continuations[b] # <<>> => ~completed'[b])
    BY <1>1, <1>3 DEF AttachInv, ContsOK
  <2> QED  BY <1>1, <1>3, <1>5, <2>1, AttachMove
<1> QED  BY <1>11, <1>12 DEF BlockInv

\* The first settle of a block.
LEMMA SettleFirstKept ==
    ASSUME BlockInv, NEW t \in Threads, settle_lock(t), ~completed[Top(t).b]
    PROVE  BlockInv'
<1>1. TypeInv /\ SettleInv /\ AttachInv /\ ChildInv
  BY DEF BlockInv
<1>2. PICK b, y : /\ b = Top(t).b
                  /\ y = [Top(t) EXCEPT !.conts = continuations[b], !.parent = nested_parent[b], !.at = "notify"]
  OBVIOUS
<1>3. /\ At(t, "settle", "lock") /\ Put(t, y) /\ completed' = [completed EXCEPT ![b] = TRUE]
      /\ cancelled' = [cancelled EXCEPT ![b] = Top(t).cancel]
      /\ continuations' = [continuations EXCEPT ![b] = <<>>]
      /\ nested_parent' = [nested_parent EXCEPT ![b] = NoBlock]
  BY <1>2 DEF settle_lock, SetCompleted
<1>4. /\ UNCHANGED <<kind, num_locks, refcount, body_claimed, prereq_cancelled,
                       settle_synchronously, queue, client>>
      /\ kind' = kind /\ client' = client
  BY DEF settle_lock
<1>5. /\ stack[t] # <<>> /\ Top(t) \in FrameSet /\ Top(t).f = "settle" /\ Top(t).at = "lock"
      /\ b \in Blocks /\ Top(t).parent = NoBlock /\ Top(t).cancel \in BOOLEAN
      /\ (b \in Parents \/ b \in Children)
  BY <1>1, <1>2, <1>3, LockTop
<1>6. continuations[b] \in Seq(Clients) /\ nested_parent[b] \in Parents \cup {NoBlock}
  BY <1>1, <1>5 DEF TypeInv, LinkType
<1>7. /\ y \in FrameSet /\ y.f = "settle" /\ y.b = b /\ y.at = "notify" /\ y.cancel = Top(t).cancel
      /\ y.conts = continuations[b] /\ y.parent = nested_parent[b]
  BY <1>2, <1>5, <1>6 DEF FrameSet
<1>8. /\ client' \in [Clients -> {"dormant", "idle", "blocked", "attached", "served", "gone"}]
      /\ continuations' \in [Blocks -> Seq(Clients)]
  BY <1>1, <1>3, <1>4, EmptySeq DEF TypeInv, LinkType
<1>85. y.b = Top(t).b /\ y.at \in {"notify", "conts", "on_complete"} /\ y.at # "on_complete" /\ Top(t).cancel \in BOOLEAN
  BY <1>2, <1>5, <1>7
<1>9. CASE b \in Parents
  <2>1. nested_parent[b] = NoBlock
    BY <1>1, <1>9 DEF ChildInv
  <2>2. nested_parent' = nested_parent
    BY <1>1, <1>3, <1>5, <2>1 DEF TypeInv, LinkType
  <2>3. PICK s \in Seq(FrameSet) :
              /\ Moves(t, s) /\ RunsKept /\ StackOK(s) /\ s # <<>> /\ s[1] = y
              /\ \A x \in Blocks : G(s, x) = G(stack[t], x) /\ M(s, x) = M(stack[t], x)
    <3>1. y.parent = Top(t).parent
      BY <1>5, <1>7, <2>1
    <3> QED  BY <1>1, <1>3, <1>7, <1>85, <3>1, SettleGoes
  <2>4. /\ UNCHANGED <<kind, num_locks, body_claimed, prereq_cancelled,
                       nested_parent, settle_synchronously, refcount, queue>>
    BY <1>4, <2>2
  <2>5. TypeInv' /\ RefsInv' /\ LocksInv' /\ RunInv' /\ SettleInv' /\ ChildInv' /\ OwnerInv'
    BY ZenonT(60), <1>2, <1>3, <1>4, <1>7, <1>8, <1>9, <2>3, <2>4, CompleteParent
  <2>6. AttachInv'
    BY ZenonT(60), <1>1, <1>2, <1>3, <1>4, <1>5, <1>7, <2>3, AttachSettled
  <2> QED  BY <2>5, <2>6 DEF BlockInv
<1>10. CASE b \in Children
  <2>3. PICK s \in Seq(FrameSet) :
              /\ Moves(t, s) /\ RunsKept /\ StackOK(s) /\ s # <<>> /\ s[1] = y
              /\ \A x \in Blocks : /\ G(s, x) = G(stack[t], x) + (IF x = y.parent THEN 1 ELSE 0)
                                   /\ M(s, x) = M(stack[t], x) + (IF x = y.parent THEN 1 ELSE 0)
    <3>1. Top(t).b \in Children
      BY <1>2, <1>10
    <3> QED  BY <1>1, <1>3, <1>7, <1>85, <3>1, SettleTakes
  <2>4. \A x \in Blocks : Takes(s, stack[t], x, nested_parent[Top(t).b])
    BY <1>2, <1>7, <2>3 DEF Takes
  <2>5. TypeInv' /\ RefsInv' /\ LocksInv' /\ RunInv' /\ SettleInv' /\ ChildInv' /\ OwnerInv'
    <3>1. Top(t).b \in Children /\ ~completed[Top(t).b] /\ s[1].f = "settle" /\ s[1].b = Top(t).b
      BY <1>2, <1>7, <1>10, <2>3
    <3>2. Completes(Top(t).b, Top(t).cancel) /\ At(t, "settle", "lock")
      BY <1>2, <1>3 DEF Completes
    <3>3. /\ Moves(t, s) /\ RunsKept /\ StackOK(s) /\ s # <<>>
          /\ UNCHANGED <<kind, num_locks, refcount, body_claimed, prereq_cancelled,
                       settle_synchronously, queue, client>>
      BY <1>4, <2>3
    <3> QED  BY <2>4, <3>1, <3>2, <3>3, CompleteChild
  <2>6. AttachInv'
    BY ZenonT(60), <1>1, <1>2, <1>3, <1>4, <1>5, <1>7, <2>3, AttachSettled
  <2> QED  BY <2>5, <2>6 DEF BlockInv
<1> QED  BY <1>5, <1>9, <1>10

\* settle completes the block under its lock: the invariant is kept.
LEMMA SettleLockKept ==
    ASSUME BlockInv, NEW t \in Threads, settle_lock(t)
    PROVE  BlockInv'
  BY SettleAgainKept, SettleFirstKept

\* The settle of a caller-owned access: the invariant is kept.
LEMMA OpSettleKept ==
    ASSUME BlockInv, NEW t \in Threads, op_settle(t)
    PROVE  BlockInv'
<1>1. TypeInv /\ SettleInv /\ AttachInv /\ OwnerInv
  BY DEF BlockInv
<1>2. PICK b : b = Top(t).b
  OBVIOUS
<1>3. /\ At(t, "settle", "lock") /\ kind[b] = "op" /\ completed' = [completed EXCEPT ![b] = TRUE]
      /\ cancelled' = [cancelled EXCEPT ![b] = Top(t).cancel]
  BY <1>2 DEF op_settle, SetCompleted
<1>4. /\ UNCHANGED <<kind, num_locks, body_claimed, prereq_cancelled,
                       nested_parent, settle_synchronously, refcount, queue>>
      /\ kind' = kind
  BY DEF op_settle
<1>5. /\ stack[t] # <<>> /\ Top(t) \in FrameSet /\ Top(t).f = "settle" /\ Top(t).at = "lock"
      /\ b \in Blocks /\ Top(t).parent = NoBlock /\ Top(t).cancel \in BOOLEAN
  BY <1>1, <1>2, <1>3, LockTop
<1>6. b \in Parents
  BY <1>1, <1>3, <1>5, OpIsParent
<1>7. continuations[b] \in Seq(Clients) /\ ~completed[b]
  BY <1>1, <1>2, <1>3, <1>5, <1>6, SettledTop DEF TypeInv, LinkType
<1>8. CASE settle_synchronously[b]
  <2>1. Return(t) /\ continuations' = continuations /\ client' = client
    BY <1>2, <1>8 DEF op_settle
  <2>2. PICK s \in Seq(FrameSet) :
              /\ Moves(t, s) /\ RunsKept /\ StackOK(s) /\ s # <<>> /\ s[1].conts = <<>>
              /\ s[1].f = "settle" => s[1].b \in Children
              /\ \A x \in Blocks : G(s, x) = G(stack[t], x) /\ M(s, x) = M(stack[t], x)
    BY <1>1, <1>3, <1>5, <2>1, SettleReturns
  <2>3. s[1].f = "settle" => s[1].b \notin Parents
    BY <2>2, ConstantFacts
  <2>4. /\ client' \in [Clients -> {"dormant", "idle", "blocked", "attached", "served", "gone"}]
        /\ continuations' \in [Blocks -> Seq(Clients)]
    BY <1>1, <2>1 DEF TypeInv, LinkType
  <2>5. TypeInv' /\ RefsInv' /\ LocksInv' /\ RunInv' /\ SettleInv' /\ ChildInv' /\ OwnerInv'
    BY <1>2, <1>3, <1>4, <1>6, <2>1, <2>2, <2>3, <2>4, CompleteParent
  <2>6. continuations[b] = <<>>
    <3>1. \A c \in Range(continuations[b]) : FALSE
      <4>1. ASSUME NEW c \in Range(continuations[b])
            PROVE  FALSE
        <5>1. client[c] = "attached" /\ Handle[c] = b
          BY <1>1, <1>5 DEF AttachInv, ContsOK
        <5>2. c \in Clients
          BY <1>7 DEF Range
        <5>3. OwnerOK(c)
          BY <1>1, <1>3, <5>1, <5>2 DEF OwnerInv
        <5> QED  BY <1>8, <5>1, <5>3 DEF OwnerOK
      <4> QED  BY <4>1
    <3>2. Range(continuations[b]) = {}
      BY <3>1
    <3> QED  BY <1>7, <3>2, EmptyRange, Zenon
  <2>7. AttachInv'
    <3>1. \A x \in Blocks : (completed[x] => completed'[x]) /\ (continuations[x] # <<>> => ~completed'[x])
      BY <1>1, <1>3, <1>5, <2>6 DEF AttachInv, ContsOK, TypeInv, FlagType
    <3> QED  BY <1>1, <1>4, <2>1, <2>2, <3>1, AttachMove
  <2> QED  BY <2>5, <2>7 DEF BlockInv
<1>9. CASE ~settle_synchronously[b]
  <2>1. PICK y : y = [Top(t) EXCEPT !.conts = continuations[b], !.at = "conts"]
    OBVIOUS
  <2>2. Put(t, y) /\ continuations' = [continuations EXCEPT ![b] = <<>>] /\ client' = Notified(b)
    BY <1>2, <1>9, <2>1 DEF op_settle
  <2>3. /\ y \in FrameSet /\ y.f = "settle" /\ y.b = b /\ y.at = "conts" /\ y.cancel = Top(t).cancel
        /\ y.conts = continuations[b] /\ y.parent = NoBlock
    BY <1>2, <1>5, <1>7, <2>1 DEF FrameSet
  <2>4. PICK s \in Seq(FrameSet) :
              /\ Moves(t, s) /\ RunsKept /\ StackOK(s) /\ s # <<>> /\ s[1] = y
              /\ \A x \in Blocks : G(s, x) = G(stack[t], x) /\ M(s, x) = M(stack[t], x)
    BY <1>1, <1>2, <1>3, <1>5, <2>2, <2>3, SettleGoes
  <2>5. /\ client' \in [Clients -> {"dormant", "idle", "blocked", "attached", "served", "gone"}]
        /\ continuations' \in [Blocks -> Seq(Clients)]
    BY <1>1, <2>2, EmptySeq DEF TypeInv, LinkType, Notified
  <2>6. \A c \in Clients : client'[c] = client[c] \/
                (client[c] = "blocked" /\ client'[c] = "served" /\ Handle[c] = Top(t).b)
    BY <1>2, <2>2 DEF Notified
  <2>7. TypeInv' /\ RefsInv' /\ LocksInv' /\ RunInv' /\ SettleInv' /\ ChildInv' /\ OwnerInv'
    BY <1>2, <1>3, <1>4, <1>6, <2>3, <2>4, <2>5, <2>6, CompleteParent
  <2>8. AttachInv'
    BY <1>1, <1>2, <1>3, <1>4, <1>5, <1>7, <2>2, <2>3, <2>4, <2>6, AttachSettled
  <2> QED  BY <2>7, <2>8 DEF BlockInv
<1> QED  BY <1>8, <1>9

\* The settle of a graph node: the invariant is kept.
LEMMA SettleNodeKept ==
    ASSUME BlockInv, NEW t \in Threads, settle_node(t)
    PROVE  BlockInv'
<1>1. TypeInv /\ SettleInv /\ AttachInv /\ OwnerInv
  BY DEF BlockInv
<1>2. PICK b : b = Top(t).b
  OBVIOUS
<1>3. /\ At(t, "settle", "lock") /\ kind[b] = "node" /\ completed' = [completed EXCEPT ![b] = TRUE]
      /\ cancelled' = [cancelled EXCEPT ![b] = Top(t).cancel] /\ Goto(t, "on_complete")
  BY <1>2 DEF settle_node, SetCompleted
<1>4. /\ UNCHANGED <<kind, num_locks, body_claimed, prereq_cancelled,
                       nested_parent, settle_synchronously, refcount, queue>>
      /\ kind' = kind /\ continuations' = continuations /\ client' = client
  BY DEF settle_node
<1>5. /\ stack[t] # <<>> /\ Top(t) \in FrameSet /\ Top(t).f = "settle" /\ Top(t).at = "lock"
      /\ b \in Blocks /\ Top(t).parent = NoBlock /\ Top(t).conts = <<>> /\ Top(t).cancel \in BOOLEAN
  BY <1>1, <1>2, <1>3, LockTop
<1>6. b \in Parents
  BY <1>1, <1>3, <1>5, OpIsParent
<1>7. continuations[b] \in Seq(Clients)
  BY <1>1, <1>5 DEF TypeInv, LinkType
<1>8. PICK y : y = [Top(t) EXCEPT !.at = "on_complete"]
  OBVIOUS
<1>9. /\ y \in FrameSet /\ y.f = "settle" /\ y.b = Top(t).b /\ y.at = "on_complete" /\ y.cancel = Top(t).cancel
      /\ y.conts = <<>> /\ y.parent = NoBlock /\ Put(t, y)
  BY <1>3, <1>5, <1>8, GotoFrame DEF Goto
<1>10. PICK s \in Seq(FrameSet) :
              /\ Moves(t, s) /\ RunsKept /\ StackOK(s) /\ s # <<>> /\ s[1] = y
              /\ \A x \in Blocks : G(s, x) = G(stack[t], x) /\ M(s, x) = M(stack[t], x)
  BY <1>1, <1>2, <1>3, <1>5, <1>9, SettleGoes
<1>11. /\ client' \in [Clients -> {"dormant", "idle", "blocked", "attached", "served", "gone"}]
       /\ continuations' \in [Blocks -> Seq(Clients)]
  BY <1>1, <1>4 DEF TypeInv, LinkType
<1>12. TypeInv' /\ RefsInv' /\ LocksInv' /\ RunInv' /\ SettleInv' /\ ChildInv' /\ OwnerInv'
  BY <1>2, <1>3, <1>4, <1>6, <1>9, <1>10, <1>11, CompleteParent
<1>13. continuations[b] = <<>>
  <2>1. ASSUME NEW c \in Range(continuations[b])
        PROVE  FALSE
    <3>1. client[c] = "attached" /\ Handle[c] = b
      BY <1>1, <1>5 DEF AttachInv, ContsOK
    <3>2. c \in Clients
      BY <1>7 DEF Range
    <3> QED  BY <1>1, <1>3, <3>1, <3>2 DEF AttachInv
  <2>2. Range(continuations[b]) = {}
    BY <2>1
  <2> QED  BY <1>7, <2>2, EmptyRange, Zenon
<1>14. AttachInv'
  <2>1. \A x \in Blocks : (completed[x] => completed'[x]) /\ (continuations[x] # <<>> => ~completed'[x])
    BY <1>1, <1>3, <1>5, <1>13 DEF AttachInv, ContsOK, TypeInv, FlagType
  <2> QED  BY <1>1, <1>4, <1>9, <1>10, <2>1, AttachMove
<1> QED  BY <1>12, <1>14 DEF BlockInv

-----------------------------------------------------------------------------
(* Releases *)

\* A frame that counts is counted.
LEMMA NumPositive ==
    ASSUME NEW n, NEW b, NEW u \in Threads, NEW i \in DOMAIN stack[u], Is(n, stack[u][i], b)
    PROVE  Num(n, b) \in Nat /\ Num(n, b) >= 1
<1>1. u \in With(n, b) /\ With(n, b) \in SUBSET Threads
  BY DEF With
<1>2. IsFiniteSet(With(n, b))
  BY <1>1, ConstantFacts, FS_Subset
<1>3. Cardinality(With(n, b)) \in Nat /\ Cardinality(With(n, b)) # 0
  BY <1>1, <1>2, FS_CardinalityType, FS_EmptySet
<1> QED  BY <1>3 DEF Num

\* The counts of locks are numbers, one by one.
LEMMA NumNat ==
    ASSUME NEW n, NEW b
    PROVE  Num(n, b) \in Nat
<1>1. With(n, b) \in SUBSET Threads /\ IsFiniteSet(Threads)
  BY ConstantFacts DEF With
<1>2. IsFiniteSet(With(n, b))
  BY <1>1, FS_Subset
<1> QED  BY <1>2, FS_CardinalityType DEF Num

\* A body on the stack, a lock of its own.
LEMMA BodyLock ==
    ASSUME TypeInv, NEW u \in Threads, NEW p, Runs(u, p), Base(u).at \in InBody \cup {"self_lock"}
    PROVE  Num(6, p) >= 1
<1>1. stack[u] # <<>> /\ Base(u).f = "run" /\ Base(u).b = p
  BY DEF Runs
<1>2. Len(stack[u]) \in 1..3 /\ stack[u] \in Seq(FrameSet) /\ Base(u) = stack[u][Len(stack[u])]
  BY <1>1, TopFacts DEF Base
<1>3. Len(stack[u]) \in DOMAIN stack[u]
  <2>1. Len(stack[u]) > 0
    BY SMTT(60), <1>2
  <2> QED  BY <1>2, <2>1, LenDomain
<1>4. Is(6, stack[u][Len(stack[u])], p)
  BY <1>1, <1>2 DEF Is
<1> QED  BY <1>3, <1>4, NumPositive

\* A release on top of a stack is of the body below it or of the parent of a settled child.
LEMMA ReleaseShape ==
    ASSUME TypeInv, NEW t \in Threads, At(t, "release", "sub")
    PROVE  /\ stack[t] # <<>> /\ Top(t) = stack[t][1] /\ Top(t) \in FrameSet /\ stack[t] \in Seq(FrameSet)
           /\ Top(t).f = "release" /\ Top(t).b \in Parents /\ Top(t).b \in Blocks
           /\ ReleaseOfRun(stack[t]) \/ ReleaseOfChild(stack[t])
           /\ Num(8, Top(t).b) >= 1
<1>1. stack[t] # <<>> /\ Top(t).f = "release"
  BY DEF At
<1>2. /\ stack[t] \in Seq(FrameSet) /\ StackOK(stack[t]) /\ Top(t) = stack[t][1] /\ Top(t) \in FrameSet
      /\ Len(stack[t]) \in 1..3
  BY <1>1, TopFacts
<1>3. stack[t][1].f = "release" /\ Len(stack[t]) # 0
  BY <1>1, <1>2
<1>5. ReleaseOfRun(stack[t]) \/ ReleaseOfChild(stack[t])
  BY <1>2, <1>3 DEF StackOK, ReleaseOfRun, ReleaseOfChild, RunFrame, TriggerFrame, ParentSettle, ChildSettle
<1>6. Top(t).b \in Parents
  BY <1>2, <1>5 DEF ReleaseOfRun, ReleaseOfChild, ReleaseFrame
<1>7. 1 \in DOMAIN stack[t]
  BY <1>2
<1>8. Is(8, stack[t][1], Top(t).b)
  BY <1>2, <1>3 DEF Is
<1>9. Num(8, Top(t).b) >= 1
  BY <1>7, <1>8, NumPositive
<1> QED  BY <1>1, <1>2, <1>5, <1>6, <1>9 DEF Blocks

\* s counts for one lock less than z with q.
Drops(s, z, x, q) == G(s, x) = G(z, x) /\ M(s, x) = M(z, x) - (IF x = q THEN 1 ELSE 0)

\* A release returns,
LEMMA ReleaseReturns ==
    ASSUME TypeInv, NEW t \in Threads, At(t, "release", "sub"), Return(t)
    PROVE  \E s \in Seq(FrameSet) :
              /\ Moves(t, s) /\ RunsKept /\ StackOK(s) /\ s # <<>> /\ s[1].conts = <<>>
              /\ s[1].f = "settle" => s[1].b \in Children
              /\ \A b \in Blocks : Drops(s, stack[t], b, Top(t).b)
<1>1. /\ stack[t] # <<>> /\ Top(t) = stack[t][1] /\ Top(t) \in FrameSet /\ stack[t] \in Seq(FrameSet)
      /\ Top(t).f = "release" /\ (ReleaseOfRun(stack[t]) \/ ReleaseOfChild(stack[t]))
  BY ReleaseShape
<1>2. PICK s \in Seq(FrameSet) :
              /\ Moves(t, s) /\ RunsKept
              /\ Len(s) = Len(stack[t]) - 1 /\ s[1] = stack[t][2]
              /\ Len(s) = 2 => s[2] = stack[t][3]
  <2>1. Top(t).f \in {"settle", "release"}
    BY <1>1
  <2> QED  BY <1>1, <2>1, UpperReturn
<1>3. Len(s) > 0 => s # <<>>
  BY NonEmpty
<1>4. CASE ReleaseOfRun(stack[t])
  <2>1. /\ Len(stack[t]) = 2 /\ RunFrame(stack[t][2]) /\ stack[t][2].at = "unlink"
        /\ ReleaseFrame(stack[t][1], stack[t][2].b) /\ Len(s) = 1 /\ RunFrame(s[1])
    BY <1>2, <1>4 DEF ReleaseOfRun
  <2>3. StackOK(s) /\ s # <<>> /\ s[1].conts = <<>> /\ s[1].f = "run"
    BY <1>2, <1>3, <2>1 DEF StackOK, RunFrame
  <2>4. ASSUME NEW b \in Blocks
        PROVE  Drops(s, stack[t], b, Top(t).b)
    <3>1. PICK z, n, m : /\ z = stack[t] /\ n = (IF b = s[1].b /\ s[1].at \in InBody \cup {"self_lock"} THEN 1 ELSE 0)
                         /\ m = (IF b = s[1].b /\ s[1].at = "link" THEN 1 ELSE 0)
      OBVIOUS
    <3>2. G(z, b) = G(s, b) /\ M(s, b) = n + m /\ M(z, b) = n + m + (IF b = z[2].b THEN 1 ELSE 0)
      <4>1. s[1] = z[2] /\ z \in Seq(FrameSet) /\ Len(z) = 2 /\ RunFrame(z[2]) /\ ReleaseFrame(z[1], z[2].b)
        BY <1>1, <1>2, <2>1, <3>1
      <4>2. /\ G(s, b) = (IF b = s[1].b /\ kind[b] = "task" THEN 1 ELSE 0) + (IF b = s[1].b /\ s[1].at \in InBody THEN 1 ELSE 0) + (IF b = s[1].b /\ s[1].at \in {"link", "unlink"} THEN 1 ELSE 0)
            /\ M(s, b) = n + m
        BY <2>1, <3>1, HasRun
      <4>3. /\ G(z, b) = (IF b = z[2].b /\ kind[b] = "task" THEN 1 ELSE 0) + (IF b = z[2].b /\ z[2].at \in InBody THEN 1 ELSE 0) + (IF b = z[2].b /\ z[2].at \in {"link", "unlink"} THEN 1 ELSE 0)
            /\ M(z, b) = (IF b = z[2].b /\ z[2].at \in InBody \cup {"self_lock"} THEN 1 ELSE 0) + (IF b = z[2].b /\ z[2].at = "link" THEN 1 ELSE 0) + (IF b = z[2].b THEN 1 ELSE 0)
        BY <4>1, HasRunRelease
      <4> QED  BY <3>1, <4>1, <4>2, <4>3
    <3>3. z[2].b = Top(t).b /\ n \in Nat /\ m \in Nat
      BY <1>1, <2>1, <3>1 DEF ReleaseFrame
    <3> QED  BY <3>1, <3>2, <3>3 DEF Drops
  <2> QED  BY <1>2, <2>3, <2>4
<1>6. CASE ReleaseOfChild(stack[t])
  <2>1. /\ Len(stack[t]) = 3 /\ TriggerFrame(stack[t][3]) /\ ChildSettle(stack[t][2])
        /\ stack[t][2].b = stack[t][3].b /\ stack[t][2].at = "drop_parent"
        /\ ReleaseFrame(stack[t][1], stack[t][2].parent)
        /\ Len(s) = 2 /\ TriggerFrame(s[2]) /\ ChildSettle(s[1]) /\ s[1] = stack[t][2] /\ s[2] = stack[t][3]
    BY <1>2, <1>6 DEF ReleaseOfChild
  <2>3. StackOK(s) /\ s # <<>> /\ s[1].conts = <<>> /\ s[1].b \in Children
    BY <1>2, <1>3, <2>1 DEF StackOK, ChildSettle
  <2>4. ASSUME NEW b \in Blocks
        PROVE  Drops(s, stack[t], b, Top(t).b)
    <3>1. PICK z : z = stack[t]
      OBVIOUS
    <3>2. /\ G(z, b) = (IF b = z[3].b THEN 1 ELSE 0) + (IF b = z[2].parent THEN 1 ELSE 0)
          /\ M(z, b) = (IF b = z[2].parent THEN 1 ELSE 0)
      BY <1>1, <2>1, <3>1, HasTriggerRelease
    <3>3. /\ G(s, b) = (IF b = s[2].b THEN 1 ELSE 0) + (IF b = s[1].parent THEN 1 ELSE 0)
          /\ M(s, b) = (IF b = s[1].parent /\ s[1].at # "drop_parent" THEN 1 ELSE 0)
      BY <1>2, <2>1, HasTriggerSettle
    <3>4. z[2].parent = Top(t).b
      BY <1>1, <2>1, <3>1 DEF ReleaseFrame
    <3>5. G(s, b) = G(z, b) /\ M(s, b) = M(z, b) - (IF b = Top(t).b THEN 1 ELSE 0)
      BY <2>1, <3>1, <3>2, <3>3, <3>4
    <3> QED  BY <3>1, <3>5 DEF Drops
  <2> QED  BY <1>2, <2>3, <2>4
<1> QED  BY <1>1, <1>4, <1>6

\* or settles the parent of the child that called it.
LEMMA ReleaseSettles ==
    ASSUME TypeInv, NEW t \in Threads, At(t, "release", "sub"), ReleaseOfChild(stack[t]),
           Put(t, settle(Top(t).b, FALSE))
    PROVE  \E s \in Seq(FrameSet) :
              /\ Moves(t, s) /\ RunsKept /\ StackOK(s) /\ s # <<>> /\ s[1].conts = <<>>
              /\ s[1].f = "settle" /\ s[1].b = Top(t).b /\ s[1].at = "lock" /\ s[1].cancel = FALSE
              /\ \A b \in Blocks : Drops(s, stack[t], b, Top(t).b)
<1>1. /\ stack[t] # <<>> /\ Top(t) = stack[t][1] /\ Top(t) \in FrameSet /\ stack[t] \in Seq(FrameSet)
      /\ Top(t).f = "release" /\ Top(t).b \in Parents /\ Top(t).b \in Blocks
  BY ReleaseShape
<1>2. PICK y : y = settle(Top(t).b, FALSE)
  OBVIOUS
<1>3. /\ y \in FrameSet /\ y.f = "settle" /\ y.b = Top(t).b /\ y.at = "lock" /\ y.cancel = FALSE
      /\ y.conts = <<>> /\ y.parent = NoBlock
  <2>1. PICK v : v = FALSE
    OBVIOUS
  <2>2. y = [Frame("settle", Top(t).b, "lock") EXCEPT !.cancel = v] /\ v \in BOOLEAN
    BY <1>2, <2>1 DEF settle
  <2>3. /\ y \in FrameSet /\ y.f = "settle" /\ y.b = Top(t).b /\ y.at = "lock" /\ y.cancel = v
        /\ y.conts = <<>> /\ y.parent = NoBlock
    BY <1>1, <2>2, NewFrame
  <2> QED  BY <2>1, <2>3
<1>4. PICK s \in Seq(FrameSet) :
              /\ Moves(t, s) /\ RunsKept
              /\ Len(s) = Len(stack[t]) /\ s[1] = y /\ s[2] = stack[t][2]
              /\ Len(s) = 3 => s[3] = stack[t][3]
  <2>1. Top(t).f \in {"settle", "release"} /\ Put(t, y)
    BY <1>1, <1>2
  <2> QED  BY <1>1, <1>3, <2>1, UpperPut
<1>5. Len(s) > 0 => s # <<>>
  BY NonEmpty
<1>6. /\ Len(stack[t]) = 3 /\ TriggerFrame(stack[t][3]) /\ ChildSettle(stack[t][2])
      /\ stack[t][2].b = stack[t][3].b /\ stack[t][2].at = "drop_parent"
      /\ ReleaseFrame(stack[t][1], stack[t][2].parent)
  BY DEF ReleaseOfChild
<1>7. ParentSettle(y, stack[t][2].parent) /\ stack[t][2].parent = Top(t).b
  BY <1>1, <1>3, <1>6 DEF ParentSettle, ReleaseFrame
<1>8. StackOK(s) /\ s # <<>>
  BY <1>4, <1>5, <1>6, <1>7 DEF StackOK
<1>9. ASSUME NEW b \in Blocks
      PROVE  Drops(s, stack[t], b, Top(t).b)
  <2>1. PICK z : z = stack[t]
    OBVIOUS
  <2>2. /\ G(z, b) = (IF b = z[3].b THEN 1 ELSE 0) + (IF b = z[2].parent THEN 1 ELSE 0)
        /\ M(z, b) = (IF b = z[2].parent THEN 1 ELSE 0)
    BY <1>1, <1>6, <2>1, HasTriggerRelease
  <2>3. /\ G(s, b) = (IF b = s[3].b THEN 1 ELSE 0) + (IF b = s[2].parent THEN 1 ELSE 0) /\ M(s, b) = 0
    BY <1>4, <1>6, <1>7, HasTriggerParent
  <2>4. s[2] = z[2] /\ s[3] = z[3] /\ z[2].parent = Top(t).b
    BY <1>4, <1>6, <1>7, <2>1
  <2>5. G(s, b) = G(z, b) /\ M(s, b) = M(z, b) - (IF b = Top(t).b THEN 1 ELSE 0)
    BY <2>2, <2>3, <2>4
  <2> QED  BY <2>1, <2>5 DEF Drops
<1> QED  BY <1>3, <1>4, <1>8, <1>9

\* A released block has its lock, and is not complete.
LEMMA ReleasedFacts ==
    ASSUME BlockInv, NEW t \in Threads, At(t, "release", "sub")
    PROVE  /\ StackLocks(Top(t).b) \in Nat /\ StackLocks(Top(t).b) >= 1
           /\ Cardinality(Linked(Top(t).b)) \in Nat /\ ExecutionFlag \in Nat /\ ExecutionFlag > 1
           /\ num_locks[Top(t).b] = ExecutionFlag + StackLocks(Top(t).b) + Cardinality(Linked(Top(t).b))
           /\ ~completed[Top(t).b] /\ body_claimed[Top(t).b]
           /\ \A u \in Threads : ~Settles(u, Top(t).b)
<1>1. TypeInv /\ LocksInv /\ SettleInv /\ RunInv /\ ChildInv
  BY DEF BlockInv
<1>2. PICK b \in Parents : b = Top(t).b /\ b \in Blocks /\ Num(8, b) >= 1
  BY <1>1, ReleaseShape
<1>3. /\ Num(6, b) \in Nat /\ Num(7, b) \in Nat /\ Num(8, b) \in Nat /\ Num(9, b) \in Nat
  BY NumNat
<1>4. StackLocks(b) \in Nat /\ StackLocks(b) >= 1
  BY <1>2, <1>3 DEF StackLocks
<1>5. Cardinality(Linked(b)) \in Nat /\ ExecutionFlag \in Nat /\ ExecutionFlag > 1
  BY <1>1, <1>2, LinkedFinite, ConstantFacts
<1>6. num_locks[b] = ExecutionFlag + StackLocks(b) + Cardinality(Linked(b))
  BY <1>1, <1>2, <1>4, <1>5 DEF LocksInv
<1>7. num_locks[b] # 0
  BY <1>4, <1>5, <1>6
<1>8. body_claimed[b]
  BY <1>1, <1>2, <1>7 DEF RunInv
<1>9. StackLocks(b) # 0
  BY <1>4
<1>10. ~completed[b] /\ \A u \in Threads : ~Settles(u, b)
  BY <1>1, <1>2, <1>9 DEF SettleInv, SettleOK
<1> QED  BY <1>2, <1>4, <1>5, <1>6, <1>8, <1>10

\* An access that settles inside the call that fired it has no other lock to release.
LEMMA SyncAlone ==
    ASSUME BlockInv, NEW t \in Threads, At(t, "release", "sub"), NEW c \in Clients, kind[Handle[c]] = "op",
           Handle[c] = Top(t).b, settle_synchronously[Handle[c]],
           NEW u \in Threads, Runs(u, Handle[c]), Base(u).at = "self_lock"
    PROVE  FALSE
<1>1. TypeInv /\ OwnerInv
  BY DEF BlockInv
<1>2. PICK b \in Parents : b = Top(t).b /\ Num(8, b) >= 1
  BY <1>1, ReleaseShape
<1>3. Num(6, b) >= 1
  BY <1>1, <1>2, BodyLock
<1>4. /\ Num(6, b) \in Nat /\ Num(7, b) \in Nat /\ Num(8, b) \in Nat /\ Num(9, b) \in Nat
  BY NumNat
<1>5. StackLocks(b) >= 2 /\ StackLocks(b) \in Nat
  BY <1>2, <1>3, <1>4 DEF StackLocks
<1>6. /\ Cardinality(Linked(b)) \in Nat /\ ExecutionFlag \in Nat
      /\ num_locks[b] = ExecutionFlag + StackLocks(b) + Cardinality(Linked(b))
  BY <1>2, ReleasedFacts
<1>7. num_locks[b] = ExecutionFlag + 1
  <2>1. OwnerOK(c)
    BY <1>1 DEF OwnerInv
  <2> QED  BY <1>2, <2>1 DEF OwnerOK
<1> QED  BY <1>5, <1>6, <1>7

\* A lock is released.
LEMMA ReleaseDone ==
    ASSUME BlockInv, NEW t \in Threads, At(t, "release", "sub"),
           NEW s \in Seq(FrameSet), Moves(t, s), RunsKept, StackOK(s), s # <<>>, s[1].conts = <<>>,
           \A x \in Blocks : Drops(s, stack[t], x, Top(t).b),
           s[1].f = "settle" /\ s[1].b \in Parents =>
                /\ s[1].b = Top(t).b /\ s[1].at = "lock" /\ ~s[1].cancel
                /\ num_locks[Top(t).b] - 1 = ExecutionFlag,
           num_locks' = [num_locks EXCEPT ![Top(t).b] = @ - 1],
           prereq_cancelled' = [prereq_cancelled EXCEPT ![Top(t).b] = @ \/ Top(t).cancel],
           UNCHANGED <<kind, refcount, body_claimed, completed, cancelled, nested_parent,
                       continuations, settle_synchronously, queue, client>>
    PROVE  BlockInv'
<1>0. /\ kind' = kind /\ refcount' = refcount /\ body_claimed' = body_claimed /\ completed' = completed
      /\ cancelled' = cancelled /\ nested_parent' = nested_parent /\ continuations' = continuations
      /\ settle_synchronously' = settle_synchronously /\ queue' = queue /\ client' = client
  OBVIOUS
<1>1. TypeInv /\ RefsInv /\ LocksInv /\ RunInv /\ SettleInv /\ ChildInv /\ AttachInv /\ OwnerInv
  BY DEF BlockInv
<1>2. PICK b \in Parents : b = Top(t).b
  BY <1>1, ReleaseShape
<1>3. /\ stack[t] # <<>> /\ Top(t).f = "release" /\ Top(t) \in FrameSet
      /\ b \in Blocks /\ b \notin Children /\ Top(t).cancel \in BOOLEAN
  BY <1>1, <1>2, ReleaseShape, ConstantFacts DEF FrameSet, Blocks
<1>4. PICK n, k, e : n = StackLocks(b) /\ k = Cardinality(Linked(b)) /\ e = ExecutionFlag
  OBVIOUS
<1>5. /\ n \in Nat /\ n >= 1 /\ k \in Nat /\ e \in Nat /\ e > 1 /\ num_locks[b] = e + n + k
      /\ ~completed[b] /\ body_claimed[b] /\ \A u \in Threads : ~Settles(u, b)
  BY <1>2, <1>4, ReleasedFacts
<1>6. /\ num_locks' \in [Blocks -> Int] /\ num_locks'[b] = num_locks[b] - 1
      /\ \A x \in Blocks : x # b => num_locks'[x] = num_locks[x]
      /\ prereq_cancelled' \in [Blocks -> BOOLEAN]
  BY <1>1, <1>2, <1>3 DEF TypeInv, CountType, FlagType
<1>7. /\ stack'[t] = s /\ Top(t)' = s[1]
      /\ \A x \in Blocks : Settles(t, x)' <=> s[1].f = "settle" /\ s[1].b = x
      /\ \A u \in Threads : u # t => /\ stack'[u] = stack[u] /\ Top(u)' = Top(u)
                                     /\ \A x \in Blocks : Settles(u, x)' <=> Settles(u, x)
  BY <1>1, FrameMove
<1>8. TypeInv'
  <2>1. CountType'
    BY <1>0, <1>1, <1>3, <1>6 DEF TypeInv, CountType, Blocks
  <2>2. FlagType'
    BY <1>0, <1>1, <1>6 DEF TypeInv, FlagType
  <2>3. LinkType'
    BY <1>0, <1>1 DEF TypeInv, LinkType
  <2>4. KindType'
    BY <1>0, <1>1 DEF TypeInv, KindType, Holders
  <2>5. StackType'
    BY <1>1, StackTypeKept
  <2> QED  BY <2>1, <2>2, <2>3, <2>4, <2>5 DEF TypeInv
<1>9. ASSUME NEW x \in Blocks
      PROVE  /\ StackRefs(x)' = StackRefs(x) /\ StackLocks(x) \in Nat
             /\ StackLocks(x)' = StackLocks(x) - (IF x = b THEN 1 ELSE 0)
  <2>1. /\ StackRefs(x) \in Nat /\ StackLocks(x) \in Nat
        /\ StackRefs(x)' = StackRefs(x) + G(s, x) - G(stack[t], x)
        /\ StackLocks(x)' = StackLocks(x) + M(s, x) - M(stack[t], x)
    BY <1>0, <1>1, StackMove
  <2>2. G(stack[t], x) \in Int /\ M(stack[t], x) \in Int
    BY WeightInt
  <2>3. G(s, x) = G(stack[t], x) /\ M(s, x) = M(stack[t], x) - (IF x = b THEN 1 ELSE 0)
    BY <1>2 DEF Drops
  <2> QED  BY <2>1, <2>2, <2>3
<1>10. \A p \in Parents : Lives(p)' <=> Lives(p)
  BY <1>0, LivesKept
<1>11. \A x \in Blocks : Rest(x)' = Rest(x)
  BY <1>0, <1>10, RestSame
<1>12. RefsInv'
  <2>1. \A x \in Blocks : Counted(x)' <=> Counted(x)
    BY <1>0 DEF Counted
  <2> QED  BY <1>0, <1>1, <1>9, <1>11, <2>1 DEF RefsInv
<1>13. LocksInv'
  <2>1. ASSUME NEW p \in Parents
        PROVE  \/ num_locks'[p] = 0 /\ StackLocks(p)' + Cardinality(Linked(p)') = 0
               \/ num_locks'[p] = ExecutionFlag + StackLocks(p)' + Cardinality(Linked(p)')
    <3>1. p \in Blocks /\ Linked(p)' = Linked(p)
      BY <1>0 DEF Blocks, Linked
    <3>2. CASE p = b
      <4>1. StackLocks(p)' = n - 1 /\ Cardinality(Linked(p)') = k /\ ExecutionFlag = e
        BY <1>4, <1>9, <3>1, <3>2
      <4>2. num_locks'[p] = e + n + k - 1
        BY <1>5, <1>6, <3>2
      <4>3. e + n + k - 1 = e + (n - 1) + k
        BY <1>5
      <4> QED  BY <4>1, <4>2, <4>3
    <3>3. CASE p # b
      <4>1. StackLocks(p)' = StackLocks(p) /\ num_locks'[p] = num_locks[p]
        BY <1>6, <1>9, <3>1, <3>3
      <4> QED  BY <1>1, <3>1, <4>1 DEF LocksInv
    <3> QED  BY <3>2, <3>3
  <2> QED  BY <2>1 DEF LocksInv
<1>14. RunInv'
  <2>1. \A p \in Parents : ~body_claimed[p] => num_locks'[p] = num_locks[p] /\ completed'[p] = completed[p]
    BY <1>0, <1>5, <1>6 DEF Blocks
  <2>2. ASSUME NEW c \in Clients, client'[c] = "dormant"
        PROVE  client[c] = "dormant" /\ stack'[c] = stack[c]
    <3>1. client[c] = "dormant" /\ c \in Threads
      BY <1>0, <2>2, ConstantFacts
    <3>2. stack[c] = <<>>
      BY <1>1, <3>1 DEF RunInv
    <3> QED  BY <1>3, <1>7, <3>1, <3>2
  <2> QED  BY <1>0, <1>1, <2>1, <2>2, RunKept
<1>15. ChildInv'
  <2>1. \A c \in Children : nested_parent'[c] # NoBlock => ~completed'[c]
    BY <1>0, <1>1 DEF ChildInv, TypeInv, LinkType, Blocks
  <2>2. \A p \in Parents : nested_parent'[p] = NoBlock
    BY <1>0, <1>1 DEF ChildInv
  <2>3. \A p \in Parents : num_locks'[p] > 0 => num_locks[p] > 0
    <3>1. num_locks[b] > 0
      BY <1>5
    <3> QED  BY <1>6, <3>1 DEF Blocks
  <2>4. \A c \in Children : completed[c] => completed'[c]
    BY <1>0
  <2>5. \A c \in Children : \/ nested_parent'[c] = nested_parent[c]
                            \/ nested_parent'[c] = NoBlock /\ completed'[c]
    BY <1>0
  <2> QED  BY <1>1, <2>1, <2>2, <2>3, <2>4, <2>5, ChildKept
<1>16. SettleInv'
  <2>1. ASSUME NEW p \in Parents
        PROVE  SettleOK(p)'
    <3>1. SettleOK(p) /\ p \in Blocks /\ Linked(p)' = Linked(p)
      BY <1>0, <1>1 DEF SettleInv, Blocks, Linked
    <3>2. CASE p # b
      <4>1. \A u \in Threads : Settles(u, p)' =>
                /\ Settles(u, p) /\ (Top(u)'.at = "lock" <=> Top(u).at = "lock")
                /\ Top(u)'.cancel = Top(u).cancel
        BY <1>2, <1>7, <3>1, <3>2
      <4>2. StackLocks(p)' = StackLocks(p) /\ num_locks'[p] = num_locks[p]
        BY <1>6, <1>9, <3>1, <3>2
      <4> QED  BY <1>0, <3>1, <4>1, <4>2, SettleKept
    <3>3. CASE p = b
      <4>1. \A u \in Threads : Settles(u, b)' =>
                u = t /\ Top(t)'.at = "lock" /\ ~Top(t)'.cancel /\ num_locks[b] - 1 = e
        BY <1>2, <1>3, <1>4, <1>5, <1>7
      <4>2. (\E u \in Threads : Settles(u, b)') => StackLocks(b)' = 0 /\ Linked(b)' = {} /\ num_locks'[b] > 0
        <5>1. SUFFICES ASSUME \E u \in Threads : Settles(u, b)'
                       PROVE  StackLocks(b)' = 0 /\ Linked(b)' = {} /\ num_locks'[b] > 0
          OBVIOUS
        <5>2. num_locks[b] - 1 = e
          BY <4>1, <5>1
        <5>3. n = 1 /\ k = 0
          BY <1>5, <5>2
        <5>4. StackLocks(b)' = 0
          <6>1. StackLocks(b) = 1
            BY <1>4, <5>3
          <6>2. StackLocks(b)' = StackLocks(b) - 1
            BY <1>3, <1>9
          <6> QED  BY <6>1, <6>2
        <5>5. Linked(b) = {}
          BY <1>1, <1>3, <1>4, <5>3, LinkedFinite, FS_EmptySet
        <5>6. num_locks'[b] > 0
          BY <1>5, <1>6, <5>2
        <5> QED  BY <3>1, <3>3, <5>4, <5>5, <5>6
      <4>3. ~completed'[b] /\ body_claimed'[b]
        BY <1>0, <1>5
      <4> QED  BY <3>3, <4>1, <4>2, <4>3 DEF SettleOK
    <3> QED  BY <3>2, <3>3
  <2> QED  BY <2>1 DEF SettleInv
<1>17. OwnerInv'
  <2>1. ASSUME NEW c \in Clients, kind[Handle[c]] = "op"
        PROVE  OwnerOK(c)'
    <3>1. Handle[c] \in Parents /\ c \in Threads /\ Handle[c] \in Blocks /\ OwnerOK(c)
      BY <1>1, <2>1, OpIsParent, ConstantFacts DEF OwnerInv
    <3>2. client'[c] = client[c] /\ completed'[Handle[c]] = completed[Handle[c]]
      BY <1>0
    <3>3. Settles(c, Handle[c]) => Settles(c, Handle[c])'
      BY <1>3, <1>7, <3>1 DEF Settles
    <3>4. ASSUME NEW u \in Threads, settle_synchronously[Handle[c]], Runs(u, Handle[c]), Base(u).at = "self_lock"
          PROVE  num_locks'[Handle[c]] = num_locks[Handle[c]]
      BY <1>2, <1>6, <2>1, <3>1, <3>4, SyncAlone
    <3> QED  BY <1>0, <1>1, <2>1, <3>1, <3>2, <3>3, <3>4, OwnerKept
  <2> QED  BY <1>0, <2>1 DEF OwnerInv
<1>18. AttachInv'
  <2>1. \A x \in Blocks : (completed[x] => completed'[x]) /\ (continuations[x] # <<>> => ~completed'[x])
    BY <1>0, <1>1 DEF AttachInv, ContsOK
  <2> QED  BY <1>0, <1>1, <2>1, AttachMove
<1> QED  BY <1>8, <1>12, <1>13, <1>14, <1>15, <1>16, <1>17, <1>18 DEF BlockInv

\* release drops a lock and settles the block with the last one: the invariant is kept.
LEMMA ReleaseKept ==
    ASSUME BlockInv, NEW t \in Threads, release(t)
    PROVE  BlockInv'
<1>1. TypeInv
  BY DEF BlockInv
<1>2. /\ At(t, "release", "sub") /\ num_locks' = [num_locks EXCEPT ![Top(t).b] = @ - 1]
      /\ prereq_cancelled' = [prereq_cancelled EXCEPT ![Top(t).b] = @ \/ Top(t).cancel]
      /\ UNCHANGED <<kind, refcount, body_claimed, completed, cancelled, nested_parent,
                     continuations, settle_synchronously, queue, client>>
  BY DEF release
<1>3. CASE num_locks[Top(t).b] - 1 = ExecutionFlag
  <2>1. Put(t, settle(Top(t).b, FALSE))
    BY <1>3 DEF release
  <2>2. ReleaseOfChild(stack[t])
    <3>1. SUFFICES ASSUME ReleaseOfRun(stack[t])
                   PROVE  FALSE
      BY <1>1, <1>2, ReleaseShape
    <3>2. PICK b : b = Top(t).b
      OBVIOUS
    <3>3. Num(8, b) >= 1 /\ Top(t) = stack[t][1] /\ stack[t] \in Seq(FrameSet)
      BY <1>1, <1>2, <3>2, ReleaseShape
    <3>4. Len(stack[t]) = 2 /\ Is(6, stack[t][2], b)
      BY <3>1, <3>2, <3>3 DEF ReleaseOfRun, RunFrame, ReleaseFrame, Is, InBody
    <3>5. 2 \in DOMAIN stack[t]
      BY <3>3, <3>4
    <3>6. Num(6, b) >= 1
      BY <3>4, <3>5, NumPositive
    <3>7. Num(6, b) \in Nat /\ Num(7, b) \in Nat /\ Num(8, b) \in Nat /\ Num(9, b) \in Nat
      BY NumNat
    <3>8. StackLocks(b) \in Nat /\ StackLocks(b) >= 2
      BY <3>3, <3>6, <3>7 DEF StackLocks
    <3>9. /\ Cardinality(Linked(b)) \in Nat /\ ExecutionFlag \in Nat
          /\ num_locks[b] = ExecutionFlag + StackLocks(b) + Cardinality(Linked(b))
      BY <1>2, <3>2, ReleasedFacts
    <3>10. num_locks[b] - 1 = ExecutionFlag
      BY <1>3, <3>2
    <3> QED  BY <3>8, <3>9, <3>10
  <2>3. PICK s \in Seq(FrameSet) :
              /\ Moves(t, s) /\ RunsKept /\ StackOK(s) /\ s # <<>> /\ s[1].conts = <<>>
              /\ s[1].f = "settle" /\ s[1].b = Top(t).b /\ s[1].at = "lock" /\ s[1].cancel = FALSE
              /\ \A b \in Blocks : Drops(s, stack[t], b, Top(t).b)
    BY <1>1, <1>2, <2>1, <2>2, ReleaseSettles
  <2> QED  BY <1>2, <1>3, <2>3, ReleaseDone
<1>4. CASE num_locks[Top(t).b] - 1 # ExecutionFlag
  <2>1. Return(t)
    BY <1>4 DEF release
  <2>2. PICK s \in Seq(FrameSet) :
              /\ Moves(t, s) /\ RunsKept /\ StackOK(s) /\ s # <<>> /\ s[1].conts = <<>>
              /\ s[1].f = "settle" => s[1].b \in Children
              /\ \A b \in Blocks : Drops(s, stack[t], b, Top(t).b)
    BY <1>1, <1>2, <2>1, ReleaseReturns
  <2>3. s[1].f = "settle" => s[1].b \notin Parents
    BY <2>2, ConstantFacts
  <2> QED  BY <1>2, <2>2, <2>3, ReleaseDone
<1> QED  BY <1>3, <1>4

-----------------------------------------------------------------------------
(* Dispatches *)

\* What is known of a dispatch and of the block it runs.
LEMMA RunHere ==
    ASSUME BlockInv, NEW t \in Threads, NEW a, At(t, "run", a), NEW p, p = Top(t).b
    PROVE  /\ p \in Parents /\ p \in Blocks /\ p \notin Children /\ p \notin queue
           /\ Runs(t, p) /\ Base(t) = Top(t) /\ Top(t).at = a /\ Top(t).f = "run"
           /\ RunFrame(Top(t)) /\ Top(t) \in FrameSet /\ stack[t] # <<>> /\ stack[t] \in Seq(FrameSet)
           /\ Len(stack[t]) = 1 /\ stack[t][1] = Top(t)
           /\ \A q \in Parents : Runs(t, q) => q = p
           /\ \A u \in Threads : Runs(u, p) => u = t
           /\ body_claimed[p] <=> a # "claim"
<1>1. TypeInv /\ RunInv
  BY DEF BlockInv
<1>2. /\ p \in Parents /\ p \in Blocks /\ Runs(t, p) /\ Base(t) = Top(t) /\ Top(t).at = a
      /\ RunFrame(Top(t)) /\ Top(t) \in FrameSet /\ stack[t] # <<>>
      /\ Len(stack[t]) = 1 /\ stack[t][1] = Top(t)
  BY <1>1, RunTop
<1>3. stack[t] \in Seq(FrameSet) /\ Top(t).f = "run"
  BY <1>1, <1>2, TopFacts DEF RunFrame
<1>4. p \notin Children
  BY <1>2, ConstantFacts
<1>5. p \notin queue
  BY <1>1, <1>2 DEF RunInv
<1>6. \A u \in Threads : Runs(u, p) => u = t
  BY <1>1, <1>2 DEF RunInv
<1>7. body_claimed[p] <=> a # "claim"
  BY <1>1, <1>2 DEF RunInv
<1>8. \A q \in Parents : Runs(t, q) => q = p
  BY <1>2 DEF Runs
<1> QED  BY <1>2, <1>3, <1>4, <1>5, <1>6, <1>7, <1>8

\* Nothing has settled a block whose body is still to be left.
LEMMA RunUnsettled ==
    ASSUME BlockInv, NEW t \in Threads, NEW a, At(t, "run", a), NEW p, p = Top(t).b, a # "drop"
    PROVE  /\ ~completed[p] /\ \A u \in Threads : ~Settles(u, p)
           /\ StackLocks(p) \in Nat /\ Cardinality(Linked(p)) \in Nat
           /\ ExecutionFlag \in Nat /\ ExecutionFlag > 1 /\ num_locks[p] \in Int
           /\ a = "claim" => num_locks[p] = 0 /\ StackLocks(p) = 0 /\ Linked(p) = {}
           /\ a # "claim" => /\ StackLocks(p) >= 1
                             /\ num_locks[p] = ExecutionFlag + StackLocks(p) + Cardinality(Linked(p))
                             /\ num_locks[p] > 0
<1>1. TypeInv /\ RunInv /\ LocksInv /\ SettleInv /\ ChildInv
  BY DEF BlockInv
<1>2. /\ p \in Parents /\ p \in Blocks /\ Runs(t, p) /\ Base(t).at = a /\ RunFrame(Base(t))
      /\ body_claimed[p] <=> a # "claim"
  BY RunHere
<1>3. ExecutionFlag \in Nat /\ ExecutionFlag > 1
  BY <1>2, ConstantFacts
<1>4. StackLocks(p) \in Nat /\ Cardinality(Linked(p)) \in Nat /\ IsFiniteSet(Linked(p))
  BY <1>1, <1>2, LinkedFinite, StackNat
<1>5. num_locks[p] \in Int
  BY <1>1, <1>2 DEF TypeInv, CountType
<1>6. \/ num_locks[p] = 0 /\ StackLocks(p) + Cardinality(Linked(p)) = 0
      \/ num_locks[p] = ExecutionFlag + StackLocks(p) + Cardinality(Linked(p))
  BY <1>1, <1>2 DEF LocksInv
<1>7. completed[p] \/ (\E u \in Threads : Settles(u, p)) => body_claimed[p] /\ StackLocks(p) = 0
  BY <1>1, <1>2 DEF SettleInv, SettleOK
<1>8. CASE a = "claim"
  <2>1. num_locks[p] = 0
    BY <1>1, <1>2, <1>8 DEF RunInv
  <2>2. StackLocks(p) = 0 /\ Cardinality(Linked(p)) = 0
    BY <1>3, <1>4, <1>6, <2>1
  <2>3. Linked(p) = {}
    BY <1>4, <2>2, FS_EmptySet
  <2> QED  BY <1>2, <1>3, <1>4, <1>5, <1>7, <1>8, <2>1, <2>2, <2>3
<1>9. CASE a # "claim"
  <2>1. a \in InBody \cup {"self_lock"}
    BY <1>2, <1>9 DEF RunFrame, InBody
  <2>2. Num(6, p) >= 1
    BY <1>1, <1>2, <2>1, BodyLock
  <2>3. Num(6, p) \in Nat /\ Num(7, p) \in Nat /\ Num(8, p) \in Nat /\ Num(9, p) \in Nat
    BY NumNat
  <2>4. StackLocks(p) >= 1
    BY <2>2, <2>3 DEF StackLocks
  <2>5. num_locks[p] = ExecutionFlag + StackLocks(p) + Cardinality(Linked(p)) /\ num_locks[p] > 0
    BY <1>3, <1>4, <1>6, <2>4
  <2>6. StackLocks(p) # 0
    BY <1>4, <2>4
  <2> QED  BY <1>3, <1>4, <1>5, <1>7, <1>9, <2>4, <2>5, <2>6
<1> QED  BY <1>8, <1>9

\* What a dispatch holds of its block, by where it is.
RefsAt(a)  == IF a \in {"link", "unlink"} THEN 2 ELSE IF a = "body" THEN 1 ELSE 0
LocksAt(a) == IF a = "link" THEN 2 ELSE IF a \in {"body", "unlink", "self_lock"} THEN 1 ELSE 0

\* The dispatch x has become y, and n more locks are held by what y has called.
Counts(s, z, q, x, y, n) ==
    \A b \in Blocks :
        /\ G(s, b) = G(z, b) + (IF b = q THEN RefsAt(y.at) - RefsAt(x.at) ELSE 0)
        /\ M(s, b) = M(z, b) + (IF b = q THEN LocksAt(y.at) + n - LocksAt(x.at) ELSE 0)

\* What a dispatch alone counts for.
LEMMA RunWeight ==
    ASSUME NEW s \in Seq(FrameSet), NEW b \in Blocks, Len(s) = 1, RunFrame(s[1])
    PROVE  /\ G(s, b) = (IF b = s[1].b THEN (IF kind[b] = "task" THEN 1 ELSE 0) + RefsAt(s[1].at) ELSE 0)
           /\ M(s, b) = (IF b = s[1].b THEN LocksAt(s[1].at) ELSE 0)
<1>1. /\ G(s, b) = (IF b = s[1].b /\ kind[b] = "task" THEN 1 ELSE 0) + (IF b = s[1].b /\ s[1].at \in InBody THEN 1 ELSE 0) + (IF b = s[1].b /\ s[1].at \in {"link", "unlink"} THEN 1 ELSE 0)
      /\ M(s, b) = (IF b = s[1].b /\ s[1].at \in InBody \cup {"self_lock"} THEN 1 ELSE 0) + (IF b = s[1].b /\ s[1].at = "link" THEN 1 ELSE 0)
  BY HasRun
<1> QED  BY <1>1 DEF RefsAt, LocksAt, InBody

\* A dispatch goes on,
LEMMA RunGoes ==
    ASSUME BlockInv, NEW t \in Threads, NEW a, At(t, "run", a), NEW y, y \in FrameSet, Put(t, y),
           RunFrame(y), y.b = Top(t).b
    PROVE  \E s \in Seq(FrameSet) :
              /\ Moves(t, s) /\ StackOK(s) /\ s # <<>> /\ s[1] = y /\ s[Len(s)] = y
              /\ Counts(s, stack[t], Top(t).b, Top(t), y, 0)
<1>1. TypeInv
  BY DEF BlockInv
<1>2. /\ stack[t] # <<>> /\ stack[t] \in Seq(FrameSet) /\ Len(stack[t]) = 1 /\ stack[t][1] = Top(t)
      /\ RunFrame(Top(t))
  BY RunHere
<1>3. PICK s \in Seq(FrameSet) :
              /\ Moves(t, s)
              /\ Len(s) = Len(stack[t]) /\ s[1] = y /\ \A i \in 2..Len(s) : s[i] = stack[t][i]
  BY <1>1, <1>2, PutMove
<1>4. Len(s) = 1 /\ s # <<>> /\ s[Len(s)] = y
  BY <1>2, <1>3, NonEmpty
<1>5. StackOK(s)
  BY <1>3, <1>4 DEF StackOK
<1>6. ASSUME NEW b \in Blocks
      PROVE  /\ G(s, b) = G(stack[t], b) + (IF b = Top(t).b THEN RefsAt(y.at) - RefsAt(Top(t).at) ELSE 0)
             /\ M(s, b) = M(stack[t], b) + (IF b = Top(t).b THEN LocksAt(y.at) + 0 - LocksAt(Top(t).at) ELSE 0)
  <2>1. /\ G(s, b) = (IF b = s[1].b THEN (IF kind[b] = "task" THEN 1 ELSE 0) + RefsAt(s[1].at) ELSE 0)
        /\ M(s, b) = (IF b = s[1].b THEN LocksAt(s[1].at) ELSE 0)
    BY <1>3, <1>4, RunWeight
  <2>2. /\ G(stack[t], b) = (IF b = Top(t).b THEN (IF kind[b] = "task" THEN 1 ELSE 0) + RefsAt(Top(t).at) ELSE 0)
        /\ M(stack[t], b) = (IF b = Top(t).b THEN LocksAt(Top(t).at) ELSE 0)
    BY <1>2, RunWeight
  <2>3. /\ RefsAt(y.at) \in Int /\ RefsAt(Top(t).at) \in Int
        /\ LocksAt(y.at) \in Int /\ LocksAt(Top(t).at) \in Int
    BY DEF RefsAt, LocksAt
  <2> QED  BY <1>3, <2>1, <2>2, <2>3
<1> QED  BY <1>3, <1>4, <1>5, <1>6 DEF Counts

\* calls a settle at its end,
LEMMA RunSettles ==
    ASSUME BlockInv, NEW t \in Threads, NEW a, At(t, "run", a), NEW cancel \in BOOLEAN,
           Call(t, "drop", settle(Top(t).b, cancel))
    PROVE  \E s \in Seq(FrameSet) :
              /\ Moves(t, s) /\ StackOK(s) /\ s # <<>>
              /\ s[1].f = "settle" /\ s[1].b = Top(t).b /\ s[1].at = "lock" /\ s[1].cancel = cancel
              /\ s[1].conts = <<>> /\ s[Len(s)] = [Top(t) EXCEPT !.at = "drop"]
              /\ Counts(s, stack[t], Top(t).b, Top(t), [Top(t) EXCEPT !.at = "drop"], 0)
<1>1. TypeInv
  BY DEF BlockInv
<1>2. /\ stack[t] # <<>> /\ stack[t] \in Seq(FrameSet) /\ Len(stack[t]) = 1 /\ stack[t][1] = Top(t)
      /\ RunFrame(Top(t)) /\ Top(t).b \in Blocks /\ Top(t).b \in Parents /\ Top(t) \in FrameSet
  BY RunHere
<1>3. PICK y : y = settle(Top(t).b, cancel)
  OBVIOUS
<1>4. /\ y \in FrameSet /\ y.f = "settle" /\ y.b = Top(t).b /\ y.at = "lock" /\ y.cancel = cancel
      /\ y.conts = <<>> /\ y.parent = NoBlock
  BY <1>2, <1>3, NewFrame DEF settle
<1>5. PICK x : x = [Top(t) EXCEPT !.at = "drop"]
  OBVIOUS
<1>6. /\ x \in FrameSet /\ x.f = Top(t).f /\ x.b = Top(t).b /\ x.at = "drop" /\ x.k = Top(t).k
      /\ x.conts = Top(t).conts /\ x.parent = Top(t).parent
  BY <1>2, <1>5, GotoFrame
<1>7. PICK s \in Seq(FrameSet) :
              /\ Moves(t, s)
              /\ Len(s) = Len(stack[t]) + 1 /\ s[1] = y /\ s[2] = x
              /\ \A i \in 2..Len(stack[t]) : s[i + 1] = stack[t][i]
  <2>1. TypeInv /\ stack[t] # <<>> /\ y \in FrameSet /\ x \in FrameSet
    BY <1>1, <1>2, <1>4, <1>6
  <2>2. Call(t, "drop", y) /\ [Top(t) EXCEPT !.at = "drop"] \in FrameSet
    BY <1>3, <1>5, <1>6
  <2> QED  BY <2>1, <2>2, <1>5, CallMove
<1>8. Len(s) = 2 /\ s # <<>> /\ s[2] = x /\ s[Len(s)] = x
  BY <1>2, <1>5, <1>7, NonEmpty
<1>9. RunFrame(x) /\ ParentSettle(y, x.b)
  BY <1>2, <1>4, <1>6 DEF RunFrame, ParentSettle
<1>10. StackOK(s)
  BY <1>6, <1>7, <1>8, <1>9 DEF StackOK
<1>11. ASSUME NEW b \in Blocks
       PROVE  /\ G(s, b) = G(stack[t], b) + (IF b = Top(t).b THEN RefsAt(x.at) - RefsAt(Top(t).at) ELSE 0)
              /\ M(s, b) = M(stack[t], b) + (IF b = Top(t).b THEN LocksAt(x.at) + 0 - LocksAt(Top(t).at) ELSE 0)
  <2>1. /\ G(s, b) = (IF b = x.b /\ kind[b] = "task" THEN 1 ELSE 0) + (IF b = x.b /\ x.at \in InBody THEN 1 ELSE 0) + (IF b = x.b /\ x.at \in {"link", "unlink"} THEN 1 ELSE 0)
        /\ M(s, b) = (IF b = x.b /\ x.at \in InBody \cup {"self_lock"} THEN 1 ELSE 0) + (IF b = x.b /\ x.at = "link" THEN 1 ELSE 0)
    BY <1>7, <1>8, <1>9, HasRunSettle
  <2>2. /\ G(s, b) = (IF b = x.b /\ kind[b] = "task" THEN 1 ELSE 0) /\ M(s, b) = 0
    BY <1>6, <2>1 DEF InBody
  <2>3. /\ G(stack[t], b) = (IF b = Top(t).b THEN (IF kind[b] = "task" THEN 1 ELSE 0) + RefsAt(Top(t).at) ELSE 0)
        /\ M(stack[t], b) = (IF b = Top(t).b THEN LocksAt(Top(t).at) ELSE 0)
    BY <1>2, RunWeight
  <2>4. /\ RefsAt(x.at) = 0 /\ RefsAt(Top(t).at) \in Int
        /\ LocksAt(x.at) = 0 /\ LocksAt(Top(t).at) \in Int
    BY <1>6 DEF RefsAt, LocksAt
  <2> QED  BY <1>6, <2>2, <2>3, <2>4
<1>12. Counts(s, stack[t], Top(t).b, Top(t), x, 0)
  BY <1>11 DEF Counts
<1> QED  BY <1>4, <1>5, <1>7, <1>8, <1>10, <1>12

\* or calls the release of a lock it has just taken.
LEMMA RunReleases ==
    ASSUME BlockInv, NEW t \in Threads, At(t, "run", "link"),
           Call(t, "unlink", Release(Top(t).b, FALSE))
    PROVE  \E s \in Seq(FrameSet) :
              /\ Moves(t, s) /\ StackOK(s) /\ s # <<>> /\ s[1].f = "release"
              /\ s[1].conts = <<>> /\ s[Len(s)] = [Top(t) EXCEPT !.at = "unlink"]
              /\ Counts(s, stack[t], Top(t).b, Top(t), [Top(t) EXCEPT !.at = "unlink"], 1)
<1>1. TypeInv
  BY DEF BlockInv
<1>2. /\ stack[t] # <<>> /\ stack[t] \in Seq(FrameSet) /\ Len(stack[t]) = 1 /\ stack[t][1] = Top(t)
      /\ RunFrame(Top(t)) /\ Top(t).b \in Blocks /\ Top(t).b \in Parents /\ Top(t) \in FrameSet
      /\ Top(t).at = "link"
  BY RunHere
<1>3. PICK y : y = Release(Top(t).b, FALSE)
  OBVIOUS
<1>4. /\ y \in FrameSet /\ y.f = "release" /\ y.b = Top(t).b /\ y.at = "sub"
      /\ y.conts = <<>> /\ y.parent = NoBlock
  <2>1. PICK v : v = FALSE
    OBVIOUS
  <2>2. v \in BOOLEAN /\ y = Release(Top(t).b, v)
    BY <1>3, <2>1
  <2> QED  BY <1>2, <2>2, NewFrame DEF Release
<1>5. PICK x : x = [Top(t) EXCEPT !.at = "unlink"]
  OBVIOUS
<1>6. /\ x \in FrameSet /\ x.f = Top(t).f /\ x.b = Top(t).b /\ x.at = "unlink" /\ x.k = Top(t).k
      /\ x.conts = Top(t).conts /\ x.parent = Top(t).parent
  BY <1>2, <1>5, GotoFrame
<1>7. PICK s \in Seq(FrameSet) :
              /\ Moves(t, s)
              /\ Len(s) = Len(stack[t]) + 1 /\ s[1] = y /\ s[2] = x
              /\ \A i \in 2..Len(stack[t]) : s[i + 1] = stack[t][i]
  <2>1. TypeInv /\ stack[t] # <<>> /\ y \in FrameSet /\ x \in FrameSet
    BY <1>1, <1>2, <1>4, <1>6
  <2>2. Call(t, "unlink", y) /\ [Top(t) EXCEPT !.at = "unlink"] \in FrameSet
    BY <1>3, <1>5, <1>6
  <2> QED  BY <2>1, <2>2, <1>5, CallMove
<1>8. Len(s) = 2 /\ s # <<>> /\ s[2] = x /\ s[Len(s)] = x
  BY <1>2, <1>5, <1>7, NonEmpty
<1>9. RunFrame(x) /\ ReleaseFrame(y, x.b)
  BY <1>2, <1>4, <1>6 DEF RunFrame, ReleaseFrame
<1>10. StackOK(s)
  BY <1>6, <1>7, <1>8, <1>9 DEF StackOK
<1>11. ASSUME NEW b \in Blocks
       PROVE  /\ G(s, b) = G(stack[t], b) + (IF b = Top(t).b THEN RefsAt(x.at) - RefsAt(Top(t).at) ELSE 0)
              /\ M(s, b) = M(stack[t], b) + (IF b = Top(t).b THEN LocksAt(x.at) + 1 - LocksAt(Top(t).at) ELSE 0)
  <2>1. /\ G(s, b) = (IF b = x.b /\ kind[b] = "task" THEN 1 ELSE 0) + (IF b = x.b /\ x.at \in InBody THEN 1 ELSE 0) + (IF b = x.b /\ x.at \in {"link", "unlink"} THEN 1 ELSE 0)
        /\ M(s, b) = (IF b = x.b /\ x.at \in InBody \cup {"self_lock"} THEN 1 ELSE 0) + (IF b = x.b /\ x.at = "link" THEN 1 ELSE 0) + (IF b = x.b THEN 1 ELSE 0)
    <3>1. Len(s) = 2 /\ RunFrame(s[2]) /\ ReleaseFrame(s[1], x.b) /\ s[2] = x
      BY <1>7, <1>8, <1>9
    <3>2. /\ G(s, b) = (IF b = s[2].b /\ kind[b] = "task" THEN 1 ELSE 0) + (IF b = s[2].b /\ s[2].at \in InBody THEN 1 ELSE 0) + (IF b = s[2].b /\ s[2].at \in {"link", "unlink"} THEN 1 ELSE 0)
          /\ M(s, b) = (IF b = s[2].b /\ s[2].at \in InBody \cup {"self_lock"} THEN 1 ELSE 0) + (IF b = s[2].b /\ s[2].at = "link" THEN 1 ELSE 0) + (IF b = x.b THEN 1 ELSE 0)
      BY <3>1, HasRunRelease
    <3> QED  BY <3>1, <3>2
  <2>2. /\ G(s, b) = (IF b = x.b THEN (IF kind[b] = "task" THEN 1 ELSE 0) + 2 ELSE 0)
        /\ M(s, b) = (IF b = x.b THEN 2 ELSE 0)
    BY <1>6, <2>1 DEF InBody
  <2>3. /\ G(stack[t], b) = (IF b = Top(t).b THEN (IF kind[b] = "task" THEN 1 ELSE 0) + RefsAt(Top(t).at) ELSE 0)
        /\ M(stack[t], b) = (IF b = Top(t).b THEN LocksAt(Top(t).at) ELSE 0)
    BY <1>2, RunWeight
  <2>4. RefsAt(x.at) = 2 /\ RefsAt(Top(t).at) = 2 /\ LocksAt(x.at) = 1 /\ LocksAt(Top(t).at) = 2
    BY <1>2, <1>6 DEF RefsAt, LocksAt
  <2> QED  BY <1>6, <2>2, <2>3, <2>4
<1>12. Counts(s, stack[t], Top(t).b, Top(t), x, 1)
  BY <1>11 DEF Counts
<1> QED  BY <1>4, <1>5, <1>7, <1>8, <1>10, <1>12

\* The dispatch of p on t has become y, and every other stack is as it was.
Steps(t, p, y) ==
    /\ Runs(t, p)' /\ Base(t)' = y /\ \A q \in Parents : Runs(t, q)' => q = p
    /\ \A u \in Threads : u # t =>
          /\ stack'[u] = stack[u] /\ Top(u)' = Top(u) /\ Base(u)' = Base(u)
          /\ \A q \in Blocks : (Settles(u, q)' <=> Settles(u, q)) /\ (Runs(u, q)' <=> Runs(u, q))

\* A move of a thread that runs p leaves the other stacks alone.
LEMMA RunSteps ==
    ASSUME BlockInv, NEW t \in Threads, NEW p \in Blocks, NEW s \in Seq(FrameSet), Moves(t, s), s # <<>>,
           s[Len(s)].f = "run", s[Len(s)].b = p
    PROVE  /\ Steps(t, p, s[Len(s)]) /\ Top(t)' = s[1]
           /\ \A q \in Blocks : Settles(t, q)' <=> s[1].f = "settle" /\ s[1].b = q
<1>1. TypeInv
  BY DEF BlockInv
<1>2. /\ stack' \in [Threads -> Seq(FrameSet)] /\ stack'[t] = s
      /\ s # <<>> => Top(t)' = s[1] /\ Base(t)' = s[Len(s)]
      /\ \A b \in Blocks : /\ Settles(t, b)' <=> s # <<>> /\ s[1].f = "settle" /\ s[1].b = b
                           /\ Runs(t, b)' <=> s # <<>> /\ s[Len(s)].f = "run" /\ s[Len(s)].b = b
      /\ \A u \in Threads : u # t =>
             /\ stack'[u] = stack[u] /\ Top(u)' = Top(u) /\ Base(u)' = Base(u)
             /\ \A b \in Blocks : (Settles(u, b)' <=> Settles(u, b)) /\ (Runs(u, b)' <=> Runs(u, b))
  BY <1>1, FrameMove
<1> QED  BY <1>2 DEF Steps, Blocks

\* The runs of bodies.
LEMMA RunInvStep ==
    ASSUME BlockInv, NEW t \in Threads, NEW a, At(t, "run", a), NEW p, p = Top(t).b, NEW y, Steps(t, p, y),
           y.at # "claim", queue' = queue, client' = client, kind' = kind, completed' = completed,
           body_claimed'[p] = TRUE,
           \A q \in Blocks : q # p => body_claimed'[q] = body_claimed[q] /\ num_locks'[q] = num_locks[q]
    PROVE  RunInv'
<1>1. TypeInv /\ RunInv
  BY DEF BlockInv
<1>2. /\ p \in Parents /\ p \in Blocks /\ p \notin queue /\ Runs(t, p) /\ stack[t] # <<>>
      /\ \A u \in Threads : Runs(u, p) => u = t
  BY RunHere
<1>3. /\ Runs(t, p)' /\ Base(t)' = y /\ \A q \in Parents : Runs(t, q)' => q = p
      /\ \A u \in Threads : u # t =>
            /\ stack'[u] = stack[u] /\ Base(u)' = Base(u) /\ \A q \in Blocks : Runs(u, q)' <=> Runs(u, q)
  BY DEF Steps
<1>4. \A q \in Parents, u \in Threads : Runs(u, q)' => \/ u = t /\ q = p
                                                       \/ u # t /\ q # p /\ Runs(u, q) /\ Base(u)' = Base(u)
  BY <1>2, <1>3 DEF Blocks
<1>5. ASSUME NEW q \in queue'
      PROVE  ~body_claimed'[q] /\ \A u \in Threads : ~Runs(u, q)'
  <2>1. q # p /\ q \in Parents /\ q \in Blocks
    BY <1>1, <1>2 DEF TypeInv, LinkType, Blocks
  <2> QED  BY <1>1, <1>4, <2>1 DEF RunInv
<1>6. ASSUME NEW q \in Parents, NEW u \in Threads, Runs(u, q)'
      PROVE  body_claimed'[q] <=> Base(u)'.at # "claim"
  <2>1. CASE u = t /\ q = p
    BY <1>3, <2>1
  <2>2. CASE u # t /\ q # p /\ Runs(u, q) /\ Base(u)' = Base(u)
    BY <1>1, <2>2 DEF RunInv, Blocks
  <2> QED  BY <1>4, <1>6, <2>1, <2>2
<1>7. \A q \in Parents, u, v \in Threads : Runs(u, q)' /\ Runs(v, q)' => u = v
  BY <1>1, <1>4 DEF RunInv
<1>8. \A q \in Parents : ~body_claimed'[q] => num_locks'[q] = 0 /\ ~completed'[q]
  BY <1>1 DEF RunInv, Blocks
<1>9. ASSUME NEW c \in Clients, client'[c] = "dormant"
      PROVE  /\ stack'[c] = <<>> /\ kind'[Handle[c]] = "op" /\ ~body_claimed'[Handle[c]]
             /\ Handle[c] \notin queue' /\ \A u \in Threads : ~Runs(u, Handle[c])'
  <2>1. /\ stack[c] = <<>> /\ kind[Handle[c]] = "op" /\ ~body_claimed[Handle[c]]
        /\ Handle[c] \notin queue /\ \A u \in Threads : ~Runs(u, Handle[c])
    BY <1>1, <1>9 DEF RunInv
  <2>2. c \in Threads /\ Handle[c] \in Blocks /\ c # t /\ Handle[c] # p
    BY <1>2, <2>1, ConstantFacts
  <2>3. Handle[c] \in Parents
    BY <1>1, <2>1, <2>2, OpIsParent
  <2> QED  BY <1>3, <1>4, <2>1, <2>2, <2>3
<1>10. /\ \A q \in queue' : ~body_claimed'[q] /\ \A u \in Threads : ~Runs(u, q)'
       /\ \A q \in Parents, u \in Threads : Runs(u, q)' => (body_claimed'[q] <=> Base(u)'.at # "claim")
  BY <1>5, <1>6
<1> QED  BY <1>7, <1>8, <1>9, <1>10 DEF RunInv

\* The bodies that are not destroyed.
LEMMA LivesStep ==
    ASSUME BlockInv, NEW t \in Threads, NEW a, At(t, "run", a), NEW p, p = Top(t).b, NEW y, Steps(t, p, y),
           client' = client, kind' = kind, body_claimed'[p] = TRUE,
           \A q \in Blocks : q # p => body_claimed'[q] = body_claimed[q]
    PROVE  /\ \A q \in Parents : q # p => (Lives(q)' <=> Lives(q))
           /\ kind[p] # "task" => (Lives(p)' <=> Lives(p))
           /\ kind[p] = "task" => /\ Lives(p)' <=> y.at \in InBody
                                  /\ Lives(p) <=> a \in InBody \cup {"claim"}
<1>1. /\ p \in Parents /\ p \in Blocks /\ Runs(t, p) /\ Base(t).at = a
      /\ (body_claimed[p] <=> a # "claim")
      /\ \A u \in Threads : Runs(u, p) => u = t
  BY RunHere
<1>2. /\ Runs(t, p)' /\ Base(t)' = y /\ \A q \in Parents : Runs(t, q)' => q = p
      /\ \A u \in Threads : u # t =>
            /\ Base(u)' = Base(u) /\ \A q \in Blocks : Runs(u, q)' <=> Runs(u, q)
  BY DEF Steps
<1>3. ASSUME NEW q \in Parents
      PROVE  (\E c \in Holders(q) : client'[c] # "gone") <=> (\E c \in Holders(q) : client[c] # "gone")
  OBVIOUS
<1>4. ASSUME NEW q \in Parents, q # p
      PROVE  Lives(q)' <=> Lives(q)
  <2>1. q \in Blocks /\ body_claimed'[q] = body_claimed[q] /\ kind'[q] = kind[q] /\ ~Runs(t, q) /\ ~Runs(t, q)'
    BY <1>1, <1>2, <1>4 DEF Blocks, Runs
  <2>2. (\E u \in Threads : Runs(u, q)' /\ Base(u)'.at \in InBody)
            <=> (\E u \in Threads : Runs(u, q) /\ Base(u).at \in InBody)
    BY <1>2, <2>1
  <2>3. Lives(q)' <=> /\ kind'[q] = "task" /\ body_claimed'[q] => \E u \in Threads : Runs(u, q)' /\ Base(u)'.at \in InBody
                      /\ kind'[q] = "op" => \E c \in Holders(q) : client'[c] # "gone"
    BY DEF Lives, Holders, InBody
  <2> QED  BY <1>3, <2>1, <2>2, <2>3 DEF Lives
<1>5. Lives(p)' <=> /\ kind'[p] = "task" /\ body_claimed'[p] => \E u \in Threads : Runs(u, p)' /\ Base(u)'.at \in InBody
                    /\ kind'[p] = "op" => \E c \in Holders(p) : client'[c] # "gone"
  BY DEF Lives, Holders, InBody
<1>6. kind[p] # "task" => (Lives(p)' <=> Lives(p))
  BY <1>1, <1>3, <1>5 DEF Lives
<1>7. ASSUME kind[p] = "task"
      PROVE  /\ Lives(p)' <=> y.at \in InBody
             /\ Lives(p) <=> a \in InBody \cup {"claim"}
  <2>1. \A u \in Threads : Runs(u, p)' => u = t
    BY <1>1, <1>2
  <2>2. Lives(p)' <=> y.at \in InBody
    BY <1>2, <1>5, <1>7, <2>1
  <2>3. Lives(p) <=> (body_claimed[p] => \E u \in Threads : Runs(u, p) /\ Base(u).at \in InBody)
    BY <1>7 DEF Lives
  <2>4. (\E u \in Threads : Runs(u, p) /\ Base(u).at \in InBody) <=> a \in InBody
    BY <1>1
  <2> QED  BY <1>1, <2>2, <2>3, <2>4
<1> QED  BY <1>4, <1>6, <1>7

\* The links of children.
LEMMA ChildInvStep ==
    ASSUME BlockInv, NEW t \in Threads, NEW a, At(t, "run", a), NEW p, p = Top(t).b, NEW y, Steps(t, p, y),
           completed' = completed, y.k \in Nat, y.k >= Top(t).k,
           \A c \in Children : \/ nested_parent'[c] = nested_parent[c]
                               \/ /\ nested_parent'[c] = p /\ ~completed[c]
                                  /\ \E i \in DOMAIN Nested[p] : c = Nested[p][i] /\ i <= y.k,
           \A q \in Parents, c \in Children : q # p => (nested_parent'[c] = q <=> nested_parent[c] = q),
           \A q \in Parents : nested_parent'[q] = nested_parent[q],
           \A q \in Blocks : q # p => num_locks'[q] = num_locks[q],
           \A i \in DOMAIN Nested[p] : num_locks'[p] > 0 =>
                \/ completed[Nested[p][i]] \/ nested_parent'[Nested[p][i]] = p
                \/ y.at \in InBody /\ i > y.k,
           y.at = "unlink" => completed[Nested[p][y.k + 1]]
    PROVE  ChildInv'
<1>1. TypeInv /\ ChildInv
  BY DEF BlockInv
<1>2. /\ p \in Parents /\ p \in Blocks /\ Runs(t, p) /\ Base(t) = Top(t) /\ Base(t) \in FrameSet
      /\ \A u \in Threads : Runs(u, p) => u = t
  BY RunHere
<1>3. /\ Runs(t, p)' /\ Base(t)' = y /\ \A q \in Parents : Runs(t, q)' => q = p
      /\ \A u \in Threads : u # t =>
            /\ Base(u)' = Base(u) /\ \A q \in Blocks : Runs(u, q)' <=> Runs(u, q)
  BY DEF Steps
<1>4. \A q \in Parents, u \in Threads : Runs(u, q)' => \/ u = t /\ q = p
                                                       \/ u # t /\ q # p /\ Runs(u, q) /\ Base(u)' = Base(u)
  BY <1>2, <1>3 DEF Blocks
<1>5. \A q \in Parents, u \in Threads : q # p /\ Runs(u, q) => Runs(u, q)' /\ Base(u)' = Base(u)
  BY <1>2, <1>3 DEF Blocks, Runs
<1>6. Base(t).k \in Nat
  BY <1>2 DEF FrameSet
<1>7. ASSUME NEW c \in Children, NEW q \in Parents, nested_parent'[c] = q
      PROVE  /\ ~completed'[c]
             /\ \E i \in DOMAIN Nested[q] : /\ c = Nested[q][i]
                                            /\ \A u \in Threads : Runs(u, q)' => i <= Base(u)'.k
  <2>1. CASE nested_parent[c] = q
    <3>1. PICK i \in DOMAIN Nested[q] : c = Nested[q][i] /\ \A u \in Threads : Runs(u, q) => i <= Base(u).k
      BY <1>1, <2>1 DEF ChildInv
    <3>2. ~completed'[c]
      BY <1>1, <2>1 DEF ChildInv
    <3>3. i \in Nat
      BY NestedFacts
    <3>4. ASSUME NEW u \in Threads, Runs(u, q)'
          PROVE  i <= Base(u)'.k
      <4>1. CASE u = t /\ q = p
        <5>1. i <= Base(t).k
          BY <1>2, <3>1, <4>1
        <5>2. i <= y.k
          BY <1>2, <1>6, <3>3, <5>1
        <5> QED  BY <1>3, <4>1, <5>2
      <4>2. CASE u # t /\ q # p /\ Runs(u, q) /\ Base(u)' = Base(u)
        BY <3>1, <4>2
      <4> QED  BY <1>4, <3>4, <4>1, <4>2
    <3> QED  BY <3>1, <3>2, <3>4
  <2>2. CASE nested_parent[c] # q
    <3>1. q = p /\ ~completed[c]
      BY <1>7, <2>2
    <3>2. PICK i \in DOMAIN Nested[p] : c = Nested[p][i] /\ i <= y.k
      BY <1>7, <2>2
    <3>3. \A u \in Threads : Runs(u, q)' => i <= Base(u)'.k
      BY <1>3, <1>4, <3>1, <3>2
    <3> QED  BY <3>1, <3>2, <3>3
  <2> QED  BY <2>1, <2>2
<1>8. \A q \in Parents : nested_parent'[q] = NoBlock
  BY <1>1 DEF ChildInv
<1>9. ASSUME NEW q \in Parents, num_locks'[q] > 0, NEW i \in DOMAIN Nested[q]
      PROVE  \/ completed'[Nested[q][i]] \/ nested_parent'[Nested[q][i]] = q
             \/ \E u \in Threads : Runs(u, q)' /\ Base(u)'.at \in InBody /\ i > Base(u)'.k
  <2>1. CASE q = p
    BY <1>3, <1>9, <2>1
  <2>2. CASE q # p
    <3>1. q \in Blocks /\ num_locks[q] > 0 /\ Nested[q][i] \in Children
      BY <1>9, <2>2, NestedFacts DEF Blocks
    <3>2. \/ completed[Nested[q][i]] \/ nested_parent[Nested[q][i]] = q
          \/ \E u \in Threads : Runs(u, q) /\ Base(u).at \in InBody /\ i > Base(u).k
      BY <1>1, <3>1 DEF ChildInv
    <3>3. nested_parent[Nested[q][i]] = q => nested_parent'[Nested[q][i]] = q
      BY <2>2, <3>1
    <3> QED  BY <1>5, <2>2, <3>2, <3>3
  <2> QED  BY <2>1, <2>2
<1>10. ASSUME NEW q \in Parents, NEW u \in Threads, Runs(u, q)', Base(u)'.at = "unlink"
       PROVE  completed'[Nested[q][Base(u)'.k + 1]]
  <2>1. CASE u = t /\ q = p
    BY <1>3, <1>10, <2>1
  <2>2. CASE u # t /\ q # p /\ Runs(u, q) /\ Base(u)' = Base(u)
    BY <1>1, <1>10, <2>2 DEF ChildInv
  <2> QED  BY <1>4, <1>10, <2>1, <2>2
<1>11. InBody' = InBody
  BY DEF InBody
<1> QED  BY <1>7, <1>8, <1>9, <1>10, <1>11 DEF ChildInv

\* The settles of parents.
LEMMA SettleInvStep ==
    ASSUME BlockInv, NEW t \in Threads, NEW a, At(t, "run", a), NEW p, p = Top(t).b, a # "drop",
           NEW y, Steps(t, p, y), completed' = completed, cancelled' = cancelled,
           \A q \in Blocks : q # p => /\ num_locks'[q] = num_locks[q] /\ body_claimed'[q] = body_claimed[q]
                                      /\ StackLocks(q)' = StackLocks(q) /\ Linked(q)' = Linked(q),
           \A q \in Parents : Settles(t, q)' =>
                /\ q = p /\ Top(t)'.at = "lock" /\ body_claimed'[p] /\ StackLocks(p)' = 0 /\ Linked(p)' = {}
                /\ ~Top(t)'.cancel => num_locks'[p] > 0
    PROVE  SettleInv'
<1>1. TypeInv /\ SettleInv
  BY DEF BlockInv
<1>2. p \in Parents /\ p \in Blocks /\ Runs(t, p)
  BY RunHere
<1>3. ~completed[p] /\ \A u \in Threads : ~Settles(u, p)
  BY RunUnsettled
<1>4. \A u \in Threads : u # t => Top(u)' = Top(u) /\ \A q \in Blocks : Settles(u, q)' <=> Settles(u, q)
  BY DEF Steps
<1>5. ASSUME NEW q \in Parents, q # p
      PROVE  SettleOK(q)'
  <2>1. SettleOK(q) /\ q \in Blocks
    BY <1>1 DEF SettleInv, Blocks
  <2>2. \A u \in Threads : Settles(u, q)' =>
                /\ Settles(u, q) /\ (Top(u)'.at = "lock" <=> Top(u).at = "lock")
                /\ Top(u)'.cancel = Top(u).cancel
    BY <1>4, <1>5, <2>1
  <2> QED  BY <1>5, <2>1, <2>2, SettleKept
<1>6. SettleOK(p)'
  <2>1. \A u \in Threads : Settles(u, p)' => u = t
    BY <1>2, <1>3, <1>4
  <2> QED  BY <1>2, <1>3, <2>1 DEF SettleOK
<1> QED  BY <1>5, <1>6 DEF SettleInv

\* Owners of accesses.
LEMMA OwnerInvStep ==
    ASSUME BlockInv, NEW t \in Threads, NEW a, At(t, "run", a), NEW p, p = Top(t).b, a # "drop",
           NEW y, Steps(t, p, y), completed' = completed, client' = client, kind' = kind,
           \A q \in Blocks : q # p => /\ num_locks'[q] = num_locks[q]
                                      /\ settle_synchronously'[q] = settle_synchronously[q],
           settle_synchronously'[p] => settle_synchronously[p],
           kind[p] = "op" => (y.at # "drop" \/ Settles(t, p)' \/ ~settle_synchronously'[p]),
           y.at = "self_lock" /\ settle_synchronously'[p] => num_locks'[p] = ExecutionFlag + 1
    PROVE  OwnerInv'
<1>1. TypeInv /\ OwnerInv
  BY DEF BlockInv
<1>2. /\ p \in Parents /\ p \in Blocks /\ Runs(t, p) /\ Top(t).f = "run"
      /\ \A u \in Threads : Runs(u, p) => u = t
  BY RunHere
<1>3. ~completed[p] /\ \A u \in Threads : ~Settles(u, p)
  BY RunUnsettled
<1>4. /\ Runs(t, p)' /\ Base(t)' = y /\ \A q \in Parents : Runs(t, q)' => q = p
      /\ \A u \in Threads : u # t =>
            /\ Base(u)' = Base(u) /\ \A q \in Blocks : Runs(u, q)' <=> Runs(u, q)
            /\ \A q \in Blocks : Settles(u, q)' <=> Settles(u, q)
  BY DEF Steps
<1>5. ASSUME NEW c \in Clients, kind[Handle[c]] = "op"
      PROVE  OwnerOK(c)'
  <2>1. Handle[c] \in Parents /\ c \in Threads /\ Handle[c] \in Blocks /\ OwnerOK(c)
    BY <1>1, <1>5, OpIsParent, ConstantFacts DEF OwnerInv
  <2>2. CASE Handle[c] # p
    <3>1. /\ num_locks'[Handle[c]] = num_locks[Handle[c]]
          /\ settle_synchronously'[Handle[c]] = settle_synchronously[Handle[c]]
      BY <2>1, <2>2
    <3>2. ~Runs(t, Handle[c]) /\ ~Runs(t, Handle[c])' /\ ~Settles(t, Handle[c])
      BY <1>2, <1>4, <2>1, <2>2, RunHere DEF Settles, Runs
    <3>3. /\ Runs(c, Handle[c]) /\ Base(c).at # "drop" => Runs(c, Handle[c])' /\ Base(c)'.at # "drop"
          /\ Settles(c, Handle[c]) => Settles(c, Handle[c])'
      BY <1>4, <2>1, <3>2
    <3>4. \A u \in Threads : Runs(u, Handle[c])' => Runs(u, Handle[c]) /\ Base(u)' = Base(u)
      BY <1>4, <2>1, <3>2
    <3> QED  BY <2>1, <3>1, <3>3, <3>4 DEF OwnerOK
  <2>3. CASE Handle[c] = p
    <3>1. settle_synchronously'[p] => c = t
      BY <1>2, <1>3, <2>1, <2>3 DEF OwnerOK
    <3>2. \A u \in Threads : Runs(u, p)' => u = t
      BY <1>2, <1>4
    <3> QED  BY <1>2, <1>3, <1>4, <1>5, <2>1, <2>3, <3>1, <3>2 DEF OwnerOK
  <2> QED  BY <2>2, <2>3
<1> QED  BY <1>5 DEF OwnerInv

\* A step of one thread keeps every variable's type.
LEMMA TypeStep ==
    ASSUME TypeInv, NEW t \in Threads, NEW s \in Seq(FrameSet), Moves(t, s), StackOK(s),
           UNCHANGED <<kind, completed, cancelled, prereq_cancelled, continuations>>,
           num_locks' \in [Blocks -> Int], \A c \in Children : num_locks'[c] = num_locks[c],
           refcount' \in [Blocks -> Int], body_claimed' \in [Blocks -> BOOLEAN],
           settle_synchronously' \in [Blocks -> BOOLEAN],
           nested_parent' \in [Blocks -> Parents \cup {NoBlock}], queue' \subseteq Parents,
           client' \in [Clients -> {"dormant", "idle", "blocked", "attached", "served", "gone"}]
    PROVE  TypeInv'
<1>1. CountType'
  BY DEF TypeInv, CountType
<1>2. FlagType'
  BY DEF TypeInv, FlagType
<1>3. LinkType'
  BY DEF TypeInv, LinkType
<1>4. KindType'
  BY DEF TypeInv, KindType, Holders
<1>5. StackType'
  BY StackTypeKept
<1> QED  BY <1>1, <1>2, <1>3, <1>4, <1>5 DEF TypeInv

\* Taking and dropping references.
LEMMA PlusFacts ==
    ASSUME NEW rc \in [Blocks -> Int], NEW b \in Blocks
    PROVE  /\ Plus(rc, b) \in [Blocks -> Int] /\ Minus(rc, b) \in [Blocks -> Int]
           /\ \A x \in Blocks : /\ Plus(rc, b)[x] = rc[x] + (IF x = b /\ Counted(x) THEN 1 ELSE 0)
                                /\ Minus(rc, b)[x] = rc[x] - (IF x = b /\ Counted(x) THEN 1 ELSE 0)
<1>1. Plus(rc, b) \in [Blocks -> Int] /\ Minus(rc, b) \in [Blocks -> Int]
  BY DEF Plus, Minus
<1>2. ASSUME NEW x \in Blocks
      PROVE  /\ Plus(rc, b)[x] = rc[x] + (IF x = b /\ Counted(x) THEN 1 ELSE 0)
             /\ Minus(rc, b)[x] = rc[x] - (IF x = b /\ Counted(x) THEN 1 ELSE 0)
  <2>1. rc[x] \in Int
    OBVIOUS
  <2>2. CASE Counted(b)
    BY <2>1, <2>2 DEF Plus, Minus
  <2>3. CASE ~Counted(b)
    BY <2>1, <2>3 DEF Plus, Minus
  <2> QED  BY <2>2, <2>3
<1> QED  BY <1>1, <1>2

\* Dropping one reference to each block of a set.
LEMMA MinusAllFacts ==
    ASSUME NEW rc \in [Blocks -> Int], NEW S
    PROVE  /\ MinusAll(rc, S) \in [Blocks -> Int]
           /\ \A x \in Blocks : MinusAll(rc, S)[x] = rc[x] - (IF x \in S THEN 1 ELSE 0)
  BY DEF MinusAll

\* Destroying a body drops the references it captured.
LEMMA DestroyFacts ==
    ASSUME NEW rc \in [Blocks -> Int], NEW b \in Blocks
    PROVE  /\ DestroyBody(rc, b) \in [Blocks -> Int]
           /\ \A x \in Blocks : DestroyBody(rc, b)[x] =
                    rc[x] - (IF kind[b] = "task" /\ x \in Range(Nested[b]) THEN 1 ELSE 0)
<1>1. CASE kind[b] = "task"
  BY <1>1, MinusAllFacts DEF DestroyBody
<1>2. CASE kind[b] # "task"
  BY <1>2 DEF DestroyBody
<1> QED  BY <1>1, <1>2

\* The counts of frames after a step of a dispatch.
LEMMA CountsMove ==
    ASSUME BlockInv, NEW t \in Threads, NEW s \in Seq(FrameSet), Moves(t, s), StackOK(s), kind' = kind,
           NEW p, NEW x, NEW y, NEW n \in Int, Counts(s, stack[t], p, x, y, n), NEW b \in Blocks
    PROVE  /\ StackRefs(b) \in Nat /\ StackLocks(b) \in Nat
           /\ StackRefs(b)' = StackRefs(b) + (IF b = p THEN RefsAt(y.at) - RefsAt(x.at) ELSE 0)
           /\ StackLocks(b)' = StackLocks(b) + (IF b = p THEN LocksAt(y.at) + n - LocksAt(x.at) ELSE 0)
<1>1. TypeInv
  BY DEF BlockInv
<1>2. /\ StackRefs(b) \in Nat /\ StackLocks(b) \in Nat
      /\ StackRefs(b)' = StackRefs(b) + G(s, b) - G(stack[t], b)
      /\ StackLocks(b)' = StackLocks(b) + M(s, b) - M(stack[t], b)
  BY <1>1, StackMove
<1>3. G(stack[t], b) \in Int /\ M(stack[t], b) \in Int
  BY WeightInt
<1>4. /\ G(s, b) = G(stack[t], b) + (IF b = p THEN RefsAt(y.at) - RefsAt(x.at) ELSE 0)
      /\ M(s, b) = M(stack[t], b) + (IF b = p THEN LocksAt(y.at) + n - LocksAt(x.at) ELSE 0)
  BY DEF Counts
<1>5. PICK d \in Int, e \in Int :
            /\ d = (IF b = p THEN RefsAt(y.at) - RefsAt(x.at) ELSE 0)
            /\ e = (IF b = p THEN LocksAt(y.at) + n - LocksAt(x.at) ELSE 0)
  <2>1. RefsAt(y.at) \in Int /\ RefsAt(x.at) \in Int /\ LocksAt(y.at) \in Int /\ LocksAt(x.at) \in Int
    BY DEF RefsAt, LocksAt
  <2> QED  BY <2>1
<1>6. G(s, b) = G(stack[t], b) + d /\ M(s, b) = M(stack[t], b) + e
  BY <1>4, <1>5
<1>7. StackRefs(b)' = StackRefs(b) + d /\ StackLocks(b)' = StackLocks(b) + e
  BY <1>2, <1>3, <1>6
<1> QED  BY <1>2, <1>5, <1>7

\* A step of a dispatch.
Elsewhere(p) ==
    \A q \in Blocks : q # p =>
        /\ num_locks'[q] = num_locks[q] /\ body_claimed'[q] = body_claimed[q]
        /\ settle_synchronously'[q] = settle_synchronously[q]
        /\ StackLocks(q)' = StackLocks(q) /\ Linked(q)' = Linked(q)
Typed ==
    /\ num_locks' \in [Blocks -> Int] /\ refcount' \in [Blocks -> Int]
    /\ body_claimed' \in [Blocks -> BOOLEAN] /\ settle_synchronously' \in [Blocks -> BOOLEAN]
    /\ nested_parent' \in [Blocks -> Parents \cup {NoBlock}]
LocksOK(p) ==
    \/ num_locks[p] = 0 /\ StackLocks(p) + Cardinality(Linked(p)) = 0
    \/ num_locks[p] = ExecutionFlag + StackLocks(p) + Cardinality(Linked(p))
LinksTo(p, y) ==
    /\ \A c \in Children : \/ nested_parent'[c] = nested_parent[c]
                           \/ /\ nested_parent'[c] = p /\ ~completed[c]
                              /\ \E i \in DOMAIN Nested[p] : c = Nested[p][i] /\ i <= y.k
    /\ \A q \in Parents : nested_parent'[q] = nested_parent[q]
    /\ \A i \in DOMAIN Nested[p] : num_locks'[p] > 0 =>
                \/ completed[Nested[p][i]] \/ nested_parent'[Nested[p][i]] = p
                \/ y.at \in InBody /\ i > y.k
    /\ y.at = "unlink" => completed[Nested[p][y.k + 1]]
MayComplete(p, y, x) ==
    /\ x.f = "settle" => /\ x.b = p /\ x.at = "lock" /\ StackLocks(p)' = 0 /\ Linked(p)' = {}
                         /\ ~x.cancel => num_locks'[p] > 0
    /\ settle_synchronously'[p] => settle_synchronously[p]
    /\ kind[p] = "op" => (y.at # "drop" \/ x.f = "settle" \/ ~settle_synchronously'[p])
    /\ y.at = "self_lock" /\ settle_synchronously'[p] => num_locks'[p] = ExecutionFlag + 1

\* A step of a dispatch that keeps the counts and the links of its own block keeps the
\* invariant.
LEMMA RunStep ==
    ASSUME BlockInv, NEW t \in Threads, NEW a, At(t, "run", a), a # "drop", NEW p, p = Top(t).b,
           NEW s \in Seq(FrameSet), Moves(t, s), StackOK(s), s # <<>>, s[1].conts = <<>>,
           NEW y, s[Len(s)] = y, y.f = "run", y.b = p, y.at # "claim", y.k \in Nat, y.k >= Top(t).k,
           UNCHANGED <<kind, completed, cancelled, prereq_cancelled, continuations, queue, client>>,
           Typed, RefsInv', LocksOK(p)', body_claimed'[p] = TRUE, Elsewhere(p), LinksTo(p, y),
           MayComplete(p, y, s[1])
    PROVE  BlockInv'
<1>0. /\ kind' = kind /\ completed' = completed /\ cancelled' = cancelled /\ client' = client
      /\ prereq_cancelled' = prereq_cancelled /\ continuations' = continuations /\ queue' = queue
  OBVIOUS
<1>1. TypeInv /\ RefsInv /\ LocksInv /\ RunInv /\ SettleInv /\ ChildInv /\ AttachInv /\ OwnerInv
  BY DEF BlockInv
<1>2. p \in Parents /\ p \in Blocks /\ p \notin Children
  BY RunHere
<1>3. /\ Steps(t, p, y) /\ Top(t)' = s[1]
      /\ \A q \in Blocks : Settles(t, q)' <=> s[1].f = "settle" /\ s[1].b = q
  BY <1>2, RunSteps
<1>4. \A q \in Blocks : q # p =>
        /\ num_locks'[q] = num_locks[q] /\ body_claimed'[q] = body_claimed[q]
        /\ settle_synchronously'[q] = settle_synchronously[q]
        /\ StackLocks(q)' = StackLocks(q) /\ Linked(q)' = Linked(q)
  BY DEF Elsewhere
<1>5. TypeInv'
  <2>1. /\ num_locks' \in [Blocks -> Int] /\ refcount' \in [Blocks -> Int]
        /\ body_claimed' \in [Blocks -> BOOLEAN] /\ settle_synchronously' \in [Blocks -> BOOLEAN]
        /\ nested_parent' \in [Blocks -> Parents \cup {NoBlock}]
    BY DEF Typed
  <2>2. \A c \in Children : num_locks'[c] = num_locks[c]
    BY <1>2, <1>4 DEF Blocks
  <2>3. /\ queue' \subseteq Parents
        /\ client' \in [Clients -> {"dormant", "idle", "blocked", "attached", "served", "gone"}]
    BY <1>0, <1>1 DEF TypeInv, LinkType
  <2> QED  BY <1>0, <1>1, <2>1, <2>2, <2>3, TypeStep
<1>6. LocksInv'
  <2>1. ASSUME NEW q \in Parents
        PROVE  LocksOK(q)'
    <3>1. CASE q = p
      BY <3>1
    <3>2. CASE q # p
      <4>1. LocksOK(q) /\ q \in Blocks
        BY <1>1 DEF LocksInv, LocksOK, Blocks
      <4> QED  BY <1>4, <3>2, <4>1 DEF LocksOK
    <3> QED  BY <3>1, <3>2
  <2> QED  BY <2>1 DEF LocksInv, LocksOK
<1>7. RunInv'
  BY <1>0, <1>3, <1>4, RunInvStep
<1>8. SettleInv'
  <2>1. \A q \in Parents : Settles(t, q)' =>
                /\ q = p /\ Top(t)'.at = "lock" /\ body_claimed'[p] /\ StackLocks(p)' = 0 /\ Linked(p)' = {}
                /\ ~Top(t)'.cancel => num_locks'[p] > 0
    BY <1>3 DEF MayComplete, Blocks
  <2>2. \A q \in Blocks : q # p => /\ num_locks'[q] = num_locks[q] /\ body_claimed'[q] = body_claimed[q]
                                      /\ StackLocks(q)' = StackLocks(q) /\ Linked(q)' = Linked(q)
    BY <1>4
  <2>3. Steps(t, p, y) /\ completed' = completed /\ cancelled' = cancelled
    BY <1>0, <1>3
  <2> QED  BY <2>1, <2>2, <2>3, SettleInvStep
<1>9. ChildInv'
  <2>1. \A c \in Children : \/ nested_parent'[c] = nested_parent[c]
                            \/ /\ nested_parent'[c] = p /\ ~completed[c]
                               /\ \E i \in DOMAIN Nested[p] : c = Nested[p][i] /\ i <= y.k
    BY DEF LinksTo
  <2>2. \A q \in Parents : nested_parent'[q] = nested_parent[q]
    BY DEF LinksTo
  <2>3. \A i \in DOMAIN Nested[p] : num_locks'[p] > 0 =>
                \/ completed[Nested[p][i]] \/ nested_parent'[Nested[p][i]] = p
                \/ y.at \in InBody /\ i > y.k
    BY DEF LinksTo
  <2>4. y.at = "unlink" => completed[Nested[p][y.k + 1]]
    BY DEF LinksTo
  <2>5. \A q \in Parents, c \in Children : q # p => (nested_parent'[c] = q <=> nested_parent[c] = q)
    BY <1>4 DEF Linked, Blocks
  <2> QED  BY <1>0, <1>3, <1>4, <2>1, <2>2, <2>3, <2>4, <2>5, ChildInvStep
<1>10. OwnerInv'
  <2>1. /\ settle_synchronously'[p] => settle_synchronously[p]
        /\ kind[p] = "op" => (y.at # "drop" \/ Settles(t, p)' \/ ~settle_synchronously'[p])
        /\ y.at = "self_lock" /\ settle_synchronously'[p] => num_locks'[p] = ExecutionFlag + 1
    BY <1>2, <1>3 DEF MayComplete
  <2> QED  BY <1>0, <1>3, <1>4, <2>1, OwnerInvStep
<1>11. AttachInv'
  <2>1. \A x \in Blocks : (completed[x] => completed'[x]) /\ (continuations[x] # <<>> => ~completed'[x])
    BY <1>0, <1>1 DEF AttachInv, ContsOK
  <2> QED  BY <1>0, <1>1, <2>1, AttachMove
<1> QED  BY <1>5, <1>6, <1>7, <1>8, <1>9, <1>10, <1>11 DEF BlockInv

\* The frame of a dispatch that has attached one more child.
Attached(x) == [x EXCEPT !.k = @ + 1, !.at = "body"]

\* A run that has attached a child is in its body, one child further.
LEMMA NextFrame ==
    ASSUME NEW x, x \in FrameSet
    PROVE  /\ Attached(x) \in FrameSet /\ Attached(x).f = x.f /\ Attached(x).b = x.b
           /\ Attached(x).at = "body" /\ Attached(x).k = x.k + 1 /\ x.k \in Nat
           /\ Attached(x).conts = x.conts /\ Attached(x).parent = x.parent
<1>1. x.k \in Nat /\ x.k + 1 \in Nat
  BY DEF FrameSet
<1>2. PICK n \in Nat : n = x.k + 1
  BY <1>1
<1>3. Attached(x) = [x EXCEPT !.k = n, !.at = "body"]
  BY <1>2 DEF Attached
<1>4. LET y == [x EXCEPT !.k = n, !.at = "body"] IN
           /\ y \in FrameSet /\ y.f = x.f /\ y.b = x.b /\ y.at = "body" /\ y.k = n
           /\ y.conts = x.conts /\ y.parent = x.parent
  BY DEF FrameSet
<1> QED  BY <1>1, <1>2, <1>3, <1>4

\* Of the children of a body with a lock, which are linked.
LEMMA ChildFacts ==
    ASSUME BlockInv, NEW t \in Threads, NEW a, At(t, "run", a), NEW p, p = Top(t).b, num_locks[p] > 0,
           NEW i \in DOMAIN Nested[p]
    PROVE  \/ completed[Nested[p][i]] \/ nested_parent[Nested[p][i]] = p
           \/ a \in InBody /\ i > Top(t).k
<1>1. ChildInv
  BY DEF BlockInv
<1>2. /\ p \in Parents /\ Base(t) = Top(t) /\ Top(t).at = a
      /\ \A u \in Threads : Runs(u, p) => u = t
  BY RunHere
<1>3. \/ completed[Nested[p][i]] \/ nested_parent[Nested[p][i]] = p
      \/ \E u \in Threads : Runs(u, p) /\ Base(u).at \in InBody /\ i > Base(u).k
  BY <1>1, <1>2 DEF ChildInv
<1> QED  BY <1>2, <1>3

\* The frames' references to p have moved by d, and their locks by e.
CountsBy(p, d, e) ==
    \A b \in Blocks : /\ StackRefs(b) \in Nat /\ StackLocks(b) \in Nat
                      /\ StackRefs(b)' = StackRefs(b) + (IF b = p THEN d ELSE 0)
                      /\ StackLocks(b)' = StackLocks(b) + (IF b = p THEN e ELSE 0)

\* A move between two positions of a dispatch moves the counts by what the positions hold.
LEMMA CountsByMove ==
    ASSUME BlockInv, NEW t \in Threads, NEW s \in Seq(FrameSet), Moves(t, s), StackOK(s), kind' = kind,
           NEW p, NEW x, NEW y, NEW n \in Int, Counts(s, stack[t], p, x, y, n)
    PROVE  CountsBy(p, RefsAt(y.at) - RefsAt(x.at), LocksAt(y.at) + n - LocksAt(x.at))
<1>1. ASSUME NEW b \in Blocks
      PROVE  /\ StackRefs(b) \in Nat /\ StackLocks(b) \in Nat
             /\ StackRefs(b)' = StackRefs(b) + (IF b = p THEN RefsAt(y.at) - RefsAt(x.at) ELSE 0)
             /\ StackLocks(b)' = StackLocks(b) + (IF b = p THEN LocksAt(y.at) + n - LocksAt(x.at) ELSE 0)
  BY ZenonT(60), CountsMove
<1> QED  BY <1>1 DEF CountsBy

\* A step of a dispatch that leaves the locks and flags of other blocks and the links alone.
LEMMA ElsewhereKept ==
    ASSUME NEW p, NEW d, NEW e, CountsBy(p, d, e), nested_parent' = nested_parent,
           \A q \in Blocks : q # p => body_claimed'[q] = body_claimed[q],
           \A q \in Blocks : q # p => num_locks'[q] = num_locks[q] /\ settle_synchronously'[q] = settle_synchronously[q]
    PROVE  Elsewhere(p) /\ \A q \in Blocks : Linked(q)' = Linked(q)
<1>1. \A q \in Blocks : Linked(q)' = Linked(q)
  BY DEF Linked
<1>2. ASSUME NEW q \in Blocks, q # p
      PROVE  StackLocks(q)' = StackLocks(q)
  <2>1. StackLocks(q) \in Nat /\ StackLocks(q)' = StackLocks(q) + 0
    BY <1>2 DEF CountsBy
  <2> QED  BY <2>1
<1> QED  BY <1>1, <1>2 DEF Elsewhere

\* The locks of a block whose body is still to be left, in numbers.
LEMMA RunLocked ==
    ASSUME BlockInv, NEW t \in Threads, NEW a, At(t, "run", a), a # "drop", NEW p, p = Top(t).b,
           NEW n, NEW l, NEW f, n = StackLocks(p), l = Cardinality(Linked(p)), f = ExecutionFlag
    PROVE  /\ n \in Nat /\ l \in Nat /\ f \in Nat /\ f > 1 /\ num_locks[p] \in Int
           /\ a = "claim" => num_locks[p] = 0 /\ n = 0 /\ Linked(p) = {}
           /\ a # "claim" => n >= 1 /\ num_locks[p] = f + n + l /\ num_locks[p] > 0
  BY RunUnsettled

\* A dispatch that goes on to another position of its own.
LEMMA RunGoesOn ==
    ASSUME BlockInv, NEW t \in Threads, NEW a, At(t, "run", a), NEW p, p = Top(t).b,
           NEW y, y \in FrameSet, Put(t, y), RunFrame(y), y.b = p, kind' = kind,
           NEW d \in Int, NEW e \in Int, d = RefsAt(y.at) - RefsAt(a), e = LocksAt(y.at) - LocksAt(a)
    PROVE  \E s \in Seq(FrameSet) :
              /\ Moves(t, s) /\ StackOK(s) /\ s # <<>> /\ s[1] = y /\ s[Len(s)] = y
              /\ Steps(t, p, y) /\ CountsBy(p, d, e)
<1>1. PICK s \in Seq(FrameSet) :
              /\ Moves(t, s) /\ StackOK(s) /\ s # <<>> /\ s[1] = y /\ s[Len(s)] = y
              /\ Counts(s, stack[t], Top(t).b, Top(t), y, 0)
  BY RunGoes
<1>2. p \in Blocks /\ y.f = "run" /\ Top(t).at = a
  BY RunHere DEF RunFrame
<1>3. Steps(t, p, y)
  BY <1>1, <1>2, RunSteps
<1>4. CountsBy(p, d, e)
  <2>0. PICK n \in Int : n = 0
    OBVIOUS
  <2>1. PICK x : x = Top(t) /\ n = 0
    BY <2>0
  <2>2. Counts(s, stack[t], p, x, y, n) /\ x.at = a
    BY <1>1, <1>2, <2>1
  <2>3. LocksAt(y.at) \in Int /\ LocksAt(a) \in Int
    BY DEF LocksAt
  <2>4. d = RefsAt(y.at) - RefsAt(x.at) /\ e = LocksAt(y.at) + n - LocksAt(x.at)
    BY <2>1, <2>2, <2>3
  <2>5. CountsBy(p, RefsAt(y.at) - RefsAt(x.at), LocksAt(y.at) + n - LocksAt(x.at))
    BY <1>1, <2>2, CountsByMove
  <2> QED  BY <2>4, <2>5
<1> QED  BY <1>1, <1>3, <1>4

\* A dispatch that calls settle.
LEMMA RunSettlesOn ==
    ASSUME BlockInv, NEW t \in Threads, NEW a, At(t, "run", a), NEW p, p = Top(t).b, NEW cancel \in BOOLEAN,
           Call(t, "drop", settle(Top(t).b, cancel)), NEW y, y = [Top(t) EXCEPT !.at = "drop"],
           kind' = kind, NEW d \in Int, NEW e \in Int, d = -RefsAt(a), e = -LocksAt(a)
    PROVE  \E s \in Seq(FrameSet) :
              /\ Moves(t, s) /\ StackOK(s) /\ s # <<>>
              /\ s[1].f = "settle" /\ s[1].b = p /\ s[1].at = "lock" /\ s[1].cancel = cancel
              /\ s[1].conts = <<>> /\ s[Len(s)] = y
              /\ Steps(t, p, y) /\ CountsBy(p, d, e)
<1>1. PICK s \in Seq(FrameSet) :
              /\ Moves(t, s) /\ StackOK(s) /\ s # <<>>
              /\ s[1].f = "settle" /\ s[1].b = Top(t).b /\ s[1].at = "lock" /\ s[1].cancel = cancel
              /\ s[1].conts = <<>> /\ s[Len(s)] = [Top(t) EXCEPT !.at = "drop"]
              /\ Counts(s, stack[t], Top(t).b, Top(t), [Top(t) EXCEPT !.at = "drop"], 0)
  BY RunSettles
<1>2. p \in Blocks /\ Top(t).at = a /\ Top(t).f = "run" /\ Top(t) \in FrameSet
  BY RunHere
<1>3. y.f = "run" /\ y.b = p /\ y.at = "drop" /\ s[Len(s)] = y
  BY <1>1, <1>2, GotoFrame
<1>4. Steps(t, p, y)
  <2>1. s[Len(s)].f = "run" /\ s[Len(s)].b = p
    BY <1>3
  <2>2. Steps(t, p, s[Len(s)])
    BY <1>1, <1>2, <2>1, RunSteps, Zenon
  <2> QED  BY <1>3, <2>2
<1>5. CountsBy(p, d, e)
  <2>0. PICK n \in Int : n = 0
    OBVIOUS
  <2>1. PICK x : x = Top(t) /\ n = 0
    BY <2>0
  <2>2. Counts(s, stack[t], p, x, y, n) /\ x.at = a
    BY <1>1, <1>2, <2>1
  <2>3. LocksAt(a) \in Int /\ RefsAt(a) \in Int /\ RefsAt(y.at) = 0 /\ LocksAt(y.at) = 0
    BY <1>3 DEF LocksAt, RefsAt
  <2>4. d = RefsAt(y.at) - RefsAt(x.at) /\ e = LocksAt(y.at) + n - LocksAt(x.at)
    BY <2>1, <2>2, <2>3
  <2>5. CountsBy(p, RefsAt(y.at) - RefsAt(x.at), LocksAt(y.at) + n - LocksAt(x.at))
    BY <1>1, <2>2, CountsByMove
  <2> QED  BY <2>4, <2>5
<1> QED  BY <1>1, <1>3, <1>4, <1>5

\* A dispatch that gives a lock it took for a child back.
LEMMA RunReleasesOn ==
    ASSUME BlockInv, NEW t \in Threads, At(t, "run", "link"), NEW p, p = Top(t).b,
           Call(t, "unlink", Release(Top(t).b, FALSE)), NEW y, y = [Top(t) EXCEPT !.at = "unlink"],
           kind' = kind, NEW z \in Int, z = 0
    PROVE  \E s \in Seq(FrameSet) :
              /\ Moves(t, s) /\ StackOK(s) /\ s # <<>> /\ s[1].f = "release"
              /\ s[1].conts = <<>> /\ s[Len(s)] = y
              /\ Steps(t, p, y) /\ CountsBy(p, z, z)
<1>1. PICK s \in Seq(FrameSet) :
              /\ Moves(t, s) /\ StackOK(s) /\ s # <<>> /\ s[1].f = "release"
              /\ s[1].conts = <<>> /\ s[Len(s)] = [Top(t) EXCEPT !.at = "unlink"]
              /\ Counts(s, stack[t], Top(t).b, Top(t), [Top(t) EXCEPT !.at = "unlink"], 1)
  BY RunReleases
<1>2. p \in Blocks /\ Top(t).at = "link" /\ Top(t).f = "run" /\ Top(t) \in FrameSet
  BY RunHere
<1>3. y.f = "run" /\ y.b = p /\ y.at = "unlink" /\ s[Len(s)] = y
  BY <1>1, <1>2, GotoFrame
<1>4. Steps(t, p, y)
  <2>1. s[Len(s)].f = "run" /\ s[Len(s)].b = p
    BY <1>3
  <2>2. Steps(t, p, s[Len(s)])
    BY <1>1, <1>2, <2>1, RunSteps, Zenon
  <2> QED  BY <1>3, <2>2
<1>5. CountsBy(p, z, z)
  <2>0. PICK n \in Int : n = 1
    OBVIOUS
  <2>1. PICK x : x = Top(t) /\ n = 1
    BY <2>0
  <2>2. Counts(s, stack[t], p, x, y, n) /\ x.at = "link"
    BY <1>1, <1>2, <2>1
  <2>3. LocksAt(x.at) = 2 /\ RefsAt(x.at) = 2 /\ RefsAt(y.at) = 2 /\ LocksAt(y.at) = 1
    BY <1>3, <2>2 DEF LocksAt, RefsAt
  <2>4. z = RefsAt(y.at) - RefsAt(x.at) /\ z = LocksAt(y.at) + n - LocksAt(x.at)
    BY <2>1, <2>3
  <2>5. CountsBy(p, RefsAt(y.at) - RefsAt(x.at), LocksAt(y.at) + n - LocksAt(x.at))
    BY <1>1, <2>2, CountsByMove
  <2> QED  BY <2>4, <2>5
<1> QED  BY <1>1, <1>3, <1>4, <1>5

\* The dispatch of p, at a, becomes y and destroys the body of p.
Destroys(p, a, y) == kind[p] = "task" /\ a \in InBody \cup {"claim"} /\ y.at \notin InBody

\* What Rest moves by when a body is destroyed, or not.
LEMMA RestStep ==
    ASSUME BlockInv, NEW t \in Threads, NEW a, At(t, "run", a), NEW p, p = Top(t).b, NEW y, Steps(t, p, y),
           kind' = kind, queue' = queue, client' = client, nested_parent' = nested_parent,
           body_claimed'[p] = TRUE, \A q \in Blocks : q # p => body_claimed'[q] = body_claimed[q],
           a \in InBody \cup {"claim"} \/ y.at \notin InBody,
           NEW b \in Blocks
    PROVE  Rest(b)' = Rest(b) - (IF Destroys(p, a, y) /\ b \in Range(Nested[p]) THEN 1 ELSE 0) /\ Rest(b) \in Nat
<1>1. TypeInv /\ ChildInv
  BY DEF BlockInv
<1>2. p \in Parents /\ Rest(b) \in Nat
  BY <1>1, RunHere, RestNat
<1>3. /\ \A q \in Parents : q # p => (Lives(q)' <=> Lives(q))
      /\ kind[p] # "task" => (Lives(p)' <=> Lives(p))
      /\ kind[p] = "task" => /\ Lives(p)' <=> y.at \in InBody
                             /\ Lives(p) <=> a \in InBody \cup {"claim"}
  BY LivesStep
<1>4. CASE ~Destroys(p, a, y)
  <2>1. \A q \in Parents : Lives(q)' <=> Lives(q)
    BY <1>3, <1>4 DEF Destroys
  <2>2. Rest(b)' = Rest(b)
    BY <2>1, RestSame
  <2> QED  BY <1>2, <1>4, <2>2
<1>5. CASE Destroys(p, a, y)
  <2>1. Lives(p) /\ ~Lives(p)'
    BY <1>3, <1>5 DEF Destroys
  <2>2. /\ b \in Range(Nested[p]) => Cardinality(Captors(b)) = 1 /\ Cardinality(Captors(b)') = 0
        /\ b \notin Range(Nested[p]) => Cardinality(Captors(b)') = Cardinality(Captors(b))
    BY <1>2, <1>3, <2>1, CaptorsDrop
  <2>3. /\ Cardinality(HeldBy(b)') = Cardinality(HeldBy(b)) /\ Owned(b)' = Owned(b)
        /\ Cardinality(Linked(b)') = Cardinality(Linked(b))
    <3>1. HeldBy(b)' = HeldBy(b)
      BY HeldSame
    <3>2. Linked(b)' = Linked(b)
      BY DEF Linked
    <3>3. Owned(b)' = Owned(b)
      BY DEF Owned
    <3> QED  BY <3>1, <3>2, <3>3
  <2>4. PICK h, c, o, l : h = Cardinality(HeldBy(b)) /\ c = Cardinality(Captors(b)) /\ o = Owned(b) /\ l = Cardinality(Linked(b))
    OBVIOUS
  <2>5. h \in Nat /\ c \in {0, 1} /\ o \in Nat /\ l \in Nat
    BY <1>1, <2>4, HeldFinite, CaptorsCount, LinkedFinite DEF Owned
  <2>6. PICK c2 : c2 = Cardinality(Captors(b)')
    OBVIOUS
  <2>7. Rest(b) = h + c + o + l /\ Rest(b)' = h + c2 + o + l
    BY <2>3, <2>4, <2>6 DEF Rest
  <2>8. CASE b \in Range(Nested[p])
    <3>1. c = 1 /\ c2 = 0
      BY <2>2, <2>4, <2>6, <2>8
    <3> QED  BY <1>2, <1>5, <2>5, <2>7, <2>8, <3>1
  <2>9. CASE b \notin Range(Nested[p])
    <3>1. c2 = c
      BY <2>2, <2>4, <2>6, <2>9
    <3> QED  BY <1>2, <1>5, <2>5, <2>7, <2>9, <3>1
  <2> QED  BY <2>8, <2>9
<1> QED  BY <1>4, <1>5

\* The reference count of p has moved by d, and those of the children by the body.
RefsBy(p, a, y, d) ==
    \A b \in Blocks : refcount'[b] = refcount[b] + (IF b = p /\ Counted(b) THEN d ELSE 0)
                              - (IF Destroys(p, a, y) /\ b \in Range(Nested[p]) THEN 1 ELSE 0)

\* The reference counts after a step of a dispatch that makes no link.
LEMMA RunRefs ==
    ASSUME BlockInv, NEW t \in Threads, NEW a, At(t, "run", a), NEW p, p = Top(t).b, NEW y, Steps(t, p, y),
           kind' = kind, queue' = queue, client' = client, nested_parent' = nested_parent,
           body_claimed'[p] = TRUE, \A q \in Blocks : q # p => body_claimed'[q] = body_claimed[q],
           a \in InBody \cup {"claim"} \/ y.at \notin InBody,
           NEW d \in Int, NEW e \in Int, CountsBy(p, d, e), RefsBy(p, a, y, d)
    PROVE  RefsInv'
<1>1. TypeInv /\ ChildInv /\ RefsInv
  BY DEF BlockInv
<1>2. ASSUME NEW b \in Blocks, Counted(b)
      PROVE  \E m, n \in Int : /\ Rest(b)' = Rest(b) + m /\ StackRefs(b)' = StackRefs(b) + n
                               /\ refcount'[b] = refcount[b] + m + n
  <2>1. Rest(b)' = Rest(b) - (IF Destroys(p, a, y) /\ b \in Range(Nested[p]) THEN 1 ELSE 0) /\ Rest(b) \in Nat
    BY ZenonT(60), RestStep
  <2>2. PICK m \in Int : m = (IF Destroys(p, a, y) /\ b \in Range(Nested[p]) THEN -1 ELSE 0)
    OBVIOUS
  <2>3. PICK n \in Int : n = (IF b = p THEN d ELSE 0)
    OBVIOUS
  <2>4. Rest(b)' = Rest(b) + m
    BY <2>1, <2>2
  <2>5. StackRefs(b)' = StackRefs(b) + n
    BY <2>3 DEF CountsBy
  <2>6. refcount[b] \in Int
    BY <1>1 DEF TypeInv, CountType
  <2>7. refcount'[b] = refcount[b] + n - (IF Destroys(p, a, y) /\ b \in Range(Nested[p]) THEN 1 ELSE 0)
    BY <1>2, <2>3 DEF RefsBy
  <2>8. refcount'[b] = refcount[b] + m + n
    BY <2>2, <2>6, <2>7
  <2> QED  BY <2>4, <2>5, <2>8
<1>3. ASSUME NEW b \in Blocks, ~Counted(b)
      PROVE  refcount'[b] = refcount[b]
  <2>1. b \notin Range(Nested[p])
    <3>1. p \in Parents
      BY RunHere
    <3>2. b \in Range(Nested[p]) => b \in Children
      BY <3>1, ConstantFacts
    <3>3. b \in Children => kind[b] = "bare"
      BY <1>1 DEF TypeInv, KindType
    <3> QED  BY <1>3, <3>2, <3>3 DEF Counted
  <2>2. refcount[b] \in Int
    BY <1>1 DEF TypeInv, CountType
  <2>3. refcount'[b] = refcount[b] + 0 - 0
    BY <1>3, <2>1 DEF RefsBy
  <2> QED  BY <2>2, <2>3
<1> QED  BY <1>1, <1>2, <1>3, RefsMove

\* A caller-owned access has an owner.
LEMMA OwnerExists ==
    ASSUME TypeInv, NEW p \in Blocks, kind[p] = "op"
    PROVE  \E c \in Clients : Handle[c] = p /\ Holders(p) = {c}
<1>1. Cardinality(Holders(p)) = 1 /\ IsFiniteSet(Holders(p)) /\ Holders(p) \subseteq Clients
  BY ConstantFacts DEF TypeInv, KindType
<1>2. PICK c : Holders(p) = {c}
  BY <1>1, FS_Singleton
<1>3. c \in Clients /\ Handle[c] = p
  BY <1>1, <1>2 DEF Holders
<1> QED  BY <1>2, <1>3

\* add_nested of a child that had settled drops what it took for it: the invariant is kept.
LEMMA UnlinkKept ==
    ASSUME BlockInv, NEW t \in Threads, unlink(t)
    PROVE  BlockInv'
<1>0. /\ kind' = kind /\ num_locks' = num_locks /\ body_claimed' = body_claimed /\ completed' = completed
      /\ cancelled' = cancelled /\ prereq_cancelled' = prereq_cancelled /\ nested_parent' = nested_parent /\ continuations' = continuations
      /\ settle_synchronously' = settle_synchronously /\ queue' = queue /\ client' = client
  BY DEF unlink, blockVars
<1>1. TypeInv /\ RefsInv /\ LocksInv /\ ChildInv
  BY DEF BlockInv
<1>2. At(t, "run", "unlink")
  BY DEF unlink
<1>3. PICK p, x : p = Top(t).b /\ x = Top(t)
  OBVIOUS
<1>4. PICK y : y = Attached(Top(t))
  OBVIOUS
<1>5. /\ p \in Parents /\ p \in Blocks /\ p \notin Children /\ Runs(t, p) /\ Base(t) = x
      /\ x.at = "unlink" /\ x.f = "run" /\ RunFrame(x) /\ x \in FrameSet
      /\ body_claimed[p] <=> "unlink" # "claim"
  BY <1>2, <1>3, RunHere
<1>6. PICK n, l, f : n = StackLocks(p) /\ l = Cardinality(Linked(p)) /\ f = ExecutionFlag
  OBVIOUS
<1>7. /\ n \in Nat /\ l \in Nat /\ f \in Nat /\ f > 1 /\ num_locks[p] \in Int
      /\ n >= 1 /\ num_locks[p] = f + n + l /\ num_locks[p] > 0
  BY <1>2, <1>3, <1>6, RunLocked
<1>8. /\ y \in FrameSet /\ y.f = "run" /\ y.b = p /\ y.at = "body" /\ y.conts = <<>> /\ y.parent = NoBlock
      /\ x.k \in Nat /\ y.k = x.k + 1 /\ x.b = p
  <2>1. x.conts = <<>> /\ x.parent = NoBlock /\ x.k \in Nat /\ x.b = p
    BY <1>3, <1>5 DEF RunFrame, FrameSet
  <2> QED  BY <1>3, <1>4, <1>5, <2>1, NextFrame
<1>9. RunFrame(y)
  <2>1. Len(Nested[p]) \in Nat
    BY <1>5, ConstantFacts
  <2>2. x.k < Len(Nested[p])
    BY <1>5, <1>8 DEF RunFrame
  <2>3. y.k <= Len(Nested[p])
    BY <1>8, <2>1, <2>2
  <2> QED  BY <1>5, <1>8, <2>3 DEF RunFrame
<1>10. PICK d \in Int, e \in Int : d = -1 /\ e = 0
  OBVIOUS
<1>11. RefsAt("body") - RefsAt("unlink") = d /\ LocksAt("body") - LocksAt("unlink") = e
  BY <1>10 DEF RefsAt, LocksAt
<1>12. PICK s \in Seq(FrameSet) :
              /\ Moves(t, s) /\ StackOK(s) /\ s # <<>> /\ s[1] = y /\ s[Len(s)] = y
              /\ Steps(t, p, y) /\ CountsBy(p, d, e)
  <2>1. Put(t, y)
    BY <1>4 DEF unlink, Goto, Attached
  <2>2. d = RefsAt(y.at) - RefsAt("unlink") /\ e = LocksAt(y.at) - LocksAt("unlink")
    BY <1>8, <1>11
  <2> QED  BY <1>0, <1>2, <1>3, <1>8, <1>9, <2>1, <2>2, RunGoesOn
<1>13. body_claimed'[p] = TRUE /\ \A q \in Blocks : q # p => body_claimed'[q] = body_claimed[q]
  BY <1>0, <1>1, <1>3, <1>5 DEF TypeInv, FlagType
<1>14. /\ refcount' \in [Blocks -> Int]
       /\ \A b \in Blocks : refcount'[b] = refcount[b] - (IF b = p /\ Counted(b) THEN 1 ELSE 0)
  <2>1. refcount \in [Blocks -> Int] /\ refcount' = Minus(refcount, p)
    BY <1>1, <1>3 DEF TypeInv, CountType, unlink
  <2> QED  BY SMTT(60), <1>5, <2>1, PlusFacts
<1>15. RefsBy(p, "unlink", y, d)
  <2>1. ~Destroys(p, "unlink", y)
    BY <1>8 DEF Destroys, InBody
  <2>2. \A b \in Blocks : refcount[b] \in Int
    BY <1>1 DEF TypeInv, CountType
  <2> QED  BY <1>10, <1>14, <2>1, <2>2 DEF RefsBy
<1>16. RefsInv'
  <2>1. "unlink" \in InBody \cup {"claim"} \/ y.at \notin InBody
    BY <1>8 DEF InBody
  <2> QED  BY <1>0, <1>2, <1>3, <1>12, <1>13, <1>15, <2>1, RunRefs
<1>17. \A b \in Blocks : /\ StackLocks(b) \in Nat
                           /\ StackLocks(b)' = StackLocks(b) + (IF b = p THEN e ELSE 0)
  BY <1>12 DEF CountsBy
<1>18. StackLocks(p)' = n + e
  BY <1>5, <1>6, <1>17
<1>19. /\ \A q \in Blocks : q # p => num_locks'[q] = num_locks[q] /\ settle_synchronously'[q] = settle_synchronously[q]
       /\ num_locks'[p] = num_locks[p] /\ num_locks' \in [Blocks -> Int]
       /\ settle_synchronously' \in [Blocks -> BOOLEAN]
  BY <1>0, <1>1 DEF TypeInv, CountType, FlagType
<1>20. Elsewhere(p) /\ \A q \in Blocks : Linked(q)' = Linked(q)
  BY <1>0, <1>12, <1>13, <1>19, ElsewhereKept
<1>21. LocksOK(p)'
  <2>1. Cardinality(Linked(p)') = l
    BY <1>5, <1>6, <1>20
  <2>2. num_locks'[p] = f + (n + e) + l
    BY <1>7, <1>10, <1>19
  <2> QED  BY <1>6, <1>18, <2>1, <2>2 DEF LocksOK
<1>22. LinksTo(p, y)
  <2>1. completed[Nested[p][x.k + 1]]
    BY <1>1, <1>5 DEF ChildInv
  <2>2. ASSUME NEW i \in DOMAIN Nested[p]
        PROVE  \/ completed[Nested[p][i]] \/ nested_parent'[Nested[p][i]] = p
               \/ y.at \in InBody /\ i > y.k
    <3>1. completed[Nested[p][i]] \/ nested_parent[Nested[p][i]] = p \/ i > x.k
      BY <1>2, <1>3, <1>7, ChildFacts
    <3>2. i \in Nat
      BY <1>5, NestedFacts
    <3>3. i > x.k => i = x.k + 1 \/ i > y.k
      BY <1>8, <3>2
    <3> QED  BY <1>0, <1>8, <2>1, <3>1, <3>3 DEF InBody
  <2> QED  BY <1>0, <1>8, <2>2 DEF LinksTo
<1>23. MayComplete(p, y, s[1])
  BY <1>0, <1>8, <1>12 DEF MayComplete
<1>24. Typed
  BY <1>0, <1>1, <1>14, <1>19 DEF Typed, TypeInv, CountType, FlagType, LinkType
<1>25. /\ s[1].conts = <<>> /\ y.at # "claim" /\ y.k \in Nat /\ y.k >= Top(t).k
  BY <1>3, <1>8, <1>12
<1> QED  BY <1>0, <1>2, <1>3, <1>8, <1>12, <1>13, <1>16, <1>20, <1>21, <1>22, <1>23, <1>24, <1>25, RunStep

\* add_nested takes a lock and a reference for the child: the invariant is kept.
LEMMA AddNestedKept ==
    ASSUME BlockInv, NEW t \in Threads, add_nested(t)
    PROVE  BlockInv'
<1>0. /\ kind' = kind /\ body_claimed' = body_claimed /\ completed' = completed /\ cancelled' = cancelled
      /\ prereq_cancelled' = prereq_cancelled /\ nested_parent' = nested_parent /\ continuations' = continuations /\ settle_synchronously' = settle_synchronously
      /\ queue' = queue /\ client' = client
  BY DEF add_nested, blockVars
<1>1. TypeInv /\ RefsInv /\ LocksInv /\ ChildInv
  BY DEF BlockInv
<1>2. At(t, "run", "body")
  BY DEF add_nested
<1>3. PICK p, x : p = Top(t).b /\ x = Top(t)
  OBVIOUS
<1>4. PICK y : y = [Top(t) EXCEPT !.at = "link"]
  OBVIOUS
<1>5. /\ p \in Parents /\ p \in Blocks /\ p \notin Children /\ Runs(t, p) /\ Base(t) = x
      /\ x.at = "body" /\ x.f = "run" /\ RunFrame(x) /\ x \in FrameSet
      /\ body_claimed[p] <=> "body" # "claim"
  BY <1>2, <1>3, RunHere
<1>6. PICK n, l, f : n = StackLocks(p) /\ l = Cardinality(Linked(p)) /\ f = ExecutionFlag
  OBVIOUS
<1>7. /\ n \in Nat /\ l \in Nat /\ f \in Nat /\ f > 1 /\ num_locks[p] \in Int
      /\ n >= 1 /\ num_locks[p] = f + n + l /\ num_locks[p] > 0
  BY <1>2, <1>3, <1>6, RunLocked
<1>8. /\ y \in FrameSet /\ y.f = "run" /\ y.b = p /\ y.at = "link" /\ y.conts = <<>> /\ y.parent = NoBlock
      /\ x.k \in Nat /\ y.k = x.k /\ x.b = p
  <2>1. x.conts = <<>> /\ x.parent = NoBlock /\ x.k \in Nat /\ x.b = p
    BY <1>3, <1>5 DEF RunFrame, FrameSet
  <2> QED  BY <1>3, <1>4, <1>5, <2>1, GotoFrame
<1>9. RunFrame(y)
  <2>1. x.k < Len(Nested[p]) /\ Len(Nested[p]) \in Nat
    BY <1>3, <1>5, ConstantFacts DEF add_nested
  <2> QED  BY <1>5, <1>8, <2>1 DEF RunFrame
<1>10. PICK d \in Int, e \in Int : d = 1 /\ e = 1
  OBVIOUS
<1>11. RefsAt("link") - RefsAt("body") = d /\ LocksAt("link") - LocksAt("body") = e
  BY <1>10 DEF RefsAt, LocksAt
<1>12. PICK s \in Seq(FrameSet) :
              /\ Moves(t, s) /\ StackOK(s) /\ s # <<>> /\ s[1] = y /\ s[Len(s)] = y
              /\ Steps(t, p, y) /\ CountsBy(p, d, e)
  <2>1. Put(t, y)
    BY <1>4 DEF add_nested, Goto, Attached
  <2>2. d = RefsAt(y.at) - RefsAt("body") /\ e = LocksAt(y.at) - LocksAt("body")
    BY <1>8, <1>11
  <2> QED  BY <1>0, <1>2, <1>3, <1>8, <1>9, <2>1, <2>2, RunGoesOn
<1>13. body_claimed'[p] = TRUE /\ \A q \in Blocks : q # p => body_claimed'[q] = body_claimed[q]
  BY <1>0, <1>1, <1>3, <1>5 DEF TypeInv, FlagType
<1>14. /\ refcount' \in [Blocks -> Int]
       /\ \A b \in Blocks : refcount'[b] = refcount[b] + (IF b = p /\ Counted(b) THEN 1 ELSE 0)
  <2>1. refcount \in [Blocks -> Int] /\ refcount' = Plus(refcount, p)
    BY <1>1, <1>3 DEF TypeInv, CountType, add_nested
  <2> QED  BY SMTT(60), <1>5, <2>1, PlusFacts
<1>15. RefsBy(p, "body", y, d)
  <2>1. ~Destroys(p, "body", y)
    BY <1>8 DEF Destroys, InBody
  <2>2. \A b \in Blocks : refcount[b] \in Int
    BY <1>1 DEF TypeInv, CountType
  <2> QED  BY <1>10, <1>14, <2>1, <2>2 DEF RefsBy
<1>16. RefsInv'
  <2>1. "body" \in InBody \cup {"claim"} \/ y.at \notin InBody
    BY <1>8 DEF InBody
  <2> QED  BY <1>0, <1>2, <1>3, <1>12, <1>13, <1>15, <2>1, RunRefs
<1>17. \A b \in Blocks : /\ StackLocks(b) \in Nat
                           /\ StackLocks(b)' = StackLocks(b) + (IF b = p THEN e ELSE 0)
  BY <1>12 DEF CountsBy
<1>18. StackLocks(p)' = n + e
  BY <1>5, <1>6, <1>17
<1>19. /\ \A q \in Blocks : q # p => num_locks'[q] = num_locks[q] /\ settle_synchronously'[q] = settle_synchronously[q]
       /\ num_locks'[p] = num_locks[p] + 1 /\ num_locks' \in [Blocks -> Int]
       /\ settle_synchronously' \in [Blocks -> BOOLEAN]
  BY <1>0, <1>1, <1>3, <1>5 DEF TypeInv, CountType, FlagType, add_nested
<1>20. Elsewhere(p) /\ \A q \in Blocks : Linked(q)' = Linked(q)
  BY <1>0, <1>12, <1>13, <1>19, ElsewhereKept
<1>21. LocksOK(p)'
  <2>1. Cardinality(Linked(p)') = l
    BY <1>5, <1>6, <1>20
  <2>2. num_locks'[p] = f + (n + e) + l
    BY <1>7, <1>10, <1>19
  <2> QED  BY <1>6, <1>18, <2>1, <2>2 DEF LocksOK
<1>22. LinksTo(p, y)
  <2>1. ASSUME NEW i \in DOMAIN Nested[p], num_locks'[p] > 0
        PROVE  \/ completed[Nested[p][i]] \/ nested_parent'[Nested[p][i]] = p
               \/ y.at \in InBody /\ i > y.k
    <3>1. completed[Nested[p][i]] \/ nested_parent[Nested[p][i]] = p \/ i > x.k
      BY <1>2, <1>3, <1>7, ChildFacts
    <3> QED  BY <1>0, <1>8, <3>1 DEF InBody
  <2> QED  BY <1>0, <1>8, <2>1 DEF LinksTo
<1>23. MayComplete(p, y, s[1])
  BY <1>0, <1>8, <1>12 DEF MayComplete
<1>24. Typed
  BY <1>0, <1>1, <1>14, <1>19 DEF Typed, TypeInv, CountType, FlagType, LinkType
<1>25. /\ s[1].conts = <<>> /\ y.at # "claim" /\ y.k \in Nat /\ y.k >= Top(t).k
  BY <1>3, <1>8, <1>12
<1> QED  BY <1>0, <1>2, <1>3, <1>8, <1>12, <1>13, <1>16, <1>20, <1>21, <1>22, <1>23, <1>24, <1>25, RunStep

\* run claims the body and takes the self-lock: the invariant is kept.
LEMMA RunActionKept ==
    ASSUME BlockInv, NEW t \in Threads, run(t)
    PROVE  BlockInv'
<1>0. /\ kind' = kind /\ completed' = completed /\ cancelled' = cancelled /\ prereq_cancelled' = prereq_cancelled
      /\ nested_parent' = nested_parent /\ continuations' = continuations /\ settle_synchronously' = settle_synchronously /\ queue' = queue
      /\ client' = client
  BY DEF run, blockVars
<1>1. TypeInv /\ RefsInv /\ LocksInv /\ ChildInv
  BY DEF BlockInv
<1>2. At(t, "run", "claim")
  BY DEF run
<1>3. PICK p, x : p = Top(t).b /\ x = Top(t)
  OBVIOUS
<1>4. PICK y : y = [Top(t) EXCEPT !.at = "body"]
  OBVIOUS
<1>5. /\ p \in Parents /\ p \in Blocks /\ p \notin Children /\ Runs(t, p) /\ Base(t) = x
      /\ x.at = "claim" /\ x.f = "run" /\ RunFrame(x) /\ x \in FrameSet
      /\ body_claimed[p] <=> "claim" # "claim"
  BY <1>2, <1>3, RunHere
<1>6. PICK n, l, f : n = StackLocks(p) /\ l = Cardinality(Linked(p)) /\ f = ExecutionFlag
  OBVIOUS
<1>7. /\ n \in Nat /\ l \in Nat /\ f \in Nat /\ f > 1 /\ num_locks[p] \in Int
      /\ num_locks[p] = 0 /\ n = 0 /\ Linked(p) = {}
  BY <1>2, <1>3, <1>6, RunLocked
<1>8. /\ y \in FrameSet /\ y.f = "run" /\ y.b = p /\ y.at = "body" /\ y.conts = <<>> /\ y.parent = NoBlock
      /\ x.k \in Nat /\ y.k = x.k /\ x.b = p
  <2>1. x.conts = <<>> /\ x.parent = NoBlock /\ x.k \in Nat /\ x.b = p
    BY <1>3, <1>5 DEF RunFrame, FrameSet
  <2> QED  BY <1>3, <1>4, <1>5, <2>1, GotoFrame
<1>9. RunFrame(y)
  BY <1>5, <1>8 DEF RunFrame
<1>10. PICK d \in Int, e \in Int : d = 1 /\ e = 1
  OBVIOUS
<1>11. RefsAt("body") - RefsAt("claim") = d /\ LocksAt("body") - LocksAt("claim") = e
  BY <1>10 DEF RefsAt, LocksAt
<1>12. PICK s \in Seq(FrameSet) :
              /\ Moves(t, s) /\ StackOK(s) /\ s # <<>> /\ s[1] = y /\ s[Len(s)] = y
              /\ Steps(t, p, y) /\ CountsBy(p, d, e)
  <2>1. Put(t, y)
    BY <1>4 DEF run, Goto, Attached
  <2>2. d = RefsAt(y.at) - RefsAt("claim") /\ e = LocksAt(y.at) - LocksAt("claim")
    BY <1>8, <1>11
  <2> QED  BY <1>0, <1>2, <1>3, <1>8, <1>9, <2>1, <2>2, RunGoesOn
<1>13. body_claimed'[p] = TRUE /\ \A q \in Blocks : q # p => body_claimed'[q] = body_claimed[q]
  BY <1>0, <1>1, <1>3, <1>5 DEF TypeInv, FlagType, run
<1>14. /\ refcount' \in [Blocks -> Int]
       /\ \A b \in Blocks : refcount'[b] = refcount[b] + (IF b = p /\ Counted(b) THEN 1 ELSE 0)
  <2>1. refcount \in [Blocks -> Int] /\ refcount' = Plus(refcount, p)
    BY <1>1, <1>3 DEF TypeInv, CountType, run
  <2> QED  BY <1>5, <2>1, PlusFacts
<1>15. RefsBy(p, "claim", y, d)
  <2>1. ~Destroys(p, "claim", y)
    BY <1>8 DEF Destroys, InBody
  <2>2. \A b \in Blocks : refcount[b] \in Int
    BY <1>1 DEF TypeInv, CountType
  <2> QED  BY <1>10, <1>14, <2>1, <2>2 DEF RefsBy
<1>16. RefsInv'
  <2>1. "claim" \in InBody \cup {"claim"} \/ y.at \notin InBody
    BY <1>8 DEF InBody
  <2> QED  BY <1>0, <1>2, <1>3, <1>12, <1>13, <1>15, <2>1, RunRefs
<1>17. \A b \in Blocks : /\ StackLocks(b) \in Nat
                           /\ StackLocks(b)' = StackLocks(b) + (IF b = p THEN e ELSE 0)
  BY <1>12 DEF CountsBy
<1>18. StackLocks(p)' = n + e
  BY <1>5, <1>6, <1>17
<1>19. /\ \A q \in Blocks : q # p => num_locks'[q] = num_locks[q] /\ settle_synchronously'[q] = settle_synchronously[q]
       /\ num_locks'[p] = f + 1 /\ num_locks' \in [Blocks -> Int]
       /\ settle_synchronously' \in [Blocks -> BOOLEAN]
  BY <1>0, <1>1, <1>3, <1>5, <1>6, <1>7 DEF TypeInv, CountType, FlagType, run
<1>20. Elsewhere(p) /\ \A q \in Blocks : Linked(q)' = Linked(q)
  BY <1>0, <1>12, <1>13, <1>19, ElsewhereKept
<1>21. LocksOK(p)'
  <2>1. Cardinality(Linked(p)') = l
    BY <1>5, <1>6, <1>20
  <2>2. num_locks'[p] = f + (n + e) + l
    <3>1. l = 0
      BY <1>6, <1>7, FS_EmptySet
    <3> QED  BY <1>7, <1>10, <1>19, <3>1
  <2> QED  BY <1>6, <1>18, <2>1, <2>2 DEF LocksOK
<1>22. LinksTo(p, y)
  <2>1. ASSUME NEW i \in DOMAIN Nested[p]
        PROVE  y.at \in InBody /\ i > y.k
    <3>1. i \in Nat /\ 1 <= i
      BY <1>5, NestedFacts
    <3>2. x.k = 0
      BY <1>5 DEF RunFrame
    <3> QED  BY <1>8, <3>1, <3>2 DEF InBody
  <2> QED  BY <1>0, <1>8, <2>1 DEF LinksTo
<1>23. MayComplete(p, y, s[1])
  BY <1>0, <1>8, <1>12 DEF MayComplete
<1>24. Typed
  BY <1>0, <1>1, <1>14, <1>19 DEF Typed, TypeInv, CountType, FlagType, LinkType, run
<1>25. /\ s[1].conts = <<>> /\ y.at # "claim" /\ y.k \in Nat /\ y.k >= Top(t).k
  BY <1>3, <1>8, <1>12
<1> QED  BY <1>0, <1>2, <1>3, <1>8, <1>12, <1>13, <1>16, <1>20, <1>21, <1>22, <1>23, <1>24, <1>25, RunStep

\* The body returns and is destroyed: the invariant is kept.
LEMMA EndBodyKept ==
    ASSUME BlockInv, NEW t \in Threads, end_body(t)
    PROVE  BlockInv'
<1>0. /\ kind' = kind /\ num_locks' = num_locks /\ body_claimed' = body_claimed /\ completed' = completed
      /\ cancelled' = cancelled /\ prereq_cancelled' = prereq_cancelled /\ nested_parent' = nested_parent /\ continuations' = continuations
      /\ queue' = queue /\ client' = client
  BY DEF end_body, blockVars
<1>1. TypeInv /\ RefsInv /\ LocksInv /\ ChildInv
  BY DEF BlockInv
<1>2. At(t, "run", "body")
  BY DEF end_body, BodyEnds
<1>3. PICK p, x : p = Top(t).b /\ x = Top(t)
  OBVIOUS
<1>4. PICK y : y = [Top(t) EXCEPT !.at = "self_lock"]
  OBVIOUS
<1>5. /\ p \in Parents /\ p \in Blocks /\ p \notin Children /\ Runs(t, p) /\ Base(t) = x
      /\ x.at = "body" /\ x.f = "run" /\ RunFrame(x) /\ x \in FrameSet
      /\ body_claimed[p] <=> "body" # "claim"
  BY <1>2, <1>3, RunHere
<1>6. PICK n, l, f : n = StackLocks(p) /\ l = Cardinality(Linked(p)) /\ f = ExecutionFlag
  OBVIOUS
<1>7. /\ n \in Nat /\ l \in Nat /\ f \in Nat /\ f > 1 /\ num_locks[p] \in Int
      /\ n >= 1 /\ num_locks[p] = f + n + l /\ num_locks[p] > 0
  BY <1>2, <1>3, <1>6, RunLocked
<1>8. /\ y \in FrameSet /\ y.f = "run" /\ y.b = p /\ y.at = "self_lock" /\ y.conts = <<>> /\ y.parent = NoBlock
      /\ x.k \in Nat /\ y.k = x.k /\ x.b = p
  <2>1. x.conts = <<>> /\ x.parent = NoBlock /\ x.k \in Nat /\ x.b = p
    BY <1>3, <1>5 DEF RunFrame, FrameSet
  <2> QED  BY <1>3, <1>4, <1>5, <2>1, GotoFrame
<1>9. RunFrame(y)
  <2>1. x.k = Len(Nested[p])
    BY <1>3 DEF end_body, BodyEnds
  <2> QED  BY <1>5, <1>8, <2>1 DEF RunFrame
<1>10. PICK d \in Int, e \in Int : d = -1 /\ e = 0
  OBVIOUS
<1>11. RefsAt("self_lock") - RefsAt("body") = d /\ LocksAt("self_lock") - LocksAt("body") = e
  BY <1>10 DEF RefsAt, LocksAt
<1>12. PICK s \in Seq(FrameSet) :
              /\ Moves(t, s) /\ StackOK(s) /\ s # <<>> /\ s[1] = y /\ s[Len(s)] = y
              /\ Steps(t, p, y) /\ CountsBy(p, d, e)
  <2>1. Put(t, y)
    BY <1>4 DEF end_body, Goto, Attached
  <2>2. d = RefsAt(y.at) - RefsAt("body") /\ e = LocksAt(y.at) - LocksAt("body")
    BY <1>8, <1>11
  <2> QED  BY <1>0, <1>2, <1>3, <1>8, <1>9, <2>1, <2>2, RunGoesOn
<1>13. body_claimed'[p] = TRUE /\ \A q \in Blocks : q # p => body_claimed'[q] = body_claimed[q]
  BY <1>0, <1>1, <1>3, <1>5 DEF TypeInv, FlagType
<1>14. /\ refcount' \in [Blocks -> Int]
       /\ \A b \in Blocks : refcount'[b] = refcount[b] - (IF b = p /\ Counted(b) THEN 1 ELSE 0)
                              - (IF kind[p] = "task" /\ b \in Range(Nested[p]) THEN 1 ELSE 0)
  <2>1. refcount \in [Blocks -> Int] /\ refcount' = DestroyBody(Minus(refcount, p), p)
    BY <1>1, <1>3 DEF TypeInv, CountType, end_body
  <2>2. PICK rc : rc = Minus(refcount, p)
    OBVIOUS
  <2>3. rc \in [Blocks -> Int] /\ \A b \in Blocks : rc[b] = refcount[b] - (IF b = p /\ Counted(b) THEN 1 ELSE 0)
    BY SMTT(60), <1>5, <2>1, <2>2, PlusFacts
  <2>4. /\ DestroyBody(rc, p) \in [Blocks -> Int]
        /\ \A b \in Blocks : DestroyBody(rc, p)[b] = rc[b] - (IF kind[p] = "task" /\ b \in Range(Nested[p]) THEN 1 ELSE 0)
    BY <1>5, <2>3, DestroyFacts
  <2>5. refcount' = DestroyBody(rc, p)
    BY <2>1, <2>2
  <2> QED  BY <2>3, <2>4, <2>5
<1>15. RefsBy(p, "body", y, d)
  <2>1. Destroys(p, "body", y) <=> kind[p] = "task"
    BY <1>8 DEF Destroys, InBody
  <2>2. \A b \in Blocks : refcount[b] \in Int
    BY <1>1 DEF TypeInv, CountType
  <2> QED  BY <1>10, <1>14, <2>1, <2>2 DEF RefsBy
<1>16. RefsInv'
  <2>1. "body" \in InBody \cup {"claim"} \/ y.at \notin InBody
    BY <1>8 DEF InBody
  <2> QED  BY <1>0, <1>2, <1>3, <1>12, <1>13, <1>15, <2>1, RunRefs
<1>17. \A b \in Blocks : /\ StackLocks(b) \in Nat
                           /\ StackLocks(b)' = StackLocks(b) + (IF b = p THEN e ELSE 0)
  BY <1>12 DEF CountsBy
<1>18. StackLocks(p)' = n + e
  BY <1>5, <1>6, <1>17
<1>19. /\ \A q \in Blocks : q # p => num_locks'[q] = num_locks[q] /\ settle_synchronously'[q] = settle_synchronously[q]
       /\ num_locks'[p] = num_locks[p] /\ num_locks' \in [Blocks -> Int]
       /\ settle_synchronously' \in [Blocks -> BOOLEAN]
  <2>1. settle_synchronously' = [settle_synchronously EXCEPT ![p] = @ /\ num_locks[p] = ExecutionFlag + 1]
    BY <1>3 DEF end_body
  <2>2. settle_synchronously \in [Blocks -> BOOLEAN] /\ num_locks \in [Blocks -> Int]
    BY <1>1 DEF TypeInv, CountType, FlagType
  <2>3. PICK v \in BOOLEAN : v = (settle_synchronously[p] /\ num_locks[p] = ExecutionFlag + 1)
    BY <1>5, <2>2
  <2>4. settle_synchronously' = [settle_synchronously EXCEPT ![p] = v]
    BY <2>1, <2>3
  <2> QED  BY <1>0, <2>2, <2>4
<1>20. Elsewhere(p) /\ \A q \in Blocks : Linked(q)' = Linked(q)
  BY <1>0, <1>12, <1>13, <1>19, ElsewhereKept
<1>21. LocksOK(p)'
  <2>1. Cardinality(Linked(p)') = l
    BY <1>5, <1>6, <1>20
  <2>2. num_locks'[p] = f + (n + e) + l
    BY <1>7, <1>10, <1>19
  <2> QED  BY <1>6, <1>18, <2>1, <2>2 DEF LocksOK
<1>22. LinksTo(p, y)
  <2>1. ASSUME NEW i \in DOMAIN Nested[p], num_locks'[p] > 0
        PROVE  \/ completed[Nested[p][i]] \/ nested_parent'[Nested[p][i]] = p
               \/ y.at \in InBody /\ i > y.k
    <3>1. completed[Nested[p][i]] \/ nested_parent[Nested[p][i]] = p \/ i > x.k
      BY <1>2, <1>3, <1>7, ChildFacts
    <3>2. i \in Nat /\ i <= Len(Nested[p]) /\ x.k = Len(Nested[p])
      BY <1>3, <1>5, NestedFacts DEF end_body, BodyEnds
    <3>3. ~(i > x.k)
      BY <1>8, <3>2
    <3> QED  BY <1>0, <3>1, <3>3
  <2> QED  BY <1>0, <1>8, <2>1 DEF LinksTo
<1>23. MayComplete(p, y, s[1])
  <2>1. settle_synchronously'[p] => settle_synchronously[p] /\ num_locks[p] = ExecutionFlag + 1
    BY <1>1, <1>3, <1>5 DEF end_body, TypeInv, FlagType
  <2> QED  BY <1>0, <1>8, <1>12, <2>1 DEF MayComplete
<1>24. Typed
  BY <1>0, <1>1, <1>14, <1>19 DEF Typed, TypeInv, CountType, FlagType, LinkType
<1>25. /\ s[1].conts = <<>> /\ y.at # "claim" /\ y.k \in Nat /\ y.k >= Top(t).k
  BY <1>3, <1>8, <1>12
<1> QED  BY <1>0, <1>2, <1>3, <1>8, <1>12, <1>13, <1>16, <1>20, <1>21, <1>22, <1>23, <1>24, <1>25, RunStep

\* run of a cancelled block destroys the body unrun and settles: the invariant is kept.
LEMMA RunCancelledKept ==
    ASSUME BlockInv, NEW t \in Threads, run_cancelled(t)
    PROVE  BlockInv'
<1>0. /\ kind' = kind /\ num_locks' = num_locks /\ completed' = completed /\ cancelled' = cancelled
      /\ prereq_cancelled' = prereq_cancelled /\ nested_parent' = nested_parent /\ continuations' = continuations /\ settle_synchronously' = settle_synchronously
      /\ queue' = queue /\ client' = client
  BY DEF run_cancelled, blockVars
<1>1. TypeInv /\ RefsInv /\ LocksInv /\ ChildInv
  BY DEF BlockInv
<1>2. At(t, "run", "claim")
  BY DEF run_cancelled
<1>3. PICK p, x : p = Top(t).b /\ x = Top(t)
  OBVIOUS
<1>4. PICK y : y = [Top(t) EXCEPT !.at = "drop"]
  OBVIOUS
<1>5. /\ p \in Parents /\ p \in Blocks /\ p \notin Children /\ Runs(t, p) /\ Base(t) = x
      /\ x.at = "claim" /\ x.f = "run" /\ RunFrame(x) /\ x \in FrameSet
      /\ body_claimed[p] <=> "claim" # "claim"
  BY <1>2, <1>3, RunHere
<1>6. PICK n, l, f : n = StackLocks(p) /\ l = Cardinality(Linked(p)) /\ f = ExecutionFlag
  OBVIOUS
<1>7. /\ n \in Nat /\ l \in Nat /\ f \in Nat /\ f > 1 /\ num_locks[p] \in Int
      /\ num_locks[p] = 0 /\ n = 0 /\ Linked(p) = {}
  BY <1>2, <1>3, <1>6, RunLocked
<1>8. /\ y \in FrameSet /\ y.f = "run" /\ y.b = p /\ y.at = "drop" /\ y.conts = <<>> /\ y.parent = NoBlock
      /\ x.k \in Nat /\ y.k = x.k /\ x.b = p
  <2>1. x.conts = <<>> /\ x.parent = NoBlock /\ x.k \in Nat /\ x.b = p
    BY <1>3, <1>5 DEF RunFrame, FrameSet
  <2> QED  BY <1>3, <1>4, <1>5, <2>1, GotoFrame
<1>9. RunFrame(y)
  BY <1>5, <1>8 DEF RunFrame
<1>10. PICK d \in Int, e \in Int : d = 0 /\ e = 0
  OBVIOUS
<1>11. RefsAt("drop") - RefsAt("claim") = d /\ LocksAt("drop") - LocksAt("claim") = e
  BY <1>10 DEF RefsAt, LocksAt
<1>100. PICK v \in BOOLEAN : v = TRUE
  OBVIOUS
<1>12. PICK s \in Seq(FrameSet) :
              /\ Moves(t, s) /\ StackOK(s) /\ s # <<>>
              /\ s[1].f = "settle" /\ s[1].b = p /\ s[1].at = "lock" /\ s[1].cancel = v
              /\ s[1].conts = <<>> /\ s[Len(s)] = y
              /\ Steps(t, p, y) /\ CountsBy(p, d, e)
  <2>1. Call(t, "drop", settle(Top(t).b, v))
    BY <1>100 DEF run_cancelled
  <2>2. d = -RefsAt("claim") /\ e = -LocksAt("claim")
    <3>1. RefsAt("drop") = 0 /\ LocksAt("drop") = 0 /\ RefsAt("claim") \in Int /\ LocksAt("claim") \in Int
      BY DEF RefsAt, LocksAt
    <3> QED  BY <1>11, <3>1
  <2> QED  BY <1>0, <1>2, <1>3, <1>4, <2>1, <2>2, RunSettlesOn
<1>13. body_claimed'[p] = TRUE /\ \A q \in Blocks : q # p => body_claimed'[q] = body_claimed[q]
  BY <1>0, <1>1, <1>3, <1>5 DEF TypeInv, FlagType, run_cancelled
<1>14. /\ refcount' \in [Blocks -> Int]
       /\ \A b \in Blocks : refcount'[b] = refcount[b] - (IF kind[p] = "task" /\ b \in Range(Nested[p]) THEN 1 ELSE 0)
  <2>1. refcount \in [Blocks -> Int] /\ refcount' = DestroyBody(refcount, p)
    BY <1>1, <1>3 DEF TypeInv, CountType, run_cancelled
  <2> QED  BY <1>5, <2>1, DestroyFacts
<1>15. RefsBy(p, "claim", y, d)
  <2>1. Destroys(p, "claim", y) <=> kind[p] = "task"
    BY <1>8 DEF Destroys, InBody
  <2>2. \A b \in Blocks : refcount[b] \in Int
    BY <1>1 DEF TypeInv, CountType
  <2> QED  BY <1>10, <1>14, <2>1, <2>2 DEF RefsBy
<1>16. RefsInv'
  <2>1. "claim" \in InBody \cup {"claim"} \/ y.at \notin InBody
    BY <1>8 DEF InBody
  <2> QED  BY <1>0, <1>2, <1>3, <1>12, <1>13, <1>15, <2>1, RunRefs
<1>17. \A b \in Blocks : /\ StackLocks(b) \in Nat
                           /\ StackLocks(b)' = StackLocks(b) + (IF b = p THEN e ELSE 0)
  BY <1>12 DEF CountsBy
<1>18. StackLocks(p)' = n + e
  BY <1>5, <1>6, <1>17
<1>19. /\ \A q \in Blocks : q # p => num_locks'[q] = num_locks[q] /\ settle_synchronously'[q] = settle_synchronously[q]
       /\ num_locks'[p] = num_locks[p] /\ num_locks' \in [Blocks -> Int]
       /\ settle_synchronously' \in [Blocks -> BOOLEAN]
  BY <1>0, <1>1 DEF TypeInv, CountType, FlagType
<1>20. Elsewhere(p) /\ \A q \in Blocks : Linked(q)' = Linked(q)
  BY <1>0, <1>12, <1>13, <1>19, ElsewhereKept
<1>21. LocksOK(p)'
  <2>1. Cardinality(Linked(p)') = l
    BY <1>5, <1>6, <1>20
  <2>2. num_locks'[p] = 0 /\ (n + e) + l = 0
    <3>1. l = 0
      BY <1>6, <1>7, FS_EmptySet
    <3> QED  BY <1>7, <1>10, <1>19, <3>1
  <2> QED  BY <1>6, <1>18, <2>1, <2>2 DEF LocksOK
<1>22. LinksTo(p, y)
  <2>1. ~(num_locks'[p] > 0)
    BY <1>7, <1>19
  <2> QED  BY <1>0, <1>8, <2>1 DEF LinksTo
<1>23. MayComplete(p, y, s[1])
  <2>1. StackLocks(p)' = 0 /\ Linked(p)' = {} /\ s[1].cancel
    BY <1>5, <1>7, <1>10, <1>12, <1>18, <1>20, <1>100
  <2> QED  BY <1>0, <1>8, <1>12, <2>1 DEF MayComplete
<1>24. Typed
  BY <1>0, <1>1, <1>14, <1>19 DEF Typed, TypeInv, CountType, FlagType, LinkType, run_cancelled
<1>25. /\ s[1].conts = <<>> /\ y.at # "claim" /\ y.k \in Nat /\ y.k >= Top(t).k
  BY <1>3, <1>8, <1>12
<1> QED  BY <1>0, <1>2, <1>3, <1>8, <1>12, <1>13, <1>16, <1>20, <1>21, <1>22, <1>23, <1>24, <1>25, RunStep

\* The self-lock is the last lock: the invariant is kept by the settle that starts.
LEMMA DropLastKept ==
    ASSUME BlockInv, NEW t \in Threads, drop_self_lock(t),
           num_locks[Top(t).b] = ExecutionFlag + 1
    PROVE  BlockInv'
<1>0. /\ kind' = kind /\ refcount' = refcount /\ body_claimed' = body_claimed /\ completed' = completed
      /\ cancelled' = cancelled /\ prereq_cancelled' = prereq_cancelled /\ nested_parent' = nested_parent /\ continuations' = continuations
      /\ settle_synchronously' = settle_synchronously /\ queue' = queue /\ client' = client
  BY DEF drop_self_lock, blockVars
<1>1. TypeInv /\ RefsInv /\ LocksInv /\ ChildInv
  BY DEF BlockInv
<1>2. At(t, "run", "self_lock")
  BY DEF drop_self_lock
<1>3. PICK p, x : p = Top(t).b /\ x = Top(t)
  OBVIOUS
<1>4. PICK y : y = [Top(t) EXCEPT !.at = "drop"]
  OBVIOUS
<1>5. /\ p \in Parents /\ p \in Blocks /\ p \notin Children /\ Runs(t, p) /\ Base(t) = x
      /\ x.at = "self_lock" /\ x.f = "run" /\ RunFrame(x) /\ x \in FrameSet
      /\ body_claimed[p] <=> "self_lock" # "claim"
  BY <1>2, <1>3, RunHere
<1>6. PICK n, l, f : n = StackLocks(p) /\ l = Cardinality(Linked(p)) /\ f = ExecutionFlag
  OBVIOUS
<1>7. /\ n \in Nat /\ l \in Nat /\ f \in Nat /\ f > 1 /\ num_locks[p] \in Int
      /\ n >= 1 /\ num_locks[p] = f + n + l /\ num_locks[p] > 0
  BY <1>2, <1>3, <1>6, RunLocked
<1>8. /\ y \in FrameSet /\ y.f = "run" /\ y.b = p /\ y.at = "drop" /\ y.conts = <<>> /\ y.parent = NoBlock
      /\ x.k \in Nat /\ y.k = x.k /\ x.b = p
  <2>1. x.conts = <<>> /\ x.parent = NoBlock /\ x.k \in Nat /\ x.b = p
    BY <1>3, <1>5 DEF RunFrame, FrameSet
  <2> QED  BY <1>3, <1>4, <1>5, <2>1, GotoFrame
<1>9. RunFrame(y)
  BY <1>5, <1>8 DEF RunFrame
<1>10. PICK d \in Int, e \in Int : d = 0 /\ e = -1
  OBVIOUS
<1>11. RefsAt("drop") - RefsAt("self_lock") = d /\ LocksAt("drop") - LocksAt("self_lock") = e
  BY <1>10 DEF RefsAt, LocksAt
<1>100. PICK v \in BOOLEAN : v = FALSE /\ num_locks[Top(t).b] = ExecutionFlag + 1
  OBVIOUS
<1>12. PICK s \in Seq(FrameSet) :
              /\ Moves(t, s) /\ StackOK(s) /\ s # <<>>
              /\ s[1].f = "settle" /\ s[1].b = p /\ s[1].at = "lock" /\ s[1].cancel = v
              /\ s[1].conts = <<>> /\ s[Len(s)] = y
              /\ Steps(t, p, y) /\ CountsBy(p, d, e)
  <2>1. Call(t, "drop", settle(Top(t).b, v))
    BY <1>100 DEF drop_self_lock
  <2>2. d = -RefsAt("self_lock") /\ e = -LocksAt("self_lock")
    <3>1. RefsAt("drop") = 0 /\ LocksAt("drop") = 0 /\ RefsAt("self_lock") \in Int /\ LocksAt("self_lock") \in Int
      BY DEF RefsAt, LocksAt
    <3> QED  BY <1>11, <3>1
  <2> QED  BY <1>0, <1>2, <1>3, <1>4, <2>1, <2>2, RunSettlesOn
<1>13. body_claimed'[p] = TRUE /\ \A q \in Blocks : q # p => body_claimed'[q] = body_claimed[q]
  BY <1>0, <1>1, <1>3, <1>5 DEF TypeInv, FlagType
<1>14. /\ refcount' \in [Blocks -> Int]
       /\ \A b \in Blocks : refcount'[b] = refcount[b]
  BY <1>0, <1>1 DEF TypeInv, CountType
<1>15. RefsBy(p, "self_lock", y, d)
  <2>1. ~Destroys(p, "self_lock", y)
    BY <1>8 DEF Destroys, InBody
  <2>2. \A b \in Blocks : refcount[b] \in Int
    BY <1>1 DEF TypeInv, CountType
  <2> QED  BY <1>10, <1>14, <2>1, <2>2 DEF RefsBy
<1>16. RefsInv'
  <2>1. "self_lock" \in InBody \cup {"claim"} \/ y.at \notin InBody
    BY <1>8 DEF InBody
  <2> QED  BY <1>0, <1>2, <1>3, <1>12, <1>13, <1>15, <2>1, RunRefs
<1>17. \A b \in Blocks : /\ StackLocks(b) \in Nat
                           /\ StackLocks(b)' = StackLocks(b) + (IF b = p THEN e ELSE 0)
  BY <1>12 DEF CountsBy
<1>18. StackLocks(p)' = n + e
  BY <1>5, <1>6, <1>17
<1>19. /\ \A q \in Blocks : q # p => num_locks'[q] = num_locks[q] /\ settle_synchronously'[q] = settle_synchronously[q]
       /\ num_locks'[p] = num_locks[p] - 1 /\ num_locks' \in [Blocks -> Int]
       /\ settle_synchronously' \in [Blocks -> BOOLEAN]
  BY <1>0, <1>1, <1>3, <1>5 DEF TypeInv, CountType, FlagType, drop_self_lock
<1>20. Elsewhere(p) /\ \A q \in Blocks : Linked(q)' = Linked(q)
  BY <1>0, <1>12, <1>13, <1>19, ElsewhereKept
<1>21. LocksOK(p)'
  <2>1. Cardinality(Linked(p)') = l
    BY <1>5, <1>6, <1>20
  <2>2. num_locks'[p] = f + (n + e) + l
    BY <1>7, <1>10, <1>19
  <2> QED  BY <1>6, <1>18, <2>1, <2>2 DEF LocksOK
<1>22. LinksTo(p, y)
  <2>1. ASSUME NEW i \in DOMAIN Nested[p], num_locks'[p] > 0
        PROVE  \/ completed[Nested[p][i]] \/ nested_parent'[Nested[p][i]] = p
               \/ y.at \in InBody /\ i > y.k
    <3>1. completed[Nested[p][i]] \/ nested_parent[Nested[p][i]] = p \/ "self_lock" \in InBody
      BY <1>2, <1>3, <1>7, ChildFacts
    <3> QED  BY <1>0, <3>1 DEF InBody
  <2> QED  BY <1>0, <1>8, <2>1 DEF LinksTo
<1>23. MayComplete(p, y, s[1])
  <2>1. n = 1 /\ l = 0
    BY <1>3, <1>6, <1>7, <1>100
  <2>2. StackLocks(p)' = 0
    BY <1>10, <1>18, <2>1
  <2>3. Linked(p)' = {}
    BY <1>1, <1>5, <1>6, <1>20, <2>1, LinkedFinite, FS_EmptySet
  <2>4. num_locks'[p] > 0
    BY <1>7, <1>19, <2>1
  <2> QED  BY <1>0, <1>8, <1>12, <2>2, <2>3, <2>4 DEF MayComplete
<1>24. Typed
  BY <1>0, <1>1, <1>14, <1>19 DEF Typed, TypeInv, CountType, FlagType, LinkType
<1>25. /\ s[1].conts = <<>> /\ y.at # "claim" /\ y.k \in Nat /\ y.k >= Top(t).k
  BY <1>3, <1>8, <1>12
<1> QED  BY <1>0, <1>2, <1>3, <1>8, <1>12, <1>13, <1>16, <1>20, <1>21, <1>22, <1>23, <1>24, <1>25, RunStep

\* The self-lock is not the last lock: the invariant is kept.
LEMMA DropLockKept ==
    ASSUME BlockInv, NEW t \in Threads, drop_self_lock(t),
           num_locks[Top(t).b] # ExecutionFlag + 1
    PROVE  BlockInv'
<1>0. /\ kind' = kind /\ refcount' = refcount /\ body_claimed' = body_claimed /\ completed' = completed
      /\ cancelled' = cancelled /\ prereq_cancelled' = prereq_cancelled /\ nested_parent' = nested_parent /\ continuations' = continuations
      /\ settle_synchronously' = settle_synchronously /\ queue' = queue /\ client' = client
  BY DEF drop_self_lock, blockVars
<1>1. TypeInv /\ RefsInv /\ LocksInv /\ ChildInv
  BY DEF BlockInv
<1>2. At(t, "run", "self_lock")
  BY DEF drop_self_lock
<1>3. PICK p, x : p = Top(t).b /\ x = Top(t)
  OBVIOUS
<1>4. PICK y : y = [Top(t) EXCEPT !.at = "drop"]
  OBVIOUS
<1>5. /\ p \in Parents /\ p \in Blocks /\ p \notin Children /\ Runs(t, p) /\ Base(t) = x
      /\ x.at = "self_lock" /\ x.f = "run" /\ RunFrame(x) /\ x \in FrameSet
      /\ body_claimed[p] <=> "self_lock" # "claim"
  BY <1>2, <1>3, RunHere
<1>6. PICK n, l, f : n = StackLocks(p) /\ l = Cardinality(Linked(p)) /\ f = ExecutionFlag
  OBVIOUS
<1>7. /\ n \in Nat /\ l \in Nat /\ f \in Nat /\ f > 1 /\ num_locks[p] \in Int
      /\ n >= 1 /\ num_locks[p] = f + n + l /\ num_locks[p] > 0
  BY <1>2, <1>3, <1>6, RunLocked
<1>8. /\ y \in FrameSet /\ y.f = "run" /\ y.b = p /\ y.at = "drop" /\ y.conts = <<>> /\ y.parent = NoBlock
      /\ x.k \in Nat /\ y.k = x.k /\ x.b = p
  <2>1. x.conts = <<>> /\ x.parent = NoBlock /\ x.k \in Nat /\ x.b = p
    BY <1>3, <1>5 DEF RunFrame, FrameSet
  <2> QED  BY <1>3, <1>4, <1>5, <2>1, GotoFrame
<1>9. RunFrame(y)
  BY <1>5, <1>8 DEF RunFrame
<1>10. PICK d \in Int, e \in Int : d = 0 /\ e = -1
  OBVIOUS
<1>11. RefsAt("drop") - RefsAt("self_lock") = d /\ LocksAt("drop") - LocksAt("self_lock") = e
  BY <1>10 DEF RefsAt, LocksAt
<1>12. PICK s \in Seq(FrameSet) :
              /\ Moves(t, s) /\ StackOK(s) /\ s # <<>> /\ s[1] = y /\ s[Len(s)] = y
              /\ Steps(t, p, y) /\ CountsBy(p, d, e)
  <2>1. Put(t, y)
    BY <1>4 DEF drop_self_lock, Goto, Attached
  <2>2. d = RefsAt(y.at) - RefsAt("self_lock") /\ e = LocksAt(y.at) - LocksAt("self_lock")
    BY <1>8, <1>11
  <2> QED  BY <1>0, <1>2, <1>3, <1>8, <1>9, <2>1, <2>2, RunGoesOn
<1>13. body_claimed'[p] = TRUE /\ \A q \in Blocks : q # p => body_claimed'[q] = body_claimed[q]
  BY <1>0, <1>1, <1>3, <1>5 DEF TypeInv, FlagType
<1>14. /\ refcount' \in [Blocks -> Int]
       /\ \A b \in Blocks : refcount'[b] = refcount[b]
  BY <1>0, <1>1 DEF TypeInv, CountType
<1>15. RefsBy(p, "self_lock", y, d)
  <2>1. ~Destroys(p, "self_lock", y)
    BY <1>8 DEF Destroys, InBody
  <2>2. \A b \in Blocks : refcount[b] \in Int
    BY <1>1 DEF TypeInv, CountType
  <2> QED  BY <1>10, <1>14, <2>1, <2>2 DEF RefsBy
<1>16. RefsInv'
  <2>1. "self_lock" \in InBody \cup {"claim"} \/ y.at \notin InBody
    BY <1>8 DEF InBody
  <2> QED  BY <1>0, <1>2, <1>3, <1>12, <1>13, <1>15, <2>1, RunRefs
<1>17. \A b \in Blocks : /\ StackLocks(b) \in Nat
                           /\ StackLocks(b)' = StackLocks(b) + (IF b = p THEN e ELSE 0)
  BY <1>12 DEF CountsBy
<1>18. StackLocks(p)' = n + e
  BY <1>5, <1>6, <1>17
<1>19. /\ \A q \in Blocks : q # p => num_locks'[q] = num_locks[q] /\ settle_synchronously'[q] = settle_synchronously[q]
       /\ num_locks'[p] = num_locks[p] - 1 /\ num_locks' \in [Blocks -> Int]
       /\ settle_synchronously' \in [Blocks -> BOOLEAN]
  BY <1>0, <1>1, <1>3, <1>5 DEF TypeInv, CountType, FlagType, drop_self_lock
<1>20. Elsewhere(p) /\ \A q \in Blocks : Linked(q)' = Linked(q)
  BY <1>0, <1>12, <1>13, <1>19, ElsewhereKept
<1>21. LocksOK(p)'
  <2>1. Cardinality(Linked(p)') = l
    BY <1>5, <1>6, <1>20
  <2>2. num_locks'[p] = f + (n + e) + l
    BY <1>7, <1>10, <1>19
  <2> QED  BY <1>6, <1>18, <2>1, <2>2 DEF LocksOK
<1>22. LinksTo(p, y)
  <2>1. ASSUME NEW i \in DOMAIN Nested[p], num_locks'[p] > 0
        PROVE  \/ completed[Nested[p][i]] \/ nested_parent'[Nested[p][i]] = p
               \/ y.at \in InBody /\ i > y.k
    <3>1. completed[Nested[p][i]] \/ nested_parent[Nested[p][i]] = p \/ "self_lock" \in InBody
      BY <1>2, <1>3, <1>7, ChildFacts
    <3> QED  BY <1>0, <3>1 DEF InBody
  <2> QED  BY <1>0, <1>8, <2>1 DEF LinksTo
<1>23. MayComplete(p, y, s[1])
  <2>1. kind[p] = "op" => ~settle_synchronously[p]
    <3>1. SUFFICES ASSUME kind[p] = "op", settle_synchronously[p]
                   PROVE  FALSE
      OBVIOUS
    <3>2. PICK c \in Clients : Handle[c] = p
      BY <1>1, <1>5, <3>1, OwnerExists
    <3>3. OwnerOK(c)
      BY <3>1, <3>2 DEF BlockInv, OwnerInv
    <3>4. num_locks[p] = ExecutionFlag + 1
      BY <1>5, <3>1, <3>2, <3>3 DEF OwnerOK
    <3> QED  BY <1>3, <3>4
  <2> QED  BY <1>0, <1>8, <1>12, <2>1 DEF MayComplete
<1>24. Typed
  BY <1>0, <1>1, <1>14, <1>19 DEF Typed, TypeInv, CountType, FlagType, LinkType
<1>25. /\ s[1].conts = <<>> /\ y.at # "claim" /\ y.k \in Nat /\ y.k >= Top(t).k
  BY <1>3, <1>8, <1>12
<1> QED  BY <1>0, <1>2, <1>3, <1>8, <1>12, <1>13, <1>16, <1>20, <1>21, <1>22, <1>23, <1>24, <1>25, RunStep

\* run drops its self-lock: the invariant is kept.
LEMMA DropSelfLockKept ==
    ASSUME BlockInv, NEW t \in Threads, drop_self_lock(t)
    PROVE  BlockInv'
<1>1. CASE num_locks[Top(t).b] = ExecutionFlag + 1
  BY <1>1, DropLastKept
<1>2. CASE num_locks[Top(t).b] # ExecutionFlag + 1
  BY <1>2, DropLockKept
<1> QED  BY <1>1, <1>2

\* The child settled before it could be linked: the invariant is kept.
LEMMA LinkMissedKept ==
    ASSUME BlockInv, NEW t \in Threads, link_child(t), completed[NextChild(t)]
    PROVE  BlockInv'
<1>0. /\ kind' = kind /\ num_locks' = num_locks /\ refcount' = refcount /\ body_claimed' = body_claimed
      /\ completed' = completed /\ cancelled' = cancelled /\ prereq_cancelled' = prereq_cancelled /\ nested_parent' = nested_parent
      /\ continuations' = continuations /\ settle_synchronously' = settle_synchronously /\ queue' = queue /\ client' = client
  BY DEF link_child, blockVars
<1>1. TypeInv /\ RefsInv /\ LocksInv /\ ChildInv
  BY DEF BlockInv
<1>2. At(t, "run", "link")
  BY DEF link_child
<1>3. PICK p, x : p = Top(t).b /\ x = Top(t)
  OBVIOUS
<1>4. PICK y : y = [Top(t) EXCEPT !.at = "unlink"]
  OBVIOUS
<1>5. /\ p \in Parents /\ p \in Blocks /\ p \notin Children /\ Runs(t, p) /\ Base(t) = x
      /\ x.at = "link" /\ x.f = "run" /\ RunFrame(x) /\ x \in FrameSet
      /\ body_claimed[p] <=> "link" # "claim"
  BY <1>2, <1>3, RunHere
<1>6. PICK n, l, f : n = StackLocks(p) /\ l = Cardinality(Linked(p)) /\ f = ExecutionFlag
  OBVIOUS
<1>7. /\ n \in Nat /\ l \in Nat /\ f \in Nat /\ f > 1 /\ num_locks[p] \in Int
      /\ n >= 1 /\ num_locks[p] = f + n + l /\ num_locks[p] > 0
  BY <1>2, <1>3, <1>6, RunLocked
<1>8. /\ y \in FrameSet /\ y.f = "run" /\ y.b = p /\ y.at = "unlink" /\ y.conts = <<>> /\ y.parent = NoBlock
      /\ x.k \in Nat /\ y.k = x.k /\ x.b = p
  <2>1. x.conts = <<>> /\ x.parent = NoBlock /\ x.k \in Nat /\ x.b = p
    BY <1>3, <1>5 DEF RunFrame, FrameSet
  <2> QED  BY <1>3, <1>4, <1>5, <2>1, GotoFrame
<1>9. RunFrame(y)
  BY <1>5, <1>8 DEF RunFrame
<1>10. PICK d \in Int, e \in Int : d = 0 /\ e = 0
  OBVIOUS
<1>12. PICK s \in Seq(FrameSet) :
              /\ Moves(t, s) /\ StackOK(s) /\ s # <<>> /\ s[1].f = "release"
              /\ s[1].conts = <<>> /\ s[Len(s)] = y
              /\ Steps(t, p, y) /\ CountsBy(p, d, e)
  <2>1. Call(t, "unlink", Release(Top(t).b, FALSE))
    BY DEF link_child
  <2>2. PICK z \in Int : z = 0
    OBVIOUS
  <2>3. d = z /\ e = z
    BY <1>10, <2>2
  <2>4. PICK s \in Seq(FrameSet) :
              /\ Moves(t, s) /\ StackOK(s) /\ s # <<>> /\ s[1].f = "release"
              /\ s[1].conts = <<>> /\ s[Len(s)] = y
              /\ Steps(t, p, y) /\ CountsBy(p, z, z)
    BY <1>0, <1>2, <1>3, <1>4, <2>1, <2>2, RunReleasesOn
  <2> QED  BY <2>3, <2>4
<1>13. body_claimed'[p] = TRUE /\ \A q \in Blocks : q # p => body_claimed'[q] = body_claimed[q]
  BY <1>0, <1>1, <1>3, <1>5 DEF TypeInv, FlagType
<1>14. /\ refcount' \in [Blocks -> Int]
       /\ \A b \in Blocks : refcount'[b] = refcount[b]
  BY <1>0, <1>1 DEF TypeInv, CountType
<1>15. RefsBy(p, "link", y, d)
  <2>1. ~Destroys(p, "link", y)
    BY <1>8 DEF Destroys, InBody
  <2>2. \A b \in Blocks : refcount[b] \in Int
    BY <1>1 DEF TypeInv, CountType
  <2> QED  BY <1>10, <1>14, <2>1, <2>2 DEF RefsBy
<1>16. RefsInv'
  <2>1. "link" \in InBody \cup {"claim"} \/ y.at \notin InBody
    BY <1>8 DEF InBody
  <2> QED  BY <1>0, <1>2, <1>3, <1>12, <1>13, <1>15, <2>1, RunRefs
<1>17. \A b \in Blocks : /\ StackLocks(b) \in Nat
                           /\ StackLocks(b)' = StackLocks(b) + (IF b = p THEN e ELSE 0)
  BY <1>12 DEF CountsBy
<1>18. StackLocks(p)' = n + e
  BY <1>5, <1>6, <1>17
<1>19. /\ \A q \in Blocks : q # p => num_locks'[q] = num_locks[q] /\ settle_synchronously'[q] = settle_synchronously[q]
       /\ num_locks'[p] = num_locks[p] /\ num_locks' \in [Blocks -> Int]
       /\ settle_synchronously' \in [Blocks -> BOOLEAN]
  BY <1>0, <1>1 DEF TypeInv, CountType, FlagType
<1>20. Elsewhere(p) /\ \A q \in Blocks : Linked(q)' = Linked(q)
  BY <1>0, <1>12, <1>13, <1>19, ElsewhereKept
<1>21. LocksOK(p)'
  <2>1. Cardinality(Linked(p)') = l
    BY <1>5, <1>6, <1>20
  <2>2. num_locks'[p] = f + (n + e) + l
    BY <1>7, <1>10, <1>19
  <2> QED  BY <1>6, <1>18, <2>1, <2>2 DEF LocksOK
<1>22. LinksTo(p, y)
  <2>1. ASSUME NEW i \in DOMAIN Nested[p], num_locks'[p] > 0
        PROVE  \/ completed[Nested[p][i]] \/ nested_parent'[Nested[p][i]] = p
               \/ y.at \in InBody /\ i > y.k
    <3>1. completed[Nested[p][i]] \/ nested_parent[Nested[p][i]] = p \/ i > x.k
      BY <1>2, <1>3, <1>7, ChildFacts
    <3> QED  BY <1>0, <1>8, <3>1 DEF InBody
  <2>2. completed[Nested[p][y.k + 1]]
    BY <1>3, <1>8 DEF NextChild
  <2> QED  BY <1>0, <1>8, <2>1, <2>2 DEF LinksTo
<1>23. MayComplete(p, y, s[1])
  BY <1>0, <1>8, <1>12 DEF MayComplete
<1>24. Typed
  BY <1>0, <1>1, <1>14, <1>19 DEF Typed, TypeInv, CountType, FlagType, LinkType
<1>25. /\ s[1].conts = <<>> /\ y.at # "claim" /\ y.k \in Nat /\ y.k >= Top(t).k
  BY <1>3, <1>8, <1>12
<1> QED  BY <1>0, <1>2, <1>3, <1>8, <1>12, <1>13, <1>16, <1>20, <1>21, <1>22, <1>23, <1>24, <1>25, RunStep

\* The link to a parent is made.
LEMMA LinkCount ==
    ASSUME TypeInv, ChildInv, NEW c \in Children, NEW p \in Parents, nested_parent[c] = NoBlock,
           nested_parent' = [nested_parent EXCEPT ![c] = p], NEW x \in Blocks
    PROVE  /\ Cardinality(Linked(x)) \in Nat /\ Cardinality(Linked(x)') \in Nat
           /\ Cardinality(Linked(x)') = Cardinality(Linked(x)) + (IF x = p THEN 1 ELSE 0)
           /\ x # p => Linked(x)' = Linked(x)
<1>1. IsFiniteSet(Linked(x)) /\ Cardinality(Linked(x)) \in Nat
  BY LinkedFinite
<1>2. \A b \in Blocks : nested_parent'[b] = (IF b = c THEN p ELSE nested_parent[b])
  BY DEF TypeInv, LinkType
<1>3. p \in Blocks /\ NoBlock # p /\ NoBlock # x
  BY ConstantFacts DEF Blocks
<1>4. CASE x = p
  <2>1. Linked(x)' = Linked(x) \cup {c} /\ c \notin Linked(x)
    BY <1>2, <1>3, <1>4 DEF Linked, Blocks
  <2>2. PICK A, B : A = Linked(x) /\ B = Linked(x)'
    OBVIOUS
  <2>3. Cardinality(B) = Cardinality(A) + 1 /\ Cardinality(A) \in Nat
    BY <1>1, <2>1, <2>2, FS_AddElement
  <2>4. Cardinality(B) \in Nat
    BY <2>3
  <2> QED  BY <1>4, <2>2, <2>3, <2>4
<1>5. CASE x # p
  <2>1. Linked(x)' = Linked(x)
    BY <1>2, <1>3, <1>5 DEF Linked, Blocks
  <2> QED  BY <1>1, <1>5, <2>1
<1> QED  BY <1>4, <1>5

\* The child is linked to its parent: the invariant is kept.
LEMMA LinkMadeKept ==
    ASSUME BlockInv, NEW t \in Threads, link_child(t), ~completed[NextChild(t)]
    PROVE  BlockInv'
<1>0. /\ kind' = kind /\ num_locks' = num_locks /\ refcount' = refcount /\ body_claimed' = body_claimed
      /\ completed' = completed /\ cancelled' = cancelled /\ prereq_cancelled' = prereq_cancelled /\ continuations' = continuations
      /\ settle_synchronously' = settle_synchronously /\ queue' = queue /\ client' = client
  BY DEF link_child, blockVars
<1>1. TypeInv /\ RefsInv /\ LocksInv /\ ChildInv
  BY DEF BlockInv
<1>2. At(t, "run", "link")
  BY DEF link_child
<1>3. PICK p, x : p = Top(t).b /\ x = Top(t)
  OBVIOUS
<1>4. PICK y : y = Attached(Top(t))
  OBVIOUS
<1>5. /\ p \in Parents /\ p \in Blocks /\ p \notin Children /\ Runs(t, p) /\ Base(t) = x
      /\ x.at = "link" /\ x.f = "run" /\ RunFrame(x) /\ x \in FrameSet
      /\ body_claimed[p] <=> "link" # "claim"
  BY <1>2, <1>3, RunHere
<1>6. PICK n, l, f : n = StackLocks(p) /\ l = Cardinality(Linked(p)) /\ f = ExecutionFlag
  OBVIOUS
<1>7. /\ n \in Nat /\ l \in Nat /\ f \in Nat /\ f > 1 /\ num_locks[p] \in Int
      /\ n >= 1 /\ num_locks[p] = f + n + l /\ num_locks[p] > 0
  BY <1>2, <1>3, <1>6, RunLocked
<1>8. /\ y \in FrameSet /\ y.f = "run" /\ y.b = p /\ y.at = "body" /\ y.conts = <<>> /\ y.parent = NoBlock
      /\ x.k \in Nat /\ y.k = x.k + 1 /\ x.b = p
  <2>1. x.conts = <<>> /\ x.parent = NoBlock /\ x.k \in Nat /\ x.b = p
    BY <1>3, <1>5 DEF RunFrame, FrameSet
  <2> QED  BY <1>3, <1>4, <1>5, <2>1, NextFrame
<1>9. RunFrame(y)
  <2>1. Len(Nested[p]) \in Nat
    BY <1>5, ConstantFacts
  <2>2. x.k < Len(Nested[p])
    BY <1>5, <1>8 DEF RunFrame
  <2>3. y.k <= Len(Nested[p])
    BY <1>8, <2>1, <2>2
  <2> QED  BY <1>5, <1>8, <2>3 DEF RunFrame
<1>10. PICK d \in Int, e \in Int : d = -1 /\ e = -1
  OBVIOUS
<1>11. RefsAt("body") - RefsAt("link") = d /\ LocksAt("body") - LocksAt("link") = e
  BY <1>10 DEF RefsAt, LocksAt
<1>12. PICK s \in Seq(FrameSet) :
              /\ Moves(t, s) /\ StackOK(s) /\ s # <<>> /\ s[1] = y /\ s[Len(s)] = y
              /\ Steps(t, p, y) /\ CountsBy(p, d, e)
  <2>1. Put(t, y)
    BY <1>4 DEF link_child, Goto, Attached
  <2>2. d = RefsAt(y.at) - RefsAt("link") /\ e = LocksAt(y.at) - LocksAt("link")
    BY <1>8, <1>11
  <2> QED  BY <1>0, <1>2, <1>3, <1>8, <1>9, <2>1, <2>2, RunGoesOn
<1>13. body_claimed'[p] = TRUE /\ \A q \in Blocks : q # p => body_claimed'[q] = body_claimed[q]
  BY <1>0, <1>1, <1>3, <1>5 DEF TypeInv, FlagType
<1>14. /\ refcount' \in [Blocks -> Int]
       /\ \A b \in Blocks : refcount'[b] = refcount[b]
  BY <1>0, <1>1 DEF TypeInv, CountType
<1>15. PICK c \in Children : /\ c = Nested[p][x.k + 1] /\ x.k + 1 \in DOMAIN Nested[p] /\ ~completed[c]
                             /\ nested_parent' = [nested_parent EXCEPT ![c] = p]
  <2>1. x.k + 1 \in DOMAIN Nested[p] /\ Nested[p][x.k + 1] \in Children
    BY <1>1, <1>5, UnlinkChild
  <2> QED  BY <1>3, <2>1 DEF link_child, NextChild
<1>151. nested_parent[c] = NoBlock
  <2>1. SUFFICES ASSUME nested_parent[c] # NoBlock
                 PROVE  FALSE
    OBVIOUS
  <2>2. PICK q \in Parents : nested_parent[c] = q
    BY <1>1, <2>1 DEF TypeInv, LinkType, Blocks
  <2>3. PICK i \in DOMAIN Nested[q] : c = Nested[q][i] /\ \A u \in Threads : Runs(u, q) => i <= Base(u).k
    BY <1>1, <2>2 DEF ChildInv
  <2>4. c \in Range(Nested[q])
    BY <2>3, NestedFacts
  <2>5. q = p
    BY <1>5, <1>15, <2>4, NestedFacts
  <2>6. i = x.k + 1 /\ i <= x.k
    BY ZenonT(60), <1>5, <1>15, <2>3, <2>5, NestedFacts
  <2> QED  BY <1>8, <2>6
<1>152. ASSUME NEW b \in Blocks
        PROVE  /\ Cardinality(Linked(b)) \in Nat /\ Cardinality(Linked(b)') \in Nat
               /\ Cardinality(Linked(b)') = Cardinality(Linked(b)) + (IF b = p THEN 1 ELSE 0)
               /\ b # p => Linked(b)' = Linked(b)
  BY <1>1, <1>5, <1>15, <1>151, LinkCount
<1>153. \A q \in Parents : Lives(q)' <=> Lives(q)
  <2>1. /\ \A q \in Parents : q # p => (Lives(q)' <=> Lives(q))
        /\ kind[p] # "task" => (Lives(p)' <=> Lives(p))
        /\ kind[p] = "task" => /\ Lives(p)' <=> y.at \in InBody
                               /\ Lives(p) <=> "link" \in InBody \cup {"claim"}
    BY <1>0, <1>2, <1>3, <1>12, <1>13, LivesStep
  <2> QED  BY <1>8, <2>1 DEF InBody
<1>16. RefsInv'
  <2>1. ASSUME NEW b \in Blocks, Counted(b)
        PROVE  \E g, h \in Int : /\ Rest(b)' = Rest(b) + g /\ StackRefs(b)' = StackRefs(b) + h
                                 /\ refcount'[b] = refcount[b] + g + h
    <3>1. PICK g \in Int, h \in Int : g = (IF b = p THEN 1 ELSE 0) /\ h = (IF b = p THEN -1 ELSE 0)
      OBVIOUS
    <3>2. StackRefs(b)' = StackRefs(b) + h
      BY <1>10, <1>12, <3>1 DEF CountsBy
    <3>3. /\ Cardinality(HeldBy(b)') = Cardinality(HeldBy(b)) /\ Owned(b)' = Owned(b)
          /\ Cardinality(Captors(b)') = Cardinality(Captors(b))
      <4>1. HeldBy(b)' = HeldBy(b)
        BY <1>0, HeldSame
      <4>2. Owned(b)' = Owned(b)
        BY <1>0 DEF Owned
      <4> QED  BY <1>153, <4>1, <4>2, CaptorsSame
    <3>4. /\ Cardinality(HeldBy(b)) \in Nat /\ Cardinality(Captors(b)) \in {0, 1} /\ Owned(b) \in Nat
          /\ Cardinality(Linked(b)) \in Nat
      BY <1>152, HeldFinite, CaptorsCount DEF Owned
    <3>5. Cardinality(Linked(b)') = Cardinality(Linked(b)) + g
      BY <1>152, <3>1
    <3>6. Rest(b)' = Rest(b) + g
      BY <3>3, <3>4, <3>5 DEF Rest
    <3>7. refcount'[b] = refcount[b] /\ refcount[b] \in Int
      BY <1>0, <1>1 DEF TypeInv, CountType
    <3>8. refcount'[b] = refcount[b] + g + h
      BY <3>1, <3>7
    <3> QED  BY <3>2, <3>6, <3>8
  <2>2. \A b \in Blocks : ~Counted(b) => refcount'[b] = refcount[b]
    BY <1>0
  <2> QED  BY <1>0, <1>1, <2>1, <2>2, RefsMove
<1>17. \A b \in Blocks : /\ StackLocks(b) \in Nat
                           /\ StackLocks(b)' = StackLocks(b) + (IF b = p THEN e ELSE 0)
  BY <1>12 DEF CountsBy
<1>18. StackLocks(p)' = n + e
  BY <1>5, <1>6, <1>17
<1>19. /\ \A q \in Blocks : q # p => num_locks'[q] = num_locks[q] /\ settle_synchronously'[q] = settle_synchronously[q]
       /\ num_locks'[p] = num_locks[p] /\ num_locks' \in [Blocks -> Int]
       /\ settle_synchronously' \in [Blocks -> BOOLEAN]
  BY <1>0, <1>1 DEF TypeInv, CountType, FlagType
<1>20. Elsewhere(p)
  <2>1. ASSUME NEW q \in Blocks, q # p
        PROVE  /\ num_locks'[q] = num_locks[q] /\ body_claimed'[q] = body_claimed[q]
               /\ settle_synchronously'[q] = settle_synchronously[q]
               /\ StackLocks(q)' = StackLocks(q) /\ Linked(q)' = Linked(q)
    <3>1. StackLocks(q) \in Nat /\ StackLocks(q)' = StackLocks(q) + 0
      BY <1>17, <2>1
    <3>2. StackLocks(q)' = StackLocks(q)
      BY <3>1
    <3> QED  BY <1>0, <1>152, <2>1, <3>2
  <2> QED  BY <2>1 DEF Elsewhere
<1>21. LocksOK(p)'
  <2>1. Cardinality(Linked(p)') = l + 1
    BY <1>5, <1>6, <1>152
  <2>2. num_locks'[p] = f + (n + e) + (l + 1)
    BY <1>7, <1>10, <1>19
  <2> QED  BY <1>6, <1>18, <2>1, <2>2 DEF LocksOK
<1>22. LinksTo(p, y)
  <2>0. \A b \in Blocks : nested_parent'[b] = (IF b = c THEN p ELSE nested_parent[b])
    BY <1>1, <1>15 DEF TypeInv, LinkType
  <2>1. ASSUME NEW i \in DOMAIN Nested[p]
        PROVE  \/ completed[Nested[p][i]] \/ nested_parent'[Nested[p][i]] = p
               \/ y.at \in InBody /\ i > y.k
    <3>1. completed[Nested[p][i]] \/ nested_parent[Nested[p][i]] = p \/ i > x.k
      BY <1>2, <1>3, <1>7, ChildFacts
    <3>2. i \in Nat /\ Nested[p][i] \in Children /\ Nested[p][i] \in Blocks
      BY <1>5, NestedFacts DEF Blocks
    <3>3. i > x.k => i = x.k + 1 \/ i > y.k
      BY <1>8, <3>2
    <3>4. nested_parent[Nested[p][i]] = p => nested_parent'[Nested[p][i]] = p
      BY <2>0, <3>2
    <3>5. i = x.k + 1 => nested_parent'[Nested[p][i]] = p
      BY <1>15, <2>0, <3>2
    <3> QED  BY <1>8, <3>1, <3>3, <3>4, <3>5 DEF InBody
  <2>2. ASSUME NEW b \in Children
        PROVE  \/ nested_parent'[b] = nested_parent[b]
               \/ /\ nested_parent'[b] = p /\ ~completed[b]
                  /\ \E i \in DOMAIN Nested[p] : b = Nested[p][i] /\ i <= y.k
    <3>1. CASE b = c
      <4>1. b = Nested[p][x.k + 1] /\ x.k + 1 <= y.k
        BY <1>8, <1>15, <3>1
      <4> QED  BY <1>15, <2>0, <3>1, <4>1 DEF Blocks
    <3>2. CASE b # c
      BY <2>0, <3>2 DEF Blocks
    <3> QED  BY <3>1, <3>2
  <2>3. \A q \in Parents : nested_parent'[q] = nested_parent[q]
    BY <2>0, ConstantFacts DEF Blocks
  <2> QED  BY <1>8, <2>1, <2>2, <2>3 DEF LinksTo
<1>23. MayComplete(p, y, s[1])
  BY <1>0, <1>8, <1>12 DEF MayComplete
<1>24. Typed
  <2>1. nested_parent' \in [Blocks -> Parents \cup {NoBlock}]
    BY <1>1, <1>5, <1>15 DEF TypeInv, LinkType
  <2> QED  BY <1>0, <1>1, <1>14, <1>19, <2>1 DEF Typed, TypeInv, CountType, FlagType, LinkType
<1>25. /\ s[1].conts = <<>> /\ y.at # "claim" /\ y.k \in Nat /\ y.k >= Top(t).k
  BY <1>3, <1>8, <1>12
<1> QED  BY <1>0, <1>2, <1>3, <1>8, <1>12, <1>13, <1>16, <1>20, <1>21, <1>22, <1>23, <1>24, <1>25, RunStep

\* add_nested looks at the child under the child's lock: the invariant is kept.
LEMMA LinkChildKept ==
    ASSUME BlockInv, NEW t \in Threads, link_child(t)
    PROVE  BlockInv'
<1>1. CASE completed[NextChild(t)]
  BY <1>1, LinkMissedKept
<1>2. CASE ~completed[NextChild(t)]
  BY <1>2, LinkMadeKept
<1> QED  BY <1>1, <1>2

-----------------------------------------------------------------------------
(* Pins, handles and the queue *)

\* What a step may do to the owner of an access.
OwnerMoves(c) ==
    \/ client'[c] = client[c]
    \/ client'[c] \in {"served", "gone"} /\ completed[Handle[c]]
    \/ ~settle_synchronously[Handle[c]] /\ client'[c] \notin {"served", "gone"}

\* A step that leaves dispatches, locks and flags alone.
LEMMA RefStep ==
    ASSUME BlockInv, NEW t \in Threads, NEW s \in Seq(FrameSet), Moves(t, s), StackOK(s), RunsKept,
           UNCHANGED <<kind, num_locks, body_claimed, completed, cancelled, prereq_cancelled,
                       nested_parent, continuations, settle_synchronously>>,
           refcount' \in [Blocks -> Int], queue' \subseteq Parents, RefsInv', RunInv',
           \A b \in Blocks : M(s, b) = M(stack[t], b),
           s # <<>> => s[1].conts = <<>>,
           s # <<>> /\ s[1].f = "settle" => s[1].b \in Children,
           stack[t] # <<>> /\ Top(t).f = "settle" => Top(t).b \in Children,
           client' \in [Clients -> {"dormant", "idle", "blocked", "attached", "served", "gone"}],
           \A c \in Clients : client[c] \in {"attached", "gone"} => client'[c] = client[c],
           \A c \in Clients : kind[Handle[c]] = "op" => OwnerMoves(c)
    PROVE  BlockInv'
<1>0. /\ kind' = kind /\ num_locks' = num_locks /\ body_claimed' = body_claimed /\ completed' = completed
      /\ cancelled' = cancelled /\ prereq_cancelled' = prereq_cancelled /\ nested_parent' = nested_parent
      /\ settle_synchronously' = settle_synchronously /\ continuations' = continuations
  OBVIOUS
<1>1. TypeInv /\ LocksInv /\ SettleInv /\ ChildInv /\ AttachInv /\ OwnerInv
  BY DEF BlockInv
<1>2. /\ s # <<>> => Top(t)' = s[1]
      /\ \A b \in Blocks : Settles(t, b)' <=> s # <<>> /\ s[1].f = "settle" /\ s[1].b = b
      /\ \A u \in Threads : u # t => Top(u)' = Top(u) /\ \A b \in Blocks : Settles(u, b)' <=> Settles(u, b)
  BY <1>1, FrameMove
<1>3. TypeInv'
  <2>1. /\ num_locks' \in [Blocks -> Int] /\ \A c \in Children : num_locks'[c] = num_locks[c]
        /\ body_claimed' \in [Blocks -> BOOLEAN]
        /\ settle_synchronously' \in [Blocks -> BOOLEAN]
        /\ nested_parent' \in [Blocks -> Parents \cup {NoBlock}]
    BY <1>0, <1>1 DEF TypeInv, CountType, FlagType, LinkType
  <2>2. UNCHANGED <<kind, completed, cancelled, prereq_cancelled, continuations>>
    BY <1>0
  <2> QED  BY <1>1, <2>1, <2>2, TypeStep
<1>4. \A b \in Blocks : StackLocks(b)' = StackLocks(b)
  <2>1. ASSUME NEW b \in Blocks
        PROVE  StackLocks(b)' = StackLocks(b)
    <3>1. StackLocks(b) \in Nat /\ StackLocks(b)' = StackLocks(b) + M(s, b) - M(stack[t], b)
      BY <1>0, <1>1, StackMove
    <3>2. M(s, b) \in Int /\ M(s, b) = M(stack[t], b)
      BY WeightInt
    <3> QED  BY <3>1, <3>2
  <2> QED  BY <2>1
<1>5. LocksInv'
  BY <1>0, <1>1, <1>4, LocksKept DEF Blocks
<1>6. ChildInv'
  <2>1. \A c \in Children : nested_parent'[c] # NoBlock => ~completed'[c]
    BY <1>0, <1>1 DEF ChildInv, TypeInv, LinkType, Blocks
  <2>2. \A p \in Parents : nested_parent'[p] = NoBlock
    BY <1>0, <1>1 DEF ChildInv
  <2>3. \A p \in Parents : num_locks'[p] > 0 => num_locks[p] > 0
    BY <1>0
  <2>4. \A c \in Children : completed[c] => completed'[c]
    BY <1>0
  <2>5. \A c \in Children : \/ nested_parent'[c] = nested_parent[c]
                            \/ nested_parent'[c] = NoBlock /\ completed'[c]
    BY <1>0
  <2> QED  BY <1>1, <2>1, <2>2, <2>3, <2>4, <2>5, ChildKept
<1>7. SettleInv'
  <2>1. ASSUME NEW p \in Parents
        PROVE  SettleOK(p)'
    <3>1. SettleOK(p) /\ p \in Blocks /\ p \notin Children
      BY <1>1, ConstantFacts DEF SettleInv, Blocks
    <3>2. Linked(p)' = Linked(p)
      BY <1>0 DEF Linked
    <3>3. \A u \in Threads : Settles(u, p)' =>
                /\ Settles(u, p) /\ (Top(u)'.at = "lock" <=> Top(u).at = "lock")
                /\ Top(u)'.cancel = Top(u).cancel
      BY <1>2, <3>1
    <3> QED  BY <1>0, <1>4, <3>1, <3>2, <3>3, SettleKept
  <2> QED  BY <2>1 DEF SettleInv
<1>8. OwnerInv'
  <2>1. ASSUME NEW c \in Clients, kind[Handle[c]] = "op"
        PROVE  OwnerOK(c)'
    <3>1. /\ Handle[c] \in Parents /\ c \in Threads /\ Handle[c] \in Blocks /\ OwnerOK(c)
          /\ Handle[c] \notin Children
      BY <1>1, <2>1, OpIsParent, ConstantFacts DEF OwnerInv
    <3>2. ~completed[Handle[c]] /\ Settles(c, Handle[c]) => Settles(c, Handle[c])'
      BY <1>2, <3>1 DEF Settles
    <3>3. CASE client'[c] = client[c]
      BY <1>0, <1>1, <2>1, <3>1, <3>2, <3>3, OwnerKept
    <3>4. CASE client'[c] \in {"served", "gone"} /\ completed[Handle[c]]
      <4>1. \A u \in Threads : Runs(u, Handle[c])' => Runs(u, Handle[c]) /\ Base(u)' = Base(u)
        BY <3>1 DEF RunsKept
      <4> QED  BY <1>0, <3>1, <3>4, <4>1 DEF OwnerOK
    <3>5. CASE ~settle_synchronously[Handle[c]] /\ client'[c] \notin {"served", "gone"}
      BY <1>0, <3>5 DEF OwnerOK
    <3> QED  BY <2>1, <3>3, <3>4, <3>5 DEF OwnerMoves
  <2> QED  BY <1>0, <2>1 DEF OwnerInv
<1>9. AttachInv'
  <2>1. \A x \in Blocks : (completed[x] => completed'[x]) /\ (continuations[x] # <<>> => ~completed'[x])
    BY <1>0, <1>1 DEF AttachInv, ContsOK
  <2> QED  BY <1>0, <1>1, <2>1, AttachMove
<1> QED  BY <1>3, <1>5, <1>6, <1>7, <1>8, <1>9 DEF BlockInv

\* The references to p that frames hold, and its count, move by d.
Pins(s, z, p, d) ==
    \A b \in Blocks : /\ G(s, b) = G(z, b) + (IF b = p THEN d ELSE 0)
                      /\ refcount'[b] = refcount[b] + (IF b = p /\ Counted(b) THEN d ELSE 0)
RestKept == \A b \in Blocks : Counted(b) => Rest(b)' = Rest(b)

\* References after a step that keeps what no frame holds.
LEMMA PinRefs ==
    ASSUME BlockInv, NEW t \in Threads, NEW s \in Seq(FrameSet), Moves(t, s), StackOK(s), kind' = kind,
           RestKept, NEW p, NEW d \in Int, Pins(s, stack[t], p, d)
    PROVE  RefsInv'
<1>1. TypeInv /\ ChildInv /\ RefsInv
  BY DEF BlockInv
<1>2. ASSUME NEW b \in Blocks, Counted(b)
      PROVE  \E m, n \in Int : /\ Rest(b)' = Rest(b) + m /\ StackRefs(b)' = StackRefs(b) + n
                               /\ refcount'[b] = refcount[b] + m + n
  <2>1. Rest(b)' = Rest(b) /\ Rest(b) \in Nat /\ refcount[b] \in Int
    BY <1>1, <1>2, RestNat DEF TypeInv, CountType, RestKept
  <2>2. PICK n \in Int : n = (IF b = p THEN d ELSE 0)
    OBVIOUS
  <2>3. StackRefs(b) \in Nat /\ StackRefs(b)' = StackRefs(b) + G(s, b) - G(stack[t], b)
    BY <1>1, StackMove
  <2>4. G(s, b) = G(stack[t], b) + n /\ G(stack[t], b) \in Int
    BY <2>2, WeightInt DEF Pins
  <2>5. StackRefs(b)' = StackRefs(b) + n
    BY <2>3, <2>4
  <2>6. refcount'[b] = refcount[b] + n
    BY <1>2, <2>2 DEF Pins
  <2>7. Rest(b)' = Rest(b) + 0 /\ refcount'[b] = refcount[b] + 0 + n
    BY <2>1, <2>6
  <2> QED  BY <2>5, <2>7
<1>3. ASSUME NEW b \in Blocks, ~Counted(b)
      PROVE  refcount'[b] = refcount[b]
  <2>1. refcount[b] \in Int
    BY <1>1 DEF TypeInv, CountType
  <2>2. refcount'[b] = refcount[b] + 0
    BY <1>3 DEF Pins
  <2> QED  BY <2>1, <2>2
<1> QED  BY <1>1, <1>2, <1>3, RefsMove

\* The frame of a settle that has dropped the parent.
Orphaned(x) == [x EXCEPT !.parent = NoBlock, !.at = "on_complete"]

\* A settle that has dropped its parent.
LEMMA OrphanedFrame ==
    ASSUME NEW x, x \in FrameSet
    PROVE  /\ Orphaned(x) \in FrameSet /\ Orphaned(x).f = x.f /\ Orphaned(x).b = x.b
           /\ Orphaned(x).at = "on_complete" /\ Orphaned(x).conts = x.conts /\ Orphaned(x).parent = NoBlock
  BY DEF FrameSet, Orphaned

\* The settle of a child drops its reference to the parent: the invariant is kept.
LEMMA DropParentKept ==
    ASSUME BlockInv, NEW t \in Threads, drop_parent(t)
    PROVE  BlockInv'
<1>0. /\ kind' = kind /\ num_locks' = num_locks /\ body_claimed' = body_claimed /\ completed' = completed
      /\ cancelled' = cancelled /\ prereq_cancelled' = prereq_cancelled /\ nested_parent' = nested_parent
      /\ settle_synchronously' = settle_synchronously /\ continuations' = continuations
      /\ queue' = queue /\ client' = client
  BY DEF drop_parent, blockVars
<1>1. TypeInv /\ RunInv
  BY DEF BlockInv
<1>2. At(t, "settle", "drop_parent")
  BY DEF drop_parent
<1>3. PICK x, y, p : x = Top(t) /\ y = Orphaned(Top(t)) /\ p = Top(t).parent
  OBVIOUS
<1>4. /\ stack[t] # <<>> /\ x = stack[t][1] /\ x \in FrameSet /\ stack[t] \in Seq(FrameSet)
      /\ x.f = "settle" /\ x.at = "drop_parent"
      /\ SettleOfRun(stack[t]) \/ SettleOfChild(stack[t]) \/ SettleOfParent(stack[t])
  BY <1>1, <1>2, <1>3, SettleShape
<1>5. SettleOfChild(stack[t])
  BY <1>4 DEF SettleOfRun, SettleOfParent, ParentSettle
<1>6. /\ Len(stack[t]) = 2 /\ TriggerFrame(stack[t][2]) /\ ChildSettle(x) /\ x.b = stack[t][2].b
  BY <1>4, <1>5 DEF SettleOfChild
<1>7. x.b \in Children /\ x.conts = <<>> /\ p \in Parents /\ p \in Blocks
  <2>1. x.parent \in Parents \cup {NoBlock}
    BY <1>4 DEF FrameSet
  <2> QED  BY <1>3, <1>4, <1>6, <2>1 DEF ChildSettle, Blocks
<1>8. y \in FrameSet /\ y.f = "settle" /\ y.b = x.b /\ y.at = "on_complete" /\ y.conts = <<>> /\ y.parent = NoBlock
  BY <1>3, <1>4, <1>7, OrphanedFrame
<1>9. ChildSettle(y)
  BY <1>7, <1>8 DEF ChildSettle
<1>10. PICK s \in Seq(FrameSet) :
              /\ Moves(t, s) /\ RunsKept
              /\ Len(s) = Len(stack[t]) /\ s[1] = y /\ s[2] = stack[t][2]
              /\ Len(s) = 3 => s[3] = stack[t][3]
  <2>1. Put(t, y)
    BY <1>3 DEF drop_parent, Orphaned
  <2>2. Top(t).f \in {"settle", "release"}
    BY <1>3, <1>4
  <2> QED  BY <1>1, <1>4, <1>8, <2>1, <2>2, UpperPut
<1>11. Len(s) = 2 /\ s # <<>>
  <2>1. Len(s) = 2
    BY <1>6, <1>10
  <2>2. Len(s) > 0
    BY <2>1
  <2> QED  BY <2>1, <2>2, NonEmpty, Zenon
<1>12. StackOK(s)
  BY <1>6, <1>8, <1>9, <1>10, <1>11 DEF StackOK
<1>13. PICK d \in Int : d = -1
  OBVIOUS
<1>14. ASSUME NEW b \in Blocks
       PROVE  G(s, b) = G(stack[t], b) + (IF b = p THEN d ELSE 0) /\ M(s, b) = M(stack[t], b)
  <2>1. PICK z : z = stack[t]
    OBVIOUS
  <2>2. /\ G(z, b) = (IF b = z[2].b THEN 1 ELSE 0) + (IF b = z[1].parent THEN 1 ELSE 0)
        /\ M(z, b) = (IF b = z[1].parent /\ z[1].at # "drop_parent" THEN 1 ELSE 0)
    BY <1>4, <1>6, <2>1, HasTriggerSettle
  <2>3. /\ G(s, b) = (IF b = s[2].b THEN 1 ELSE 0) + (IF b = s[1].parent THEN 1 ELSE 0)
        /\ M(s, b) = (IF b = s[1].parent /\ s[1].at # "drop_parent" THEN 1 ELSE 0)
    BY <1>6, <1>9, <1>10, <1>11, HasTriggerSettle
  <2>4. /\ s[2] = z[2] /\ s[1].parent = NoBlock /\ z[1].parent = p /\ z[1].at = "drop_parent" /\ b # NoBlock
    BY <1>3, <1>4, <1>8, <1>10, <2>1, ConstantFacts
  <2>5. G(s, b) = G(z, b) + (IF b = p THEN d ELSE 0) /\ M(s, b) = M(z, b)
    BY <1>13, <2>2, <2>3, <2>4
  <2> QED  BY <2>1, <2>5
<1>15. /\ refcount' \in [Blocks -> Int]
       /\ \A b \in Blocks : refcount'[b] = refcount[b] + (IF b = p /\ Counted(b) THEN d ELSE 0)
  <2>1. refcount \in [Blocks -> Int] /\ refcount' = Minus(refcount, p)
    BY <1>1, <1>3 DEF TypeInv, CountType, drop_parent
  <2>2. refcount' \in [Blocks -> Int] /\ \A b \in Blocks : refcount'[b] = refcount[b] - (IF b = p /\ Counted(b) THEN 1 ELSE 0)
    BY <1>7, <2>1, PlusFacts
  <2> QED  BY <1>13, <2>1, <2>2
<1>16. \A b \in Blocks : Rest(b)' = Rest(b)
  <2>1. \A q \in Parents : Lives(q)' <=> Lives(q)
    BY <1>0, <1>10, LivesKept
  <2> QED  BY <1>0, <2>1, RestSame
<1>17. RefsInv'
  <2>1. Pins(s, stack[t], p, d)
    BY <1>14, <1>15 DEF Pins
  <2>2. RestKept
    BY <1>16 DEF RestKept
  <2> QED  BY <1>0, <1>10, <1>12, <2>1, <2>2, PinRefs
<1>18. RunInv'
  <2>1. \A q \in Parents : ~body_claimed[q] => num_locks'[q] = num_locks[q] /\ completed'[q] = completed[q]
    BY <1>0
  <2>2. ASSUME NEW c \in Clients, client'[c] = "dormant"
        PROVE  client[c] = "dormant" /\ stack'[c] = stack[c]
    <3>1. client[c] = "dormant" /\ stack[c] = <<>> /\ c \in Threads
      BY <1>0, <1>1, <2>2, ConstantFacts DEF RunInv
    <3> QED  BY <1>1, <1>4, <1>10, <3>1, MoveFacts
  <2> QED  BY <1>0, <1>1, <1>10, <2>1, <2>2, RunKept
<1>19. /\ queue' \subseteq Parents
       /\ client' \in [Clients -> {"dormant", "idle", "blocked", "attached", "served", "gone"}]
  BY <1>0, <1>1 DEF TypeInv, LinkType
<1>20. \A c \in Clients : kind[Handle[c]] = "op" => OwnerMoves(c)
  BY <1>0 DEF OwnerMoves
<1>21. Top(t).f = "settle" /\ Top(t).b \in Children /\ s[1].conts = <<>> /\ s[1].b \in Children
  BY <1>3, <1>4, <1>7, <1>8, <1>10
<1> QED  BY <1>0, <1>10, <1>12, <1>14, <1>15, <1>17, <1>18, <1>19, <1>20, <1>21, RefStep

\* A trigger drops the reference that pinned its block: the invariant is kept.
LEMMA UnpinKept ==
    ASSUME BlockInv, NEW t \in Threads, unpin(t)
    PROVE  BlockInv'
<1>0. /\ kind' = kind /\ num_locks' = num_locks /\ body_claimed' = body_claimed /\ completed' = completed
      /\ cancelled' = cancelled /\ prereq_cancelled' = prereq_cancelled /\ nested_parent' = nested_parent
      /\ settle_synchronously' = settle_synchronously /\ continuations' = continuations
      /\ queue' = queue /\ client' = client
  BY DEF unpin, blockVars
<1>1. TypeInv /\ RunInv
  BY DEF BlockInv
<1>2. PICK x, p : x = Top(t) /\ p = Top(t).b
  OBVIOUS
<1>3. stack[t] # <<>> /\ x.f = "trigger"
  BY <1>2 DEF unpin, At
<1>4. stack[t] \in Seq(FrameSet) /\ StackOK(stack[t]) /\ x = stack[t][1] /\ x \in FrameSet
  BY <1>1, <1>2, <1>3, TopFacts
<1>5. Len(stack[t]) # 0
  BY <1>3, <1>4
<1>6. Len(stack[t]) = 1 /\ TriggerFrame(stack[t][1])
  BY <1>3, <1>4, <1>5 DEF StackOK, RunFrame, ParentSettle, ChildSettle, ReleaseFrame
<1>7. p \in Blocks
  BY <1>2, <1>4 DEF FrameSet
<1>8. PICK s \in Seq(FrameSet) : Moves(t, s) /\ Len(s) = Len(stack[t]) - 1
  <2>1. Return(t)
    BY DEF unpin
  <2> QED  BY <1>1, <1>3, <2>1, ReturnMove
<1>9. Len(s) = 0 /\ s = <<>>
  BY <1>6, <1>8
<1>10. RunsKept
  <2>1. Base(t).f = "trigger"
    BY <1>6 DEF Base, TriggerFrame
  <2> QED  BY <1>1, <1>8, <1>9, <2>1, BaseKept
<1>11. StackOK(s)
  BY <1>9 DEF StackOK
<1>12. PICK d \in Int : d = -1
  OBVIOUS
<1>13. ASSUME NEW b \in Blocks
       PROVE  G(s, b) = G(stack[t], b) + (IF b = p THEN d ELSE 0) /\ M(s, b) = M(stack[t], b)
  <2>1. G(s, b) = 0 /\ M(s, b) = 0
    BY <1>8, <1>9, HasNone
  <2>2. G(stack[t], b) = (IF b = stack[t][1].b THEN 1 ELSE 0) /\ M(stack[t], b) = 0
    BY <1>4, <1>6, HasTrigger
  <2> QED  BY <1>2, <1>4, <1>12, <2>1, <2>2
<1>14. /\ refcount' \in [Blocks -> Int]
       /\ \A b \in Blocks : refcount'[b] = refcount[b] + (IF b = p /\ Counted(b) THEN d ELSE 0)
  <2>1. refcount \in [Blocks -> Int] /\ refcount' = Minus(refcount, p)
    BY <1>1, <1>2 DEF TypeInv, CountType, unpin
  <2>2. refcount' \in [Blocks -> Int] /\ \A b \in Blocks : refcount'[b] = refcount[b] - (IF b = p /\ Counted(b) THEN 1 ELSE 0)
    BY <1>7, <2>1, PlusFacts
  <2> QED  BY <1>12, <2>1, <2>2
<1>15. \A b \in Blocks : Rest(b)' = Rest(b)
  <2>1. \A q \in Parents : Lives(q)' <=> Lives(q)
    BY <1>0, <1>10, LivesKept
  <2> QED  BY <1>0, <2>1, RestSame
<1>16. RefsInv'
  <2>1. Pins(s, stack[t], p, d)
    BY <1>13, <1>14 DEF Pins
  <2>2. RestKept
    BY <1>15 DEF RestKept
  <2> QED  BY <1>0, <1>8, <1>11, <2>1, <2>2, PinRefs
<1>17. RunInv'
  <2>1. \A q \in Parents : ~body_claimed[q] => num_locks'[q] = num_locks[q] /\ completed'[q] = completed[q]
    BY <1>0
  <2>2. ASSUME NEW c \in Clients, client'[c] = "dormant"
        PROVE  client[c] = "dormant" /\ stack'[c] = stack[c]
    <3>1. client[c] = "dormant" /\ stack[c] = <<>> /\ c \in Threads
      BY <1>0, <1>1, <2>2, ConstantFacts DEF RunInv
    <3> QED  BY <1>1, <1>3, <1>8, <3>1, MoveFacts
  <2> QED  BY <1>0, <1>1, <1>10, <2>1, <2>2, RunKept
<1>18. /\ queue' \subseteq Parents
       /\ client' \in [Clients -> {"dormant", "idle", "blocked", "attached", "served", "gone"}]
  BY <1>0, <1>1 DEF TypeInv, LinkType
<1>19. \A c \in Clients : kind[Handle[c]] = "op" => OwnerMoves(c)
  BY <1>0 DEF OwnerMoves
<1>20. Top(t).f # "settle"
  BY <1>2, <1>3
<1> QED  BY <1>0, <1>8, <1>9, <1>10, <1>11, <1>13, <1>14, <1>16, <1>17, <1>18, <1>19, <1>20, RefStep

\* A client triggers a child and pins it: the invariant is kept.
LEMMA TriggerKept ==
    ASSUME BlockInv, NEW t \in Threads, trigger(t)
    PROVE  BlockInv'
<1>0. /\ kind' = kind /\ num_locks' = num_locks /\ body_claimed' = body_claimed /\ completed' = completed
      /\ cancelled' = cancelled /\ prereq_cancelled' = prereq_cancelled /\ nested_parent' = nested_parent
      /\ settle_synchronously' = settle_synchronously /\ continuations' = continuations /\ queue' = queue
  BY DEF trigger, blockVars
<1>1. TypeInv /\ RunInv
  BY DEF BlockInv
<1>2. t \in Clients /\ stack[t] = <<>> /\ client[t] = "idle" /\ t \in Triggers
  BY DEF trigger, Triggering, Outside
<1>3. PICK p : p = Handle[t]
  OBVIOUS
<1>4. p \in Children /\ p \in Blocks /\ kind[p] = "bare"
  BY <1>1, <1>2, <1>3, TaskBlockAssumption DEF Blocks, TypeInv, KindType
<1>5. PICK cancel \in BOOLEAN :
            stack' = [stack EXCEPT ![t] = <<settle(Handle[t], cancel), Frame("trigger", Handle[t], "drop")>>]
  BY DEF trigger
<1>6. PICK y, z : y = settle(p, cancel) /\ z = Frame("trigger", p, "drop")
  OBVIOUS
<1>7. /\ y \in FrameSet /\ y.f = "settle" /\ y.b = p /\ y.at = "lock" /\ y.conts = <<>> /\ y.parent = NoBlock
  BY <1>4, <1>6, NewFrame DEF settle
<1>8. /\ z \in FrameSet /\ z.f = "trigger" /\ z.b = p /\ z.at = "drop" /\ z.conts = <<>> /\ z.parent = NoBlock
  BY <1>4, <1>6 DEF Frame, FrameSet
<1>9. PICK s : s = <<y, z>>
  OBVIOUS
<1>10. s \in Seq(FrameSet) /\ Len(s) = 2 /\ s[1] = y /\ s[2] = z /\ s # <<>>
  BY <1>7, <1>8, <1>9
<1>11. Moves(t, s)
  BY <1>3, <1>5, <1>6, <1>9 DEF Moves
<1>12. TriggerFrame(z) /\ ChildSettle(y)
  BY <1>4, <1>7, <1>8 DEF TriggerFrame, ChildSettle
<1>13. StackOK(s)
  BY <1>7, <1>8, <1>10, <1>12 DEF StackOK
<1>14. RunsKept
  <2>1. s[Len(s)].f # "run"
    BY <1>8, <1>10
  <2> QED  BY <1>1, <1>2, <1>10, <1>11, <2>1, BaseKept
<1>15. PICK d \in Int : d = 1
  OBVIOUS
<1>16. ASSUME NEW b \in Blocks
       PROVE  G(s, b) = G(stack[t], b) + (IF b = p THEN d ELSE 0) /\ M(s, b) = M(stack[t], b)
  <2>1. G(stack[t], b) = 0 /\ M(stack[t], b) = 0
    BY <1>1, <1>2, HasNone DEF TypeInv, StackType
  <2>2. /\ G(s, b) = (IF b = s[2].b THEN 1 ELSE 0) + (IF b = s[1].parent THEN 1 ELSE 0)
        /\ M(s, b) = (IF b = s[1].parent /\ s[1].at # "drop_parent" THEN 1 ELSE 0)
    BY <1>10, <1>12, HasTriggerSettle
  <2>3. b # NoBlock /\ s[2].b = p /\ s[1].parent = NoBlock
    BY <1>7, <1>8, <1>10, ConstantFacts
  <2> QED  BY <1>15, <2>1, <2>2, <2>3
<1>17. /\ refcount' \in [Blocks -> Int]
       /\ \A b \in Blocks : refcount'[b] = refcount[b] + (IF b = p /\ Counted(b) THEN d ELSE 0)
  <2>1. refcount \in [Blocks -> Int] /\ refcount' = Plus(refcount, p)
    BY <1>1, <1>3 DEF TypeInv, CountType, trigger
  <2>2. refcount' \in [Blocks -> Int] /\ \A b \in Blocks : refcount'[b] = refcount[b] + (IF b = p /\ Counted(b) THEN 1 ELSE 0)
    BY <1>4, <2>1, PlusFacts
  <2> QED  BY <1>15, <2>1, <2>2
<1>18. /\ client' \in [Clients -> {"dormant", "idle", "blocked", "attached", "served", "gone"}]
       /\ client'[t] \in {"gone", "served"} /\ (client'[t] = "gone" => t \in Borrowers)
       /\ \A c \in Clients : c # t => client'[c] = client[c]
  BY <1>1, <1>2 DEF trigger, Triggering, TypeInv, LinkType
<1>19. \A b \in Blocks : HeldBy(b)' = HeldBy(b)
  <2>1. \A b \in Blocks : \A c \in Holders(b) : c \in Clients /\ c \notin Borrowers
    BY DEF Holders
  <2>2. \A b \in Blocks : \A c \in Holders(b) : (client'[c] # "gone") <=> (client[c] # "gone")
    BY <1>2, <1>18, <2>1
  <2>3. \A b \in Blocks : HeldBy(b)' = {c \in Holders(b) : kind[b] # "node" /\ client'[c] # "gone"}
    BY <1>0 DEF HeldBy, Holders
  <2> QED  BY <2>2, <2>3 DEF HeldBy
<1>20. \A b \in Blocks : Rest(b)' = Rest(b)
  <2>1. ASSUME NEW q \in Parents
        PROVE  Lives(q)' <=> Lives(q)
    <3>1. (\E c \in Holders(q) : client'[c] # "gone") <=> (\E c \in Holders(q) : client[c] # "gone")
      <4>1. \A c \in Holders(q) : c \in Clients /\ Handle[c] = q
        BY DEF Holders
      <4>2. t \notin Holders(q)
        BY <1>3, <1>4, <4>1, ConstantFacts
      <4> QED  BY <1>18, <4>1, <4>2
    <3>2. (\E u \in Threads : Runs(u, q)' /\ Base(u)'.at \in InBody) <=> (\E u \in Threads : Runs(u, q) /\ Base(u).at \in InBody)
      BY <1>14 DEF RunsKept
    <3>3. Lives(q)' <=> /\ kind'[q] = "task" /\ body_claimed'[q] => \E u \in Threads : Runs(u, q)' /\ Base(u)'.at \in InBody
                        /\ kind'[q] = "op" => \E c \in Holders(q) : client'[c] # "gone"
      BY DEF Lives, InBody, Holders
    <3> QED  BY <1>0, <3>1, <3>2, <3>3 DEF Lives
  <2>2. ASSUME NEW b \in Blocks
        PROVE  Rest(b)' = Rest(b)
    <3>1. Cardinality(Captors(b)') = Cardinality(Captors(b))
      BY <2>1, CaptorsSame
    <3>2. Owned(b)' = Owned(b) /\ Linked(b)' = Linked(b) /\ HeldBy(b)' = HeldBy(b)
      BY <1>0, <1>19 DEF Owned, Linked
    <3> QED  BY <3>1, <3>2 DEF Rest
  <2> QED  BY <2>2
<1>21. RefsInv'
  <2>1. Pins(s, stack[t], p, d)
    BY <1>16, <1>17 DEF Pins
  <2>2. RestKept
    BY <1>20 DEF RestKept
  <2> QED  BY <1>0, <1>10, <1>11, <1>13, <2>1, <2>2, PinRefs
<1>22. RunInv'
  <2>1. \A q \in Parents : ~body_claimed[q] => num_locks'[q] = num_locks[q] /\ completed'[q] = completed[q]
    BY <1>0
  <2>2. ASSUME NEW c \in Clients, client'[c] = "dormant"
        PROVE  client[c] = "dormant" /\ stack'[c] = stack[c]
    <3>1. c # t /\ c \in Threads
      BY <1>18, <2>2, ConstantFacts
    <3> QED  BY <1>1, <1>10, <1>11, <1>18, <2>2, <3>1, MoveFacts
  <2> QED  BY <1>0, <1>1, <1>14, <2>1, <2>2, RunKept
<1>23. queue' \subseteq Parents
  BY <1>0, <1>1 DEF TypeInv, LinkType
<1>24. \A c \in Clients : kind[Handle[c]] = "op" => OwnerMoves(c)
  BY <1>3, <1>4, <1>18 DEF OwnerMoves
<1>25. \A c \in Clients : client[c] \in {"attached", "gone"} => client'[c] = client[c]
  BY <1>2, <1>18
<1>26. s[1].conts = <<>> /\ s[1].b \in Children
  BY <1>4, <1>7, <1>10
<1> QED  BY <1>0, <1>2, <1>10, <1>11, <1>13, <1>14, <1>16, <1>17, <1>18, <1>21, <1>22, <1>23, <1>24, <1>25, <1>26, RefStep

\* A client's handle on a parent is its own.
LEMMA HolderFacts ==
    ASSUME NEW c \in Clients, c \notin Borrowers
    PROVE  /\ Handle[c] \in Blocks /\ c \in Holders(Handle[c])
           /\ \A b \in Blocks : c \in Holders(b) => b = Handle[c]
  BY ConstantFacts DEF Holders

\* The owner of an access, destroying it, drops the children its body holds.
LEMMA DropAccessRefs ==
    ASSUME BlockInv, NEW t \in Clients, t \notin Borrowers, NEW p, p = Handle[t], kind[p] = "op",
           client[t] # "gone", client'[t] = "gone", \A c \in Clients : c # t => client'[c] = client[c],
           UNCHANGED <<kind, body_claimed, nested_parent, queue, stack>>,
           refcount' = MinusAll(refcount, Range(Nested[p]))
    PROVE  RefsInv' /\ refcount' \in [Blocks -> Int]
<1>0. kind' = kind /\ body_claimed' = body_claimed /\ nested_parent' = nested_parent /\ queue' = queue /\ stack' = stack
  OBVIOUS
<1>1. TypeInv /\ RefsInv /\ ChildInv
  BY DEF BlockInv
<1>2. /\ p \in Blocks /\ t \in Holders(p) /\ t \in Threads
      /\ \A b \in Blocks : t \in Holders(b) => b = p
  BY HolderFacts, ConstantFacts
<1>3. Holders(p) = {t}
  BY <1>1, <1>2, OwnerExists
<1>4. p \in Parents
  BY <1>1, <1>2, OpIsParent
<1>5. refcount \in [Blocks -> Int] /\ refcount' \in [Blocks -> Int]
      /\ \A b \in Blocks : refcount'[b] = refcount[b] - (IF b \in Range(Nested[p]) THEN 1 ELSE 0)
  <2>1. refcount \in [Blocks -> Int]
    BY <1>1 DEF TypeInv, CountType
  <2> QED  BY <2>1, MinusAllFacts
<1>6. Moves(t, stack[t]) /\ RunsKept /\ StackOK(stack[t]) /\ stack[t] \in Seq(FrameSet)
  BY <1>0, <1>1, <1>2, StillMove
<1>7. Lives(p)
  BY <1>3 DEF Lives
<1>8. ASSUME NEW q \in Parents
      PROVE  Lives(q)' <=> /\ kind[q] = "task" /\ body_claimed[q] => \E u \in Threads : Runs(u, q) /\ Base(u).at \in InBody
                           /\ kind[q] = "op" => \E c \in Holders(q) : client'[c] # "gone"
  <2>1. (\E u \in Threads : Runs(u, q)' /\ Base(u)'.at \in InBody) <=> (\E u \in Threads : Runs(u, q) /\ Base(u).at \in InBody)
    BY <1>6 DEF RunsKept
  <2>2. Lives(q)' <=> /\ kind'[q] = "task" /\ body_claimed'[q] => \E u \in Threads : Runs(u, q)' /\ Base(u)'.at \in InBody
                      /\ kind'[q] = "op" => \E c \in Holders(q) : client'[c] # "gone"
    BY DEF Lives, InBody, Holders
  <2> QED  BY <1>0, <2>1, <2>2
<1>9. ~Lives(p)'
  <2>1. \A c \in Holders(p) : client'[c] = "gone"
    BY <1>3
  <2> QED  BY <1>4, <1>8, <2>1
<1>10. \A b \in Blocks : b # p => \A c \in Holders(b) : c \in Clients /\ c # t /\ client'[c] = client[c]
  BY <1>2 DEF Holders
<1>11. \A q \in Parents : q # p => (Lives(q)' <=> Lives(q))
  BY <1>8, <1>10 DEF Lives, Blocks
<1>12. ASSUME NEW b \in Blocks, Counted(b)
       PROVE  \E m, n \in Int : /\ Rest(b)' = Rest(b) + m /\ StackRefs(b)' = StackRefs(b) + n
                                /\ refcount'[b] = refcount[b] + m + n
  <2>1. b # p
    BY <1>12 DEF Counted
  <2>2. HeldBy(b)' = HeldBy(b)
    <3>1. HeldBy(b)' = {c \in Holders(b) : kind'[b] # "node" /\ client'[c] # "gone"}
      BY DEF HeldBy, Holders
    <3> QED  BY <1>0, <1>10, <2>1, <3>1 DEF HeldBy
  <2>3. Owned(b)' = Owned(b) /\ Linked(b)' = Linked(b)
    BY <1>0 DEF Owned, Linked
  <2>4. PICK h, o, l : h = Cardinality(HeldBy(b)) /\ o = Owned(b) /\ l = Cardinality(Linked(b))
    OBVIOUS
  <2>5. h \in Nat /\ o \in Nat /\ l \in Nat
    BY <1>1, <2>4, HeldFinite, LinkedFinite DEF Owned
  <2>6. PICK u, v : u = Cardinality(Captors(b)) /\ v = Cardinality(Captors(b)')
    OBVIOUS
  <2>7. PICK m \in Int : m = -(IF b \in Range(Nested[p]) THEN 1 ELSE 0)
    OBVIOUS
  <2>8. u \in {0, 1} /\ v = u + m
    <3>1. u \in {0, 1}
      BY <2>6, CaptorsCount
    <3>2. /\ b \in Range(Nested[p]) => u = 1 /\ v = 0
          /\ b \notin Range(Nested[p]) => v = u
      BY <1>4, <1>7, <1>9, <1>11, <2>6, CaptorsDrop
    <3> QED  BY <2>7, <3>1, <3>2
  <2>9. Rest(b) = h + u + o + l /\ Rest(b)' = h + v + o + l
    BY <2>2, <2>3, <2>4, <2>6 DEF Rest
  <2>10. Rest(b)' = Rest(b) + m
    BY <2>5, <2>8, <2>9
  <2>11. StackRefs(b)' = StackRefs(b) /\ StackRefs(b) \in Nat
    BY <1>0, <1>1, <1>2, <1>6, StackSame, StackNat
  <2>12. PICK n \in Int : n = 0
    OBVIOUS
  <2>13. StackRefs(b)' = StackRefs(b) + n
    BY <2>11, <2>12
  <2>14. refcount'[b] = refcount[b] + m + n
    <3>1. refcount[b] \in Int
      BY <1>5
    <3> QED  BY <1>5, <2>7, <2>12, <3>1
  <2> QED  BY <2>10, <2>13, <2>14
<1>13. ASSUME NEW b \in Blocks, ~Counted(b)
       PROVE  refcount'[b] = refcount[b]
  <2>1. b \notin Range(Nested[p]) /\ refcount[b] \in Int
    <3>1. b \in Parents
      BY <1>1, <1>13, OpIsParent DEF Counted
    <3> QED  BY <1>4, <1>5, <3>1, ConstantFacts
  <2> QED  BY <1>5, <2>1
<1> QED  BY <1>0, <1>1, <1>5, <1>12, <1>13, RefsMove

\* Any other handle is one reference.
LEMMA DropHandleRefs ==
    ASSUME BlockInv, NEW t \in Clients, t \notin Borrowers, NEW p, p = Handle[t], kind[p] # "op", kind[p] # "node",
           client[t] # "gone", client'[t] = "gone", \A c \in Clients : c # t => client'[c] = client[c],
           UNCHANGED <<kind, body_claimed, nested_parent, queue, stack>>,
           refcount' = Minus(refcount, p)
    PROVE  RefsInv' /\ refcount' \in [Blocks -> Int]
<1>0. kind' = kind /\ body_claimed' = body_claimed /\ nested_parent' = nested_parent /\ queue' = queue /\ stack' = stack
  OBVIOUS
<1>1. TypeInv /\ RefsInv /\ ChildInv
  BY DEF BlockInv
<1>2. /\ p \in Blocks /\ t \in Holders(p) /\ t \in Threads
      /\ \A b \in Blocks : t \in Holders(b) => b = p
  BY HolderFacts, ConstantFacts
<1>5. refcount \in [Blocks -> Int] /\ refcount' \in [Blocks -> Int]
      /\ \A b \in Blocks : refcount'[b] = refcount[b] - (IF b = p /\ Counted(b) THEN 1 ELSE 0)
  <2>1. refcount \in [Blocks -> Int]
    BY <1>1 DEF TypeInv, CountType
  <2> QED  BY <1>2, <2>1, PlusFacts
<1>6. Moves(t, stack[t]) /\ RunsKept /\ StackOK(stack[t]) /\ stack[t] \in Seq(FrameSet)
  BY <1>0, <1>1, <1>2, StillMove
<1>10. \A b \in Blocks : b # p => \A c \in Holders(b) : c \in Clients /\ c # t /\ client'[c] = client[c]
  BY <1>2 DEF Holders
<1>11. ASSUME NEW q \in Parents
       PROVE  Lives(q)' <=> Lives(q)
  <2>1. (\E u \in Threads : Runs(u, q)' /\ Base(u)'.at \in InBody) <=> (\E u \in Threads : Runs(u, q) /\ Base(u).at \in InBody)
    BY <1>6 DEF RunsKept
  <2>2. Lives(q)' <=> /\ kind'[q] = "task" /\ body_claimed'[q] => \E u \in Threads : Runs(u, q)' /\ Base(u)'.at \in InBody
                      /\ kind'[q] = "op" => \E c \in Holders(q) : client'[c] # "gone"
    BY DEF Lives, InBody, Holders
  <2>3. kind[q] = "op" => ((\E c \in Holders(q) : client'[c] # "gone") <=> (\E c \in Holders(q) : client[c] # "gone"))
    BY <1>10 DEF Blocks
  <2> QED  BY <1>0, <2>1, <2>2, <2>3 DEF Lives
<1>12. ASSUME NEW b \in Blocks, Counted(b)
       PROVE  \E m, n \in Int : /\ Rest(b)' = Rest(b) + m /\ StackRefs(b)' = StackRefs(b) + n
                                /\ refcount'[b] = refcount[b] + m + n
  <2>1. PICK m \in Int : m = -(IF b = p THEN 1 ELSE 0)
    OBVIOUS
  <2>2. PICK A, B : A = HeldBy(b) /\ B = HeldBy(b)'
    OBVIOUS
  <2>3. /\ A = {c \in Holders(b) : kind[b] # "node" /\ client[c] # "gone"}
        /\ B = {c \in Holders(b) : kind[b] # "node" /\ client'[c] # "gone"}
    BY <1>0, <2>2 DEF HeldBy, Holders
  <2>4. IsFiniteSet(A) /\ Cardinality(A) \in Nat
    BY <2>2, HeldFinite
  <2>5. Cardinality(B) = Cardinality(A) + m
    <3>1. CASE b = p
      <4>1. B = A \ {t} /\ t \in A
        BY <1>2, <2>3, <3>1 DEF Holders
      <4>2. Cardinality(B) = Cardinality(A) - 1
        BY <2>4, <4>1, FS_RemoveElement
      <4> QED  BY <2>1, <2>4, <3>1, <4>2
    <3>2. CASE b # p
      <4>1. B = A
        BY <1>10, <2>3, <3>2
      <4> QED  BY <2>1, <2>4, <3>2, <4>1
    <3> QED  BY <3>1, <3>2
  <2>6. Owned(b)' = Owned(b) /\ Linked(b)' = Linked(b)
    BY <1>0 DEF Owned, Linked
  <2>7. PICK h, o, l, u, v : /\ h = Cardinality(A) /\ o = Owned(b) /\ l = Cardinality(Linked(b))
                             /\ u = Cardinality(Captors(b)) /\ v = Cardinality(B)
    OBVIOUS
  <2>8. h \in Nat /\ o \in Nat /\ l \in Nat /\ u \in Nat /\ v = h + m
    <3>1. u \in {0, 1}
      BY <2>7, CaptorsCount
    <3>2. o \in Nat /\ l \in Nat
      BY <1>1, <2>7, LinkedFinite DEF Owned
    <3> QED  BY <2>4, <2>5, <2>7, <3>1, <3>2
  <2>9. Rest(b) = h + u + o + l /\ Rest(b)' = v + u + o + l
    <3>1. Cardinality(Captors(b)') = u
      BY <1>11, <2>7, CaptorsSame
    <3> QED  BY <2>2, <2>6, <2>7, <3>1 DEF Rest
  <2>10. Rest(b)' = Rest(b) + m
    BY <2>8, <2>9
  <2>11. StackRefs(b)' = StackRefs(b) /\ StackRefs(b) \in Nat
    BY <1>0, <1>1, <1>2, <1>6, StackSame, StackNat
  <2>12. PICK n \in Int : n = 0
    OBVIOUS
  <2>13. StackRefs(b)' = StackRefs(b) + n
    BY <2>11, <2>12
  <2>14. refcount'[b] = refcount[b] + m + n
    <3>1. refcount[b] \in Int
      BY <1>5
    <3> QED  BY <1>5, <1>12, <2>1, <2>12, <3>1
  <2> QED  BY <2>10, <2>13, <2>14
<1>13. ASSUME NEW b \in Blocks, ~Counted(b)
       PROVE  refcount'[b] = refcount[b]
  <2>1. refcount[b] \in Int
    BY <1>5
  <2> QED  BY <1>5, <1>13, <2>1
<1> QED  BY <1>0, <1>1, <1>5, <1>12, <1>13, RefsMove

\* A client drops its handle: the invariant is kept.
LEMMA DropHandleKept ==
    ASSUME BlockInv, NEW t \in Threads, drop_handle(t), t \notin Borrowers
    PROVE  BlockInv'
<1>0. /\ kind' = kind /\ num_locks' = num_locks /\ body_claimed' = body_claimed /\ completed' = completed
      /\ cancelled' = cancelled /\ prereq_cancelled' = prereq_cancelled /\ nested_parent' = nested_parent
      /\ settle_synchronously' = settle_synchronously /\ continuations' = continuations
      /\ queue' = queue /\ stack' = stack
  BY DEF drop_handle, blockVars
<1>1. TypeInv /\ RunInv /\ AttachInv /\ OwnerInv
  BY DEF BlockInv
<1>2. t \in Clients /\ stack[t] = <<>>
  BY DEF drop_handle, Outside
<1>3. PICK p : p = Handle[t]
  OBVIOUS
<1>4. /\ client[t] \in {"idle", "served"}
      /\ client[t] = "idle" /\ kind[p] = "op" => settle_synchronously[p]
      /\ refcount' = IF kind[p] = "op" THEN MinusAll(refcount, Range(Nested[p])) ELSE Minus(refcount, p)
      /\ client' = [client EXCEPT ![t] = "gone"]
  BY <1>3 DEF drop_handle
<1>5. /\ client' \in [Clients -> {"dormant", "idle", "blocked", "attached", "served", "gone"}]
      /\ client'[t] = "gone" /\ \A c \in Clients : c # t => client'[c] = client[c]
  BY <1>1, <1>2, <1>4 DEF TypeInv, LinkType
<1>6. kind[p] # "node"
  BY <1>1, <1>2, <1>3, <1>4 DEF AttachInv
<1>7. kind[p] = "op" => completed[p]
  <2>1. ASSUME kind[p] = "op"
        PROVE  completed[p]
    <3>1. OwnerOK(t)
      BY <1>1, <1>2, <1>3, <2>1 DEF OwnerInv
    <3>2. ~Runs(t, p) /\ ~Settles(t, p)
      BY <1>2 DEF Runs, Settles
    <3> QED  BY <1>3, <1>4, <2>1, <3>1, <3>2 DEF OwnerOK
  <2> QED  BY <2>1
<1>8. RefsInv' /\ refcount' \in [Blocks -> Int]
  <2>1. client[t] # "gone"
    BY <1>4
  <2>2. CASE kind[p] = "op"
    <3>1. refcount' = MinusAll(refcount, Range(Nested[p]))
      BY <1>4, <2>2
    <3> QED  BY <1>0, <1>2, <1>3, <1>5, <2>1, <2>2, <3>1, DropAccessRefs
  <2>3. CASE kind[p] # "op"
    <3>1. refcount' = Minus(refcount, p)
      BY <1>4, <2>3
    <3> QED  BY <1>0, <1>2, <1>3, <1>5, <1>6, <2>1, <2>3, <3>1, DropHandleRefs
  <2> QED  BY <2>2, <2>3
<1>9. PICK s \in Seq(FrameSet) : s = stack[t] /\ s = <<>> /\ Moves(t, s) /\ RunsKept /\ StackOK(s)
  BY <1>0, <1>1, <1>2, StillMove
<1>10. RunInv'
  <2>1. \A q \in Parents : ~body_claimed[q] => num_locks'[q] = num_locks[q] /\ completed'[q] = completed[q]
    BY <1>0
  <2>2. ASSUME NEW c \in Clients, client'[c] = "dormant"
        PROVE  client[c] = "dormant" /\ stack'[c] = stack[c]
    BY <1>0, <1>5, <2>2
  <2> QED  BY <1>0, <1>1, <1>9, <2>1, <2>2, RunKept
<1>11. queue' \subseteq Parents
  BY <1>0, <1>1 DEF TypeInv, LinkType
<1>12. \A c \in Clients : kind[Handle[c]] = "op" => OwnerMoves(c)
  BY <1>3, <1>5, <1>7 DEF OwnerMoves
<1>13. \A c \in Clients : client[c] \in {"attached", "gone"} => client'[c] = client[c]
  BY <1>4, <1>5
<1>14. \A b \in Blocks : M(s, b) = M(stack[t], b)
  BY <1>9
<1> QED  BY <1>0, <1>2, <1>5, <1>8, <1>9, <1>10, <1>11, <1>12, <1>13, <1>14, RefStep

\* The owner of an access fires it through the queue: the invariant is kept.
LEMMA FireQueuedKept ==
    ASSUME BlockInv, NEW t \in Threads, fire_queued(t)
    PROVE  BlockInv'
<1>0. /\ kind' = kind /\ num_locks' = num_locks /\ body_claimed' = body_claimed /\ completed' = completed
      /\ cancelled' = cancelled /\ prereq_cancelled' = prereq_cancelled /\ nested_parent' = nested_parent
      /\ settle_synchronously' = settle_synchronously /\ continuations' = continuations
      /\ refcount' = refcount /\ stack' = stack
  BY DEF fire_queued, blockVars
<1>1. TypeInv /\ RunInv /\ AttachInv /\ OwnerInv /\ RefsInv /\ ChildInv
  BY DEF BlockInv
<1>2. t \in Clients /\ client[t] = "dormant"
  BY DEF fire_queued
<1>3. PICK p : p = Handle[t]
  OBVIOUS
<1>4. queue' = queue \cup {p} /\ client' = [client EXCEPT ![t] = "idle"]
  BY <1>3 DEF fire_queued
<1>5. /\ client' \in [Clients -> {"dormant", "idle", "blocked", "attached", "served", "gone"}]
      /\ client'[t] = "idle" /\ \A c \in Clients : c # t => client'[c] = client[c]
  BY <1>1, <1>2, <1>4 DEF TypeInv, LinkType
<1>6. /\ stack[t] = <<>> /\ kind[p] = "op" /\ ~body_claimed[p] /\ p \notin queue /\ \A u \in Threads : ~Runs(u, p)
  BY <1>1, <1>2, <1>3 DEF RunInv
<1>7. p \in Blocks /\ p \in Parents
  BY <1>1, <1>2, <1>3, <1>6, OpIsParent, ConstantFacts
<1>8. \A c \in Clients : Handle[c] = p => c = t
  <2>1. \A c \in Clients : Handle[c] = p => c \in Holders(p)
    BY <1>7, ConstantFacts
  <2>2. PICK c \in Clients : Holders(p) = {c}
    BY <1>1, <1>6, <1>7, OwnerExists
  <2> QED  BY <1>2, <1>3, <2>1, <2>2
<1>9. PICK s \in Seq(FrameSet) : s = stack[t] /\ s = <<>> /\ Moves(t, s) /\ RunsKept /\ StackOK(s)
  BY <1>0, <1>1, <1>2, <1>6, StillMove
<1>10. \A c \in Clients : (client'[c] = "gone") <=> (client[c] = "gone")
  BY <1>2, <1>5
<1>11. RefsInv'
  <2>1. RestKept
    <3>1. ASSUME NEW b \in Blocks, Counted(b)
          PROVE  Rest(b)' = Rest(b)
      <4>1. Cardinality(Captors(b)') = Cardinality(Captors(b))
        <5>1. \A q \in Parents : Lives(q)' <=> Lives(q)
          BY <1>0, <1>9, <1>10, LivesKept
        <5> QED  BY <5>1, CaptorsSame
      <4>2. HeldBy(b)' = HeldBy(b)
        BY <1>0, <1>10, HeldSame
      <4>3. Owned(b)' = Owned(b) /\ Linked(b)' = Linked(b)
        BY <1>0, <1>4, <1>6, <3>1 DEF Owned, Linked, Counted
      <4> QED  BY <4>1, <4>2, <4>3 DEF Rest
    <3> QED  BY <3>1 DEF RestKept
  <2>2. PICK d \in Int : d = 0
    OBVIOUS
  <2>3. Pins(s, stack[t], p, d)
    <3>1. ASSUME NEW b \in Blocks
          PROVE  /\ G(s, b) = G(stack[t], b) + (IF b = p THEN d ELSE 0)
                 /\ refcount'[b] = refcount[b] + (IF b = p /\ Counted(b) THEN d ELSE 0)
      <4>1. G(s, b) \in Int /\ refcount[b] \in Int /\ G(stack[t], b) = G(s, b)
        BY <1>1, <1>9, WeightInt DEF TypeInv, CountType
      <4> QED  BY <1>0, <2>2, <4>1
    <3> QED  BY <3>1 DEF Pins
  <2> QED  BY <1>0, <1>9, <2>1, <2>3, PinRefs
<1>12. RunInv'
  <2>1. ASSUME NEW q \in queue'
        PROVE  ~body_claimed'[q] /\ \A u \in Threads : ~Runs(u, q)'
    <3>1. q \in Parents /\ ~body_claimed[q] /\ \A u \in Threads : ~Runs(u, q)
      BY <1>1, <1>4, <1>6, <1>7 DEF RunInv, TypeInv, LinkType
    <3> QED  BY <1>0, <1>9, <3>1 DEF RunsKept
  <2>2. \A q \in Parents, u \in Threads : Runs(u, q)' => (body_claimed'[q] <=> Base(u)'.at # "claim")
    BY <1>0, <1>1, <1>9 DEF RunInv, RunsKept
  <2>3. \A q \in Parents, u, v \in Threads : Runs(u, q)' /\ Runs(v, q)' => u = v
    BY <1>1, <1>9 DEF RunInv, RunsKept
  <2>4. \A q \in Parents : ~body_claimed'[q] => num_locks'[q] = 0 /\ ~completed'[q]
    BY <1>0, <1>1 DEF RunInv
  <2>5. ASSUME NEW c \in Clients, client'[c] = "dormant"
        PROVE  /\ stack'[c] = <<>> /\ kind'[Handle[c]] = "op" /\ ~body_claimed'[Handle[c]]
               /\ Handle[c] \notin queue' /\ \A u \in Threads : ~Runs(u, Handle[c])'
    <3>1. c # t /\ client[c] = "dormant" /\ Handle[c] # p
      BY <1>5, <1>8, <2>5
    <3>2. /\ stack[c] = <<>> /\ kind[Handle[c]] = "op" /\ ~body_claimed[Handle[c]]
          /\ Handle[c] \notin queue /\ \A u \in Threads : ~Runs(u, Handle[c])
      BY <1>1, <3>1 DEF RunInv
    <3>3. Handle[c] \in Parents
      BY <1>1, <3>2, OpIsParent, ConstantFacts
    <3> QED  BY <1>0, <1>4, <1>9, <3>1, <3>2, <3>3 DEF RunsKept
  <2> QED  BY <2>1, <2>2, <2>3, <2>4, <2>5 DEF RunInv
<1>13. queue' \subseteq Parents /\ refcount' \in [Blocks -> Int]
  BY <1>0, <1>1, <1>4, <1>7 DEF TypeInv, LinkType, CountType
<1>14. ~settle_synchronously[p]
  <2>1. OwnerOK(t)
    BY <1>1, <1>2, <1>3, <1>6 DEF OwnerInv
  <2> QED  BY <1>2, <1>3, <2>1 DEF OwnerOK
<1>15. \A c \in Clients : kind[Handle[c]] = "op" => OwnerMoves(c)
  BY <1>3, <1>5, <1>14 DEF OwnerMoves
<1>16. \A c \in Clients : client[c] \in {"attached", "gone"} => client'[c] = client[c]
  BY <1>2, <1>5
<1>17. \A b \in Blocks : M(s, b) = M(stack[t], b)
  BY <1>9
<1> QED  BY <1>0, <1>5, <1>6, <1>9, <1>11, <1>12, <1>13, <1>15, <1>16, <1>17, RefStep

-----------------------------------------------------------------------------
(* Dispatches that start and end *)

\* A thread takes up a dispatch that has not started, or leaves one that is over.
Edge(t) ==
    /\ \A p \in Parents : Runs(t, p) => Base(t).at = "drop"
    /\ \A p \in Parents : Runs(t, p)' => Base(t)'.at = "claim" /\ num_locks[p] = 0 /\ Linked(p) = {}
    /\ \A u \in Threads : u # t => Base(u)' = Base(u) /\ \A p \in Parents : Runs(u, p)' <=> Runs(u, p)

\* No body is destroyed.
LEMMA EdgeLives ==
    ASSUME NEW t \in Threads, Edge(t), body_claimed' = body_claimed, kind' = kind,
           \A c \in Clients : (client'[c] = "gone") <=> (client[c] = "gone"), NEW p \in Parents
    PROVE  Lives(p)' <=> Lives(p)
<1>1. ASSUME NEW u \in Threads
      PROVE  Runs(u, p)' /\ Base(u)'.at \in InBody <=> Runs(u, p) /\ Base(u).at \in InBody
  BY DEF Edge, InBody
<1>2. \A c \in Holders(p) : (client'[c] = "gone") <=> (client[c] = "gone")
  BY DEF Holders
<1>3. Lives(p)' <=> /\ kind'[p] = "task" /\ body_claimed'[p] => \E u \in Threads : Runs(u, p)' /\ Base(u)'.at \in InBody
                    /\ kind'[p] = "op" => \E c \in Holders(p) : client'[c] # "gone"
  BY DEF Lives, InBody, Holders
<1> QED  BY <1>1, <1>2, <1>3 DEF Lives

\* The links of children.
LEMMA EdgeChildren ==
    ASSUME ChildInv, NEW t \in Threads, Edge(t), num_locks' = num_locks, completed' = completed,
           nested_parent' = nested_parent
    PROVE  ChildInv'
<1>1. ASSUME NEW c \in Children, NEW p \in Parents, nested_parent'[c] = p
      PROVE  /\ ~completed'[c]
             /\ \E i \in DOMAIN Nested[p] : /\ c = Nested[p][i]
                                            /\ \A u \in Threads : Runs(u, p)' => i <= Base(u)'.k
  <2>1. nested_parent[c] = p /\ ~completed[c]
    BY <1>1 DEF ChildInv
  <2>2. PICK i \in DOMAIN Nested[p] : c = Nested[p][i] /\ \A u \in Threads : Runs(u, p) => i <= Base(u).k
    BY <2>1 DEF ChildInv
  <2>3. ~Runs(t, p)'
    BY <2>1 DEF Edge, Linked
  <2>4. \A u \in Threads : Runs(u, p)' => i <= Base(u)'.k
    BY <2>2, <2>3 DEF Edge
  <2> QED  BY <2>1, <2>2, <2>4
<1>2. \A p \in Parents : nested_parent'[p] = NoBlock
  BY DEF ChildInv
<1>3. ASSUME NEW p \in Parents, num_locks'[p] > 0, NEW i \in DOMAIN Nested[p]
      PROVE  \/ completed'[Nested[p][i]] \/ nested_parent'[Nested[p][i]] = p
             \/ \E u \in Threads : Runs(u, p)' /\ Base(u)'.at \in InBody /\ i > Base(u)'.k
  <2>1. \/ completed[Nested[p][i]] \/ nested_parent[Nested[p][i]] = p
        \/ \E u \in Threads : Runs(u, p) /\ Base(u).at \in InBody /\ i > Base(u).k
    BY <1>3 DEF ChildInv
  <2>2. \A u \in Threads : Runs(u, p) /\ Base(u).at \in InBody => Runs(u, p)' /\ Base(u)' = Base(u)
    BY DEF Edge, InBody
  <2> QED  BY <2>1, <2>2
<1>4. ASSUME NEW p \in Parents, NEW u \in Threads, Runs(u, p)', Base(u)'.at = "unlink"
      PROVE  completed'[Nested[p][Base(u)'.k + 1]]
  <2>1. Runs(u, p) /\ Base(u)' = Base(u)
    BY <1>4 DEF Edge
  <2> QED  BY <1>4, <2>1 DEF ChildInv
<1> QED  BY <1>1, <1>2, <1>3, <1>4 DEF ChildInv, InBody

\* A thread that takes up or leaves a dispatch keeps the invariant when it keeps the
\* counts.
LEMMA EdgeStep ==
    ASSUME BlockInv, NEW t \in Threads, NEW s \in Seq(FrameSet), Moves(t, s), StackOK(s), Edge(t),
           UNCHANGED <<kind, num_locks, body_claimed, completed, cancelled, prereq_cancelled,
                       nested_parent, continuations>>,
           settle_synchronously' \in [Blocks -> BOOLEAN],
           refcount' \in [Blocks -> Int], queue' \subseteq Parents, RefsInv', RunInv', OwnerInv',
           \A b \in Blocks : M(s, b) = M(stack[t], b),
           s # <<>> => s[1].conts = <<>> /\ s[1].f = "run",
           client' \in [Clients -> {"dormant", "idle", "blocked", "attached", "served", "gone"}],
           \A c \in Clients : client[c] \in {"attached", "gone"} => client'[c] = client[c]
    PROVE  BlockInv'
<1>0. /\ kind' = kind /\ num_locks' = num_locks /\ body_claimed' = body_claimed /\ completed' = completed
      /\ cancelled' = cancelled /\ prereq_cancelled' = prereq_cancelled /\ nested_parent' = nested_parent
      /\ continuations' = continuations
  OBVIOUS
<1>1. TypeInv /\ LocksInv /\ SettleInv /\ ChildInv /\ AttachInv
  BY DEF BlockInv
<1>2. /\ \A b \in Blocks : Settles(t, b)' <=> s # <<>> /\ s[1].f = "settle" /\ s[1].b = b
      /\ \A u \in Threads : u # t => Top(u)' = Top(u) /\ \A b \in Blocks : Settles(u, b)' <=> Settles(u, b)
  BY <1>1, FrameMove
<1>3. TypeInv'
  <2>1. /\ num_locks' \in [Blocks -> Int] /\ \A c \in Children : num_locks'[c] = num_locks[c]
        /\ body_claimed' \in [Blocks -> BOOLEAN]
        /\ nested_parent' \in [Blocks -> Parents \cup {NoBlock}]
    BY <1>0, <1>1 DEF TypeInv, CountType, FlagType, LinkType
  <2>2. UNCHANGED <<kind, completed, cancelled, prereq_cancelled, continuations>>
    BY <1>0
  <2> QED  BY <1>1, <2>1, <2>2, TypeStep
<1>4. \A b \in Blocks : StackLocks(b)' = StackLocks(b)
  <2>1. ASSUME NEW b \in Blocks
        PROVE  StackLocks(b)' = StackLocks(b)
    <3>1. StackLocks(b) \in Nat /\ StackLocks(b)' = StackLocks(b) + M(s, b) - M(stack[t], b)
      BY <1>0, <1>1, StackMove
    <3>2. M(s, b) \in Int /\ M(s, b) = M(stack[t], b)
      BY WeightInt
    <3> QED  BY <3>1, <3>2
  <2> QED  BY <2>1
<1>5. LocksInv'
  BY <1>0, <1>1, <1>4, LocksKept DEF Blocks
<1>6. ChildInv'
  BY <1>0, <1>1, EdgeChildren
<1>7. SettleInv'
  <2>1. ASSUME NEW p \in Parents
        PROVE  SettleOK(p)'
    <3>1. SettleOK(p) /\ p \in Blocks
      BY <1>1, ConstantFacts DEF SettleInv, Blocks
    <3>2. Linked(p)' = Linked(p)
      BY <1>0 DEF Linked
    <3>3. \A u \in Threads : Settles(u, p)' =>
                /\ Settles(u, p) /\ (Top(u)'.at = "lock" <=> Top(u).at = "lock")
                /\ Top(u)'.cancel = Top(u).cancel
      BY <1>2, <3>1
    <3> QED  BY <1>0, <1>4, <3>1, <3>2, <3>3, SettleKept
  <2> QED  BY <2>1 DEF SettleInv
<1>9. AttachInv'
  <2>1. \A x \in Blocks : (completed[x] => completed'[x]) /\ (continuations[x] # <<>> => ~completed'[x])
    BY <1>0, <1>1 DEF AttachInv, ContsOK
  <2> QED  BY <1>0, <1>1, <2>1, AttachMove
<1> QED  BY <1>3, <1>5, <1>6, <1>7, <1>9 DEF BlockInv

\* The dispatch is over and its reference dropped: the invariant is kept.
LEMMA DropKept ==
    ASSUME BlockInv, NEW t \in Threads, drop(t)
    PROVE  BlockInv'
<1>0. /\ kind' = kind /\ num_locks' = num_locks /\ body_claimed' = body_claimed /\ completed' = completed
      /\ cancelled' = cancelled /\ prereq_cancelled' = prereq_cancelled /\ nested_parent' = nested_parent
      /\ settle_synchronously' = settle_synchronously /\ continuations' = continuations
      /\ queue' = queue /\ client' = client
  BY DEF drop, blockVars
<1>1. TypeInv /\ RunInv /\ OwnerInv
  BY DEF BlockInv
<1>2. At(t, "run", "drop")
  BY DEF drop
<1>3. PICK x, p : x = Top(t) /\ p = Top(t).b
  OBVIOUS
<1>4. /\ stack[t] # <<>> /\ Len(stack[t]) = 1 /\ RunFrame(x) /\ x = Base(t)
      /\ x \in FrameSet /\ stack[t][1] = x /\ x.at = "drop"
      /\ p \in Parents /\ p \in Blocks /\ Runs(t, p)
  BY <1>1, <1>2, <1>3, RunTop
<1>5. PICK s \in Seq(FrameSet) : Moves(t, s) /\ Len(s) = Len(stack[t]) - 1
  <2>1. Return(t)
    BY DEF drop
  <2> QED  BY <1>1, <1>4, <2>1, ReturnMove
<1>6. Len(s) = 0 /\ s = <<>> /\ stack[t] \in Seq(FrameSet)
  BY <1>1, <1>4, <1>5 DEF TypeInv, StackType
<1>7. StackOK(s)
  BY <1>6 DEF StackOK
<1>8. /\ \A b \in Blocks : ~Settles(t, b)' /\ ~Runs(t, b)'
      /\ \A u \in Threads : u # t =>
             /\ stack'[u] = stack[u] /\ Base(u)' = Base(u)
             /\ \A b \in Blocks : (Settles(u, b)' <=> Settles(u, b)) /\ (Runs(u, b)' <=> Runs(u, b))
  BY ZenonT(60), <1>1, <1>5, <1>6, FrameMove
<1>9. Edge(t)
  <2>1. \A q \in Parents : Runs(t, q) => Base(t).at = "drop"
    BY <1>4
  <2>2. \A q \in Parents : q \in Blocks
    BY DEF Blocks
  <2> QED  BY <1>8, <2>1, <2>2 DEF Edge
<1>10. PICK d \in Int : d = IF kind[p] = "task" THEN -1 ELSE 0
  OBVIOUS
<1>11. ASSUME NEW b \in Blocks
       PROVE  G(s, b) = G(stack[t], b) + (IF b = p THEN d ELSE 0) /\ M(s, b) = M(stack[t], b)
  <2>1. G(s, b) = 0 /\ M(s, b) = 0
    BY <1>6, HasNone
  <2>2. PICK z : z = stack[t]
    OBVIOUS
  <2>3. /\ G(z, b) = (IF b = z[1].b /\ kind[b] = "task" THEN 1 ELSE 0) + (IF b = z[1].b /\ z[1].at \in InBody THEN 1 ELSE 0) + (IF b = z[1].b /\ z[1].at \in {"link", "unlink"} THEN 1 ELSE 0)
        /\ M(z, b) = (IF b = z[1].b /\ z[1].at \in InBody \cup {"self_lock"} THEN 1 ELSE 0) + (IF b = z[1].b /\ z[1].at = "link" THEN 1 ELSE 0)
    BY <1>4, <1>6, <2>2, HasRun
  <2>4. z[1].b = p /\ z[1].at \notin InBody /\ z[1].at \notin {"link", "unlink"} /\ z[1].at \notin InBody \cup {"self_lock"} /\ z[1].at # "link"
    BY <1>3, <1>4, <2>2 DEF InBody
  <2>5. G(z, b) = (IF b = p /\ kind[b] = "task" THEN 1 ELSE 0) /\ M(z, b) = 0
    BY <2>3, <2>4
  <2> QED  BY <1>10, <2>1, <2>2, <2>5
<1>12. /\ refcount' \in [Blocks -> Int]
       /\ \A b \in Blocks : refcount'[b] = refcount[b] + (IF b = p /\ Counted(b) THEN d ELSE 0)
  <2>1. refcount \in [Blocks -> Int] /\ refcount' = IF kind[p] = "task" THEN Minus(refcount, p) ELSE refcount
    BY <1>1, <1>3 DEF TypeInv, CountType, drop
  <2>2. CASE kind[p] = "task"
    <3>1. refcount' \in [Blocks -> Int] /\ \A b \in Blocks : refcount'[b] = refcount[b] - (IF b = p /\ Counted(b) THEN 1 ELSE 0)
      BY <1>4, <2>1, <2>2, PlusFacts
    <3> QED  BY <1>10, <2>1, <2>2, <3>1
  <2>3. CASE kind[p] # "task"
    BY <1>10, <2>1, <2>3
  <2> QED  BY <2>2, <2>3
<1>13. RefsInv'
  <2>1. Pins(s, stack[t], p, d)
    BY <1>11, <1>12 DEF Pins
  <2>2. \A q \in Parents : Lives(q)' <=> Lives(q)
    BY <1>0, <1>9, EdgeLives
  <2>3. RestKept
    BY <1>0, <2>2, RestSame DEF RestKept
  <2> QED  BY <1>0, <1>5, <1>7, <2>1, <2>3, PinRefs
<1>14. RunInv'
  <2>0. \A q \in Parents, u \in Threads : Runs(u, q)' => u # t /\ Runs(u, q) /\ Base(u)' = Base(u)
    BY <1>8 DEF Blocks
  <2>1. ASSUME NEW q \in queue'
        PROVE  ~body_claimed'[q] /\ \A u \in Threads : ~Runs(u, q)'
    <3>1. q \in Parents
      BY <1>0, <1>1 DEF TypeInv, LinkType
    <3> QED  BY <1>0, <1>1, <2>0, <3>1 DEF RunInv
  <2>2. \A q \in Parents, u \in Threads : Runs(u, q)' => (body_claimed'[q] <=> Base(u)'.at # "claim")
    BY <1>0, <1>1, <2>0 DEF RunInv
  <2>3. \A q \in Parents, u, v \in Threads : Runs(u, q)' /\ Runs(v, q)' => u = v
    BY <1>1, <2>0 DEF RunInv
  <2>4. \A q \in Parents : ~body_claimed'[q] => num_locks'[q] = 0 /\ ~completed'[q]
    BY <1>0, <1>1 DEF RunInv
  <2>5. ASSUME NEW c \in Clients, client'[c] = "dormant"
        PROVE  /\ stack'[c] = <<>> /\ kind'[Handle[c]] = "op" /\ ~body_claimed'[Handle[c]]
               /\ Handle[c] \notin queue' /\ \A u \in Threads : ~Runs(u, Handle[c])'
    <3>1. /\ stack[c] = <<>> /\ kind[Handle[c]] = "op" /\ ~body_claimed[Handle[c]]
          /\ Handle[c] \notin queue /\ \A u \in Threads : ~Runs(u, Handle[c])
      BY <1>0, <1>1, <2>5 DEF RunInv
    <3>2. Handle[c] \in Parents /\ c \in Threads /\ c # t
      BY <1>1, <1>4, <3>1, OpIsParent, ConstantFacts
    <3> QED  BY <1>0, <1>8, <2>0, <3>1, <3>2
  <2> QED  BY <2>1, <2>2, <2>3, <2>4, <2>5 DEF RunInv
<1>15. OwnerInv'
  <2>1. ASSUME NEW c \in Clients, kind[Handle[c]] = "op"
        PROVE  OwnerOK(c)'
    <3>1. /\ Handle[c] \in Parents /\ c \in Threads /\ Handle[c] \in Blocks /\ OwnerOK(c)
      BY <1>1, <2>1, OpIsParent, ConstantFacts DEF OwnerInv
    <3>2. ~Settles(t, Handle[c])
      BY <1>3, <1>4 DEF Settles, RunFrame
    <3>3. (Runs(c, Handle[c]) /\ Base(c).at # "drop") \/ Settles(c, Handle[c]) =>
          (Runs(c, Handle[c])' /\ Base(c)'.at # "drop") \/ Settles(c, Handle[c])'
      BY <1>4, <1>8, <3>1, <3>2
    <3>4. \A u \in Threads : Runs(u, Handle[c])' => Runs(u, Handle[c]) /\ Base(u)' = Base(u)
      BY <1>8, <3>1
    <3> QED  BY <1>0, <3>1, <3>3, <3>4 DEF OwnerOK
  <2> QED  BY <1>0, <2>1 DEF OwnerInv
<1>16. /\ queue' \subseteq Parents /\ settle_synchronously' \in [Blocks -> BOOLEAN]
       /\ client' \in [Clients -> {"dormant", "idle", "blocked", "attached", "served", "gone"}]
  BY <1>0, <1>1 DEF TypeInv, LinkType, FlagType
<1> QED  BY <1>0, <1>5, <1>6, <1>7, <1>9, <1>11, <1>12, <1>13, <1>14, <1>15, <1>16, EdgeStep

\* The frame of a dispatch that starts.
LEMMA ClaimFrame ==
    ASSUME NEW p \in Parents
    PROVE  LET x == Frame("run", p, "claim") IN
           /\ x \in FrameSet /\ RunFrame(x) /\ x.f = "run" /\ x.b = p /\ x.at = "claim" /\ x.conts = <<>>
<1>1. PICK x : x = Frame("run", p, "claim")
  OBVIOUS
<1>2. /\ x.f = "run" /\ x.b = p /\ x.at = "claim" /\ x.conts = <<>> /\ x.parent = NoBlock /\ x.k = 0
      /\ x.cancel = FALSE /\ x \in FrameSet
  BY <1>1 DEF Frame, FrameSet, Blocks
<1>3. Len(Nested[p]) \in Nat
  BY ConstantFacts
<1>4. RunFrame(x)
  BY <1>2, <1>3 DEF RunFrame
<1> QED  BY <1>1, <1>2, <1>4

\* A thread that was idle takes up the dispatch of p, that nobody has taken.
LEMMA StartFacts ==
    ASSUME BlockInv, NEW t \in Threads, stack[t] = <<>>, NEW p \in Parents, ~body_claimed[p],
           stack' = [stack EXCEPT ![t] = <<Frame("run", p, "claim")>>]
    PROVE  \E s \in Seq(FrameSet) :
              /\ Moves(t, s) /\ StackOK(s) /\ Edge(t) /\ s[1].conts = <<>> /\ s[1].f = "run"
              /\ \A b \in Blocks : /\ G(s, b) = G(stack[t], b) + (IF b = p /\ kind[b] = "task" THEN 1 ELSE 0)
                                   /\ M(s, b) = M(stack[t], b)
              /\ Runs(t, p)' /\ Base(t)'.at = "claim" /\ \A q \in Parents : Runs(t, q)' => q = p
              /\ \A u \in Threads : u # t =>
                     /\ stack'[u] = stack[u] /\ Base(u)' = Base(u)
                     /\ \A b \in Blocks : (Settles(u, b)' <=> Settles(u, b)) /\ (Runs(u, b)' <=> Runs(u, b))
<1>1. TypeInv /\ RunInv /\ LocksInv /\ ChildInv
  BY DEF BlockInv
<1>2. PICK x : x = Frame("run", p, "claim")
  OBVIOUS
<1>3. x \in FrameSet /\ RunFrame(x) /\ x.f = "run" /\ x.b = p /\ x.at = "claim" /\ x.conts = <<>>
  BY <1>2, ClaimFrame
<1>4. PICK s : s = <<x>>
  OBVIOUS
<1>5. s \in Seq(FrameSet) /\ Len(s) = 1 /\ s[1] = x /\ s # <<>> /\ s[Len(s)] = x
  BY <1>3, <1>4
<1>6. Moves(t, s)
  BY <1>2, <1>4 DEF Moves
<1>7. StackOK(s)
  BY <1>3, <1>5 DEF StackOK
<1>8. /\ Top(t)' = s[1] /\ Base(t)' = x
      /\ \A b \in Blocks : Runs(t, b)' <=> b = p
      /\ \A u \in Threads : u # t =>
             /\ stack'[u] = stack[u] /\ Base(u)' = Base(u)
             /\ \A b \in Blocks : (Settles(u, b)' <=> Settles(u, b)) /\ (Runs(u, b)' <=> Runs(u, b))
  <2>1. /\ s # <<>> => Top(t)' = s[1] /\ Base(t)' = s[Len(s)]
        /\ \A b \in Blocks : Runs(t, b)' <=> s # <<>> /\ s[Len(s)].f = "run" /\ s[Len(s)].b = b
        /\ \A u \in Threads : u # t =>
               /\ stack'[u] = stack[u] /\ Base(u)' = Base(u)
               /\ \A b \in Blocks : (Settles(u, b)' <=> Settles(u, b)) /\ (Runs(u, b)' <=> Runs(u, b))
    BY <1>1, <1>5, <1>6, FrameMove
  <2> QED  BY <1>3, <1>5, <2>1
<1>9. num_locks[p] = 0 /\ Linked(p) = {}
  <2>1. num_locks[p] = 0
    BY <1>1 DEF RunInv
  <2>2. PICK l, m : l = Cardinality(Linked(p)) /\ m = StackLocks(p)
    OBVIOUS
  <2>3. l \in Nat /\ m \in Nat /\ ExecutionFlag \in Nat /\ ExecutionFlag > 1 /\ IsFiniteSet(Linked(p))
    BY <1>1, <2>2, LinkedFinite, StackNat, ConstantFacts DEF Blocks
  <2>4. m + l = 0 \/ 0 = ExecutionFlag + m + l
    BY <1>1, <2>1, <2>2 DEF LocksInv
  <2>5. l = 0
    BY <2>3, <2>4
  <2>6. Linked(p) = {}
    BY <2>2, <2>3, <2>5, FS_EmptySet
  <2> QED  BY <2>1, <2>6
<1>10. Edge(t)
  <2>1. \A q \in Parents : ~Runs(t, q) /\ q \in Blocks
    BY DEF Runs, Blocks
  <2> QED  BY <1>3, <1>8, <1>9, <2>1 DEF Edge
<1>11. ASSUME NEW b \in Blocks
       PROVE  /\ G(s, b) = G(stack[t], b) + (IF b = p /\ kind[b] = "task" THEN 1 ELSE 0)
              /\ M(s, b) = M(stack[t], b)
  <2>1. G(stack[t], b) = 0 /\ M(stack[t], b) = 0
    BY <1>1, HasNone DEF TypeInv, StackType
  <2>2. /\ G(s, b) = (IF b = s[1].b /\ kind[b] = "task" THEN 1 ELSE 0) + (IF b = s[1].b /\ s[1].at \in InBody THEN 1 ELSE 0) + (IF b = s[1].b /\ s[1].at \in {"link", "unlink"} THEN 1 ELSE 0)
        /\ M(s, b) = (IF b = s[1].b /\ s[1].at \in InBody \cup {"self_lock"} THEN 1 ELSE 0) + (IF b = s[1].b /\ s[1].at = "link" THEN 1 ELSE 0)
    BY <1>3, <1>5, HasRun
  <2>3. s[1].b = p /\ s[1].at \notin InBody /\ s[1].at \notin {"link", "unlink"} /\ s[1].at \notin InBody \cup {"self_lock"} /\ s[1].at # "link"
    BY <1>3, <1>5 DEF InBody
  <2>4. G(s, b) = (IF b = p /\ kind[b] = "task" THEN 1 ELSE 0) /\ M(s, b) = 0
    BY <2>2, <2>3
  <2> QED  BY <2>1, <2>4
<1>12. \A b \in Blocks : /\ G(s, b) = G(stack[t], b) + (IF b = p /\ kind[b] = "task" THEN 1 ELSE 0)
                         /\ M(s, b) = M(stack[t], b)
  BY <1>11
<1>13. Runs(t, p)' /\ Base(t)'.at = "claim" /\ \A q \in Parents : Runs(t, q)' => q = p
  BY <1>3, <1>8 DEF Blocks
<1> QED  BY <1>3, <1>5, <1>6, <1>7, <1>8, <1>10, <1>12, <1>13, Zenon

\* The runs of bodies, with one that starts.
LEMMA StartRuns ==
    ASSUME BlockInv, NEW t \in Threads, stack[t] = <<>>, NEW p \in Parents, ~body_claimed[p],
           \A u \in Threads : ~Runs(u, p),
           UNCHANGED <<kind, num_locks, body_claimed, completed>>,
           p \notin queue', queue' \subseteq queue,
           \A c \in Clients : client'[c] = "dormant" => client[c] = "dormant" /\ c # t /\ Handle[c] # p,
           Runs(t, p)', Base(t)'.at = "claim", \A q \in Parents : Runs(t, q)' => q = p,
           \A u \in Threads : u # t =>
                     /\ stack'[u] = stack[u] /\ Base(u)' = Base(u)
                     /\ \A b \in Blocks : Runs(u, b)' <=> Runs(u, b)
    PROVE  RunInv'
<1>0. kind' = kind /\ num_locks' = num_locks /\ body_claimed' = body_claimed /\ completed' = completed
  OBVIOUS
<1>1. TypeInv /\ RunInv
  BY DEF BlockInv
<1>2. \A q \in Parents, u \in Threads : Runs(u, q)' => \/ u = t /\ q = p
                                                       \/ u # t /\ q # p /\ Runs(u, q) /\ Base(u)' = Base(u)
  BY DEF Blocks
<1>3. ASSUME NEW q \in queue'
      PROVE  ~body_claimed'[q] /\ \A u \in Threads : ~Runs(u, q)'
  <2>1. q \in Parents /\ q # p /\ q \in queue
    BY <1>1 DEF TypeInv, LinkType
  <2> QED  BY <1>0, <1>1, <1>2, <2>1 DEF RunInv
<1>4. ASSUME NEW q \in Parents, NEW u \in Threads, Runs(u, q)'
      PROVE  body_claimed'[q] <=> Base(u)'.at # "claim"
  <2>1. CASE u = t /\ q = p
    BY <1>0, <2>1
  <2>2. CASE u # t /\ q # p /\ Runs(u, q) /\ Base(u)' = Base(u)
    BY <1>0, <1>1, <2>2 DEF RunInv
  <2> QED  BY <1>2, <1>4, <2>1, <2>2
<1>5. \A q \in Parents, u, v \in Threads : Runs(u, q)' /\ Runs(v, q)' => u = v
  BY <1>1, <1>2 DEF RunInv
<1>6. \A q \in Parents : ~body_claimed'[q] => num_locks'[q] = 0 /\ ~completed'[q]
  BY <1>0, <1>1 DEF RunInv
<1>7. ASSUME NEW c \in Clients, client'[c] = "dormant"
      PROVE  /\ stack'[c] = <<>> /\ kind'[Handle[c]] = "op" /\ ~body_claimed'[Handle[c]]
             /\ Handle[c] \notin queue' /\ \A u \in Threads : ~Runs(u, Handle[c])'
  <2>1. client[c] = "dormant" /\ c # t /\ Handle[c] # p
    BY <1>7
  <2>2. /\ stack[c] = <<>> /\ kind[Handle[c]] = "op" /\ ~body_claimed[Handle[c]]
        /\ Handle[c] \notin queue /\ \A u \in Threads : ~Runs(u, Handle[c])
    BY <1>1, <2>1 DEF RunInv
  <2>3. c \in Threads /\ Handle[c] \in Parents
    BY <1>1, <2>2, OpIsParent, ConstantFacts
  <2> QED  BY <1>0, <1>2, <2>1, <2>2, <2>3
<1> QED  BY <1>3, <1>4, <1>5, <1>6, <1>7 DEF RunInv

\* A worker takes a block from the queue: the invariant is kept.
LEMMA DispatchKept ==
    ASSUME BlockInv, NEW t \in Threads, dispatch(t)
    PROVE  BlockInv'
<1>0. /\ kind' = kind /\ num_locks' = num_locks /\ body_claimed' = body_claimed /\ completed' = completed
      /\ cancelled' = cancelled /\ prereq_cancelled' = prereq_cancelled /\ nested_parent' = nested_parent
      /\ settle_synchronously' = settle_synchronously /\ continuations' = continuations
      /\ refcount' = refcount /\ client' = client
  BY DEF dispatch, blockVars
<1>1. TypeInv /\ RunInv /\ OwnerInv /\ RefsInv /\ ChildInv
  BY DEF BlockInv
<1>2. t \in Workers /\ stack[t] = <<>> /\ t \notin Clients
  BY TaskBlockAssumption DEF dispatch
<1>3. PICK p \in queue : /\ queue' = queue \ {p}
                         /\ stack' = [stack EXCEPT ![t] = <<Frame("run", p, "claim")>>]
  BY DEF dispatch
<1>4. p \in Parents /\ p \in Blocks /\ ~body_claimed[p] /\ \A u \in Threads : ~Runs(u, p)
  BY <1>1, <1>3 DEF RunInv, TypeInv, LinkType, Blocks
<1>5. PICK s \in Seq(FrameSet) :
              /\ Moves(t, s) /\ StackOK(s) /\ Edge(t) /\ s[1].conts = <<>> /\ s[1].f = "run"
              /\ \A b \in Blocks : /\ G(s, b) = G(stack[t], b) + (IF b = p /\ kind[b] = "task" THEN 1 ELSE 0)
                                   /\ M(s, b) = M(stack[t], b)
              /\ Runs(t, p)' /\ Base(t)'.at = "claim" /\ \A q \in Parents : Runs(t, q)' => q = p
              /\ \A u \in Threads : u # t =>
                     /\ stack'[u] = stack[u] /\ Base(u)' = Base(u)
                     /\ \A b \in Blocks : (Settles(u, b)' <=> Settles(u, b)) /\ (Runs(u, b)' <=> Runs(u, b))
  BY <1>2, <1>3, <1>4, StartFacts
<1>6. RefsInv'
  <2>1. \A q \in Parents : Lives(q)' <=> Lives(q)
    BY <1>0, <1>5, EdgeLives
  <2>2. ASSUME NEW b \in Blocks, Counted(b)
        PROVE  \E m, n \in Int : /\ Rest(b)' = Rest(b) + m /\ StackRefs(b)' = StackRefs(b) + n
                                 /\ refcount'[b] = refcount[b] + m + n
    <3>1. PICK n \in Int : n = (IF b = p /\ kind[b] = "task" THEN 1 ELSE 0)
      OBVIOUS
    <3>2. PICK m \in Int : m = -n
      OBVIOUS
    <3>3. Cardinality(Captors(b)') = Cardinality(Captors(b)) /\ HeldBy(b)' = HeldBy(b) /\ Linked(b)' = Linked(b)
      BY <1>0, <2>1, CaptorsSame, HeldSame DEF Linked
    <3>4. PICK o, w : o = Owned(b) /\ w = Owned(b)'
      OBVIOUS
    <3>5. o \in Nat /\ w = o + m
      <4>1. o = (IF kind[b] = "node" \/ (kind[b] = "task" /\ b \in queue) THEN 1 ELSE 0)
        BY <3>4 DEF Owned
      <4>2. w = (IF kind[b] = "node" \/ (kind[b] = "task" /\ b \in queue /\ b # p) THEN 1 ELSE 0)
        BY <1>0, <1>3, <3>4 DEF Owned
      <4> QED  BY <1>3, <3>1, <3>2, <4>1, <4>2
    <3>6. PICK h, u, l : h = Cardinality(HeldBy(b)) /\ u = Cardinality(Captors(b)) /\ l = Cardinality(Linked(b))
      OBVIOUS
    <3>7. h \in Nat /\ u \in {0, 1} /\ l \in Nat
      BY <1>1, <3>6, HeldFinite, CaptorsCount, LinkedFinite
    <3>8. Rest(b) = h + u + o + l /\ Rest(b)' = h + u + w + l
      BY <3>3, <3>4, <3>6 DEF Rest
    <3>9. Rest(b)' = Rest(b) + m
      BY <3>5, <3>7, <3>8
    <3>10. StackRefs(b) \in Nat /\ StackRefs(b)' = StackRefs(b) + G(s, b) - G(stack[t], b)
      BY <1>0, <1>1, <1>5, StackMove
    <3>11. G(s, b) = G(stack[t], b) + n /\ G(stack[t], b) \in Int
      BY <1>5, <3>1, WeightInt
    <3>12. StackRefs(b)' = StackRefs(b) + n
      BY <3>10, <3>11
    <3>13. refcount'[b] = refcount[b] + m + n
      <4>1. refcount[b] \in Int
        BY <1>1 DEF TypeInv, CountType
      <4> QED  BY <1>0, <3>2, <4>1
    <3> QED  BY <3>9, <3>12, <3>13
  <2> QED  BY <1>0, <1>1, <2>2, RefsMove
<1>7. RunInv'
  <2>1. \A c \in Clients : client'[c] = "dormant" => client[c] = "dormant" /\ c # t /\ Handle[c] # p
    BY <1>0, <1>1, <1>2, <1>3 DEF RunInv
  <2>2. p \notin queue' /\ queue' \subseteq queue
    BY <1>3
  <2> QED  BY <1>0, <1>2, <1>4, <1>5, <2>1, <2>2, StartRuns
<1>8. OwnerInv'
  <2>1. ASSUME NEW c \in Clients, kind[Handle[c]] = "op"
        PROVE  OwnerOK(c)'
    <3>1. /\ Handle[c] \in Parents /\ c \in Threads /\ Handle[c] \in Blocks /\ OwnerOK(c) /\ c # t
      BY <1>1, <1>2, <2>1, OpIsParent, ConstantFacts DEF OwnerInv
    <3>2. (Runs(c, Handle[c]) /\ Base(c).at # "drop") \/ Settles(c, Handle[c]) =>
          (Runs(c, Handle[c])' /\ Base(c)'.at # "drop") \/ Settles(c, Handle[c])'
      BY <1>5, <3>1
    <3>3. \A u \in Threads : Runs(u, Handle[c])' /\ Base(u)'.at = "self_lock" => Runs(u, Handle[c]) /\ Base(u)' = Base(u)
      BY <1>5, <3>1
    <3> QED  BY <1>0, <3>1, <3>2, <3>3 DEF OwnerOK
  <2> QED  BY <1>0, <2>1 DEF OwnerInv
<1>9. /\ queue' \subseteq Parents /\ settle_synchronously' \in [Blocks -> BOOLEAN]
      /\ refcount' \in [Blocks -> Int]
      /\ client' \in [Clients -> {"dormant", "idle", "blocked", "attached", "served", "gone"}]
  BY <1>0, <1>1, <1>3 DEF TypeInv, LinkType, FlagType, CountType
<1>10. \A b \in Blocks : M(s, b) = M(stack[t], b)
  BY <1>5
<1> QED  BY <1>0, <1>5, <1>6, <1>7, <1>8, <1>9, <1>10, EdgeStep

\* The owner of an access fires it inline: the invariant is kept.
LEMMA FireInlineKept ==
    ASSUME BlockInv, NEW t \in Threads, fire_inline(t)
    PROVE  BlockInv'
<1>0. /\ kind' = kind /\ num_locks' = num_locks /\ body_claimed' = body_claimed /\ completed' = completed
      /\ cancelled' = cancelled /\ prereq_cancelled' = prereq_cancelled /\ nested_parent' = nested_parent
      /\ continuations' = continuations /\ refcount' = refcount /\ queue' = queue
  BY DEF fire_inline
<1>1. TypeInv /\ RunInv /\ OwnerInv /\ RefsInv /\ ChildInv
  BY DEF BlockInv
<1>2. t \in Clients /\ client[t] = "dormant"
  BY DEF fire_inline
<1>3. PICK p : p = Handle[t]
  OBVIOUS
<1>4. /\ client' = [client EXCEPT ![t] = "idle"]
      /\ settle_synchronously' = [settle_synchronously EXCEPT ![p] = TRUE]
      /\ stack' = [stack EXCEPT ![t] = <<Frame("run", p, "claim")>>]
  BY <1>3 DEF fire_inline
<1>5. /\ client' \in [Clients -> {"dormant", "idle", "blocked", "attached", "served", "gone"}]
      /\ client'[t] = "idle" /\ \A c \in Clients : c # t => client'[c] = client[c]
  BY <1>1, <1>2, <1>4 DEF TypeInv, LinkType
<1>6. /\ stack[t] = <<>> /\ kind[p] = "op" /\ ~body_claimed[p] /\ p \notin queue /\ \A u \in Threads : ~Runs(u, p)
  BY <1>1, <1>2, <1>3 DEF RunInv
<1>7. p \in Blocks /\ p \in Parents
  BY <1>1, <1>2, <1>3, <1>6, OpIsParent, ConstantFacts
<1>8. \A c \in Clients : Handle[c] = p => c = t
  <2>1. \A c \in Clients : Handle[c] = p => c \in Holders(p)
    BY <1>7, ConstantFacts
  <2>2. PICK c \in Clients : Holders(p) = {c}
    BY <1>1, <1>6, <1>7, OwnerExists
  <2> QED  BY <1>2, <1>3, <2>1, <2>2
<1>9. /\ settle_synchronously' \in [Blocks -> BOOLEAN]
      /\ \A b \in Blocks : b # p => settle_synchronously'[b] = settle_synchronously[b]
  BY <1>1, <1>4, <1>7 DEF TypeInv, FlagType
<1>10. PICK s \in Seq(FrameSet) :
              /\ Moves(t, s) /\ StackOK(s) /\ Edge(t) /\ s[1].conts = <<>> /\ s[1].f = "run"
              /\ \A b \in Blocks : /\ G(s, b) = G(stack[t], b) + (IF b = p /\ kind[b] = "task" THEN 1 ELSE 0)
                                   /\ M(s, b) = M(stack[t], b)
              /\ Runs(t, p)' /\ Base(t)'.at = "claim" /\ \A q \in Parents : Runs(t, q)' => q = p
              /\ \A u \in Threads : u # t =>
                     /\ stack'[u] = stack[u] /\ Base(u)' = Base(u)
                     /\ \A b \in Blocks : (Settles(u, b)' <=> Settles(u, b)) /\ (Runs(u, b)' <=> Runs(u, b))
  BY <1>4, <1>6, <1>7, StartFacts
<1>11. \A c \in Clients : (client'[c] = "gone") <=> (client[c] = "gone")
  BY <1>2, <1>5
<1>12. RefsInv'
  <2>1. \A q \in Parents : Lives(q)' <=> Lives(q)
    BY <1>0, <1>10, <1>11, EdgeLives
  <2>2. RestKept
    BY <1>0, <1>11, <2>1, RestSame DEF RestKept
  <2>3. PICK d \in Int : d = 0
    OBVIOUS
  <2>4. Pins(s, stack[t], p, d)
    <3>1. ASSUME NEW b \in Blocks
          PROVE  /\ G(s, b) = G(stack[t], b) + (IF b = p THEN d ELSE 0)
                 /\ refcount'[b] = refcount[b] + (IF b = p /\ Counted(b) THEN d ELSE 0)
      <4>1. G(stack[t], b) \in Int /\ refcount[b] \in Int
        BY <1>1, WeightInt DEF TypeInv, CountType
      <4>2. G(s, b) = G(stack[t], b) + 0
        BY <1>6, <1>10
      <4> QED  BY <1>0, <2>3, <4>1, <4>2
    <3> QED  BY <3>1 DEF Pins
  <2> QED  BY <1>0, <1>10, <2>2, <2>4, PinRefs
<1>13. RunInv'
  <2>1. \A c \in Clients : client'[c] = "dormant" => client[c] = "dormant" /\ c # t /\ Handle[c] # p
    BY <1>5, <1>8
  <2>2. p \notin queue' /\ queue' \subseteq queue
    BY <1>0, <1>6
  <2> QED  BY <1>0, <1>6, <1>7, <1>10, <2>1, <2>2, StartRuns
<1>14. OwnerInv'
  <2>1. ASSUME NEW c \in Clients, kind[Handle[c]] = "op"
        PROVE  OwnerOK(c)'
    <3>1. /\ Handle[c] \in Parents /\ c \in Threads /\ Handle[c] \in Blocks /\ OwnerOK(c)
      BY <1>1, <2>1, OpIsParent, ConstantFacts DEF OwnerInv
    <3>2. CASE c # t
      <4>1. Handle[c] # p
        BY <1>8, <3>2
      <4>2. (Runs(c, Handle[c]) /\ Base(c).at # "drop") \/ Settles(c, Handle[c]) =>
            (Runs(c, Handle[c])' /\ Base(c)'.at # "drop") \/ Settles(c, Handle[c])'
        BY <1>10, <3>1, <3>2
      <4>3. \A u \in Threads : Runs(u, Handle[c])' /\ Base(u)'.at = "self_lock" => Runs(u, Handle[c]) /\ Base(u)' = Base(u)
        BY <1>10, <3>1
      <4>4. settle_synchronously'[Handle[c]] = settle_synchronously[Handle[c]] /\ client'[c] = client[c]
        BY <1>5, <1>9, <3>1, <3>2, <4>1
      <4> QED  BY <1>0, <3>1, <4>2, <4>3, <4>4 DEF OwnerOK
    <3>3. CASE c = t
      <4>1. Runs(t, p)' /\ Base(t)'.at = "claim"
        BY <1>10
      <4>2. \A u \in Threads : Runs(u, p)' => Base(u)'.at = "claim"
        BY <1>6, <1>7, <1>10
      <4> QED  BY <1>3, <1>5, <3>3, <4>1, <4>2 DEF OwnerOK
    <3> QED  BY <3>2, <3>3
  <2> QED  BY <1>0, <2>1 DEF OwnerInv
<1>15. queue' \subseteq Parents /\ refcount' \in [Blocks -> Int]
  BY <1>0, <1>1 DEF TypeInv, LinkType, CountType
<1>16. \A b \in Blocks : M(s, b) = M(stack[t], b)
  BY <1>10
<1>17. \A c \in Clients : client[c] \in {"attached", "gone"} => client'[c] = client[c]
  BY <1>2, <1>5
<1> QED  BY <1>0, <1>5, <1>9, <1>10, <1>12, <1>13, <1>14, <1>15, <1>16, <1>17, EdgeStep

-----------------------------------------------------------------------------
(* The initial states *)

\* An initial state holds those facts.
LEMMA InitKinds ==
    ASSUME Init
    PROVE  KindType /\ InitFacts
<1>1. /\ kind \in [Blocks -> Kinds \cup {"bare"}]
      /\ \A b \in Blocks : (b \in Children <=> kind[b] = "bare") /\ (kind[b] = "op" => Cardinality(Holders(b)) = 1)
  BY DEF Init
<1>2. KindType
  BY <1>1, TaskBlockAssumption DEF KindType
<1>3. ASSUME NEW c \in Clients
      PROVE  /\ client[c] = "gone" <=> kind[Handle[c]] = "node"
             /\ client[c] = "dormant" <=> kind[Handle[c]] = "op"
             /\ client[c] \in {"dormant", "idle", "gone"}
  BY DEF Init
<1>4. \A b \in Blocks : /\ ~body_claimed[b] /\ ~completed[b] /\ ~cancelled[b] /\ ~settle_synchronously[b]
                        /\ num_locks[b] = 0 /\ nested_parent[b] = NoBlock /\ continuations[b] = <<>>
  BY DEF Init
<1>5. stack = [t \in Threads |-> <<>>] /\ queue = {b \in Parents : kind[b] # "op"}
  BY DEF Init
<1> QED  BY <1>2, <1>3, <1>4, <1>5 DEF InitFacts

\* No frame counts for anything.
LEMMA InitStacks ==
    ASSUME InitFacts
    PROVE  /\ \A t \in Threads : stack[t] = <<>> /\ \A b : ~Runs(t, b) /\ ~Settles(t, b)
           /\ \A b : StackRefs(b) = 0 /\ StackLocks(b) = 0
<1>1. \A t \in Threads : stack[t] = <<>>
  BY DEF InitFacts
<1>2. \A t \in Threads : \A b : ~Runs(t, b) /\ ~Settles(t, b)
  BY <1>1 DEF Runs, Settles
<1>3. ASSUME NEW n, NEW b
      PROVE  Num(n, b) = 0
  <2>1. \A t \in Threads : DOMAIN stack[t] = {}
    BY <1>1
  <2>2. With(n, b) = {}
    BY <2>1 DEF With
  <2> QED  BY <2>2, FS_EmptySet DEF Num
<1>4. ASSUME NEW b
      PROVE  StackRefs(b) = 0 /\ StackLocks(b) = 0
  <2>1. /\ Num(1, b) = 0 /\ Num(2, b) = 0 /\ Num(3, b) = 0 /\ Num(4, b) = 0 /\ Num(5, b) = 0
        /\ Num(6, b) = 0 /\ Num(7, b) = 0 /\ Num(8, b) = 0 /\ Num(9, b) = 0
    BY <1>3
  <2> QED  BY <2>1 DEF StackRefs, StackLocks
<1> QED  BY <1>1, <1>2, <1>4

\* Every reference count is right,
LEMMA InitRefs ==
    ASSUME Init
    PROVE  RefsInv /\ \A b \in Blocks : Linked(b) = {}
<1>1. KindType /\ InitFacts
  BY InitKinds
<1>2. ASSUME NEW b \in Blocks
      PROVE  Linked(b) = {}
  BY <1>1, ConstantFacts DEF Linked, InitFacts, Blocks
<1>3. ASSUME NEW p \in Parents
      PROVE  Lives(p)
  <2>1. kind[p] = "op" => \E c \in Holders(p) : client[c] # "gone"
    <3>1. ASSUME kind[p] = "op"
          PROVE  \E c \in Holders(p) : client[c] # "gone"
      <4>1. IsFiniteSet(Holders(p)) /\ Cardinality(Holders(p)) = 1
        BY <1>1, <3>1, ConstantFacts DEF KindType, Blocks
      <4>2. PICK c : c \in Holders(p)
        BY <4>1, FS_EmptySet
      <4>3. c \in Clients /\ Handle[c] = p
        BY <4>2 DEF Holders
      <4> QED  BY <1>1, <3>1, <4>2, <4>3 DEF InitFacts
    <3> QED  BY <3>1
  <2>2. ~body_claimed[p]
    BY <1>1 DEF InitFacts, Blocks
  <2> QED  BY <2>1, <2>2 DEF Lives
<1>4. ASSUME NEW b \in Blocks
      PROVE  refcount[b] = IF Counted(b) THEN Rest(b) + StackRefs(b) ELSE 0
  <2>1. StackRefs(b) = 0
    BY <1>1, InitStacks
  <2>2. Cardinality(Linked(b)) = 0
    BY <1>2, FS_EmptySet
  <2>3. Captors(b) = Captor(b)
    BY <1>3 DEF Captors, Captor
  <2>4. PICK h, o, u, w : /\ h = Cardinality(HeldBy(b)) /\ o = Owned(b) /\ u = Cardinality(Captor(b))
                          /\ w = Cardinality(Holders(b))
    OBVIOUS
  <2>5. u \in {0, 1} /\ h \in Nat
    BY <2>3, <2>4, CaptorsCount, HeldFinite
  <2>6. Rest(b) = h + u + o + 0
    BY <2>2, <2>3, <2>4 DEF Rest
  <2>7. b \notin Children => u = 0
    <3>1. ASSUME b \notin Children
          PROVE  u = 0
      <4>1. \A p \in Parents : b \notin Range(Nested[p])
        BY <3>1, ConstantFacts
      <4> QED  BY <2>3, <2>4, <4>1, CaptorsCount
    <3> QED  BY <3>1
  <2>8. kind[b] # "node" => h = w
    <3>1. ASSUME kind[b] # "node"
          PROVE  HeldBy(b) = Holders(b)
      BY <1>1, <3>1 DEF HeldBy, Holders, InitFacts
    <3> QED  BY <2>4, <3>1
  <2>9. kind[b] = "node" => h = 0
    <3>1. ASSUME kind[b] = "node"
          PROVE  HeldBy(b) = {}
      BY <3>1 DEF HeldBy
    <3> QED  BY <2>4, <3>1, FS_EmptySet
  <2>10. /\ kind[b] = "node" => o = 1 /\ b \notin Children
         /\ kind[b] = "task" => o = 1 /\ b \notin Children
         /\ kind[b] = "bare" => o = 0
    BY <1>1, <2>4 DEF Owned, InitFacts, KindType, Blocks
  <2>11. refcount[b] = CASE kind[b] = "bare" -> w + u
                         [] kind[b] = "task" -> w + 1
                         [] kind[b] = "node" -> 1
                         [] kind[b] = "op"   -> 0
    BY <2>4 DEF Init
  <2>12. CASE kind[b] = "bare"
    <3>1. refcount[b] = w + u /\ Counted(b)
      BY <2>11, <2>12 DEF Counted
    <3>2. Rest(b) + StackRefs(b) = w + u
      BY <2>1, <2>5, <2>6, <2>8, <2>10, <2>12
    <3> QED  BY <3>1, <3>2
  <2>13. CASE kind[b] = "task"
    <3>1. refcount[b] = w + 1 /\ Counted(b)
      BY <2>11, <2>13 DEF Counted
    <3>2. Rest(b) + StackRefs(b) = w + 1
      BY <2>1, <2>5, <2>6, <2>7, <2>8, <2>10, <2>13
    <3> QED  BY <3>1, <3>2
  <2>14. CASE kind[b] = "node"
    <3>1. refcount[b] = 1 /\ Counted(b)
      BY <2>11, <2>14 DEF Counted
    <3>2. Rest(b) + StackRefs(b) = 1
      BY <2>1, <2>5, <2>6, <2>7, <2>9, <2>10, <2>14
    <3> QED  BY <3>1, <3>2
  <2>15. CASE kind[b] = "op"
    <3>1. refcount[b] = 0 /\ ~Counted(b)
      BY <2>11, <2>15 DEF Counted
    <3> QED  BY <3>1
  <2> QED  BY <1>1, <2>12, <2>13, <2>14, <2>15 DEF KindType
<1> QED  BY <1>2, <1>4 DEF RefsInv

\* and every variable has its type.
LEMMA InitTypes ==
    ASSUME Init
    PROVE  TypeInv
<1>1. KindType /\ InitFacts /\ RefsInv
  BY InitKinds, InitRefs
<1>2. CountType
  <2>1. num_locks = [b \in Blocks |-> 0]
    BY DEF Init
  <2> DEFINE r(b) == CASE kind[b] = "bare" -> Cardinality(Holders(b)) + Cardinality(Captor(b))
                       [] kind[b] = "task" -> Cardinality(Holders(b)) + 1
                       [] kind[b] = "node" -> 1
                       [] kind[b] = "op"   -> 0
  <2>2. refcount = [b \in Blocks |-> r(b)]
    BY DEF Init
  <2> HIDE DEF r
  <2>3. ASSUME NEW b \in Blocks
        PROVE  refcount[b] \in Int
    <3>1. Cardinality(Holders(b)) \in Nat /\ Cardinality(Captor(b)) \in Nat
      <4>1. IsFiniteSet(Holders(b))
        BY ConstantFacts
      <4>2. IsFiniteSet(Captor(b))
        <5>1. \A p, q \in Captor(b) : p = q
          BY TaskBlockAssumption DEF Captor
        <5>2. Captor(b) = {} \/ \E p : Captor(b) = {p}
          BY <5>1
        <5> QED  BY <5>2, FS_EmptySet, FS_Singleton
      <4> QED  BY <4>1, <4>2, FS_CardinalityType
    <3>2. PICK u, w : u = Cardinality(Captor(b)) /\ w = Cardinality(Holders(b))
      OBVIOUS
    <3>3. refcount[b] = CASE kind[b] = "bare" -> w + u
                         [] kind[b] = "task" -> w + 1
                         [] kind[b] = "node" -> 1
                         [] kind[b] = "op"   -> 0
      BY <3>2 DEF Init
    <3>4. kind[b] \in {"task", "op", "node", "bare"}
      BY <1>1 DEF KindType
    <3> QED  BY <3>1, <3>2, <3>3, <3>4
  <2>4. refcount \in [Blocks -> Int]
    <3>1. \A b \in Blocks : r(b) \in Int
      BY <2>2, <2>3
    <3> QED  BY <2>2, <3>1
  <2> QED  BY <2>1, <2>4 DEF CountType, Blocks
<1>3. FlagType
  BY DEF Init, FlagType
<1>4. LinkType
  <2>1. nested_parent \in [Blocks -> Parents \cup {NoBlock}]
    BY DEF Init
  <2>2. continuations \in [Blocks -> Seq(Clients)]
    BY DEF Init
  <2>3. queue \subseteq Parents
    BY DEF Init
  <2>4. client \in [Clients -> {"dormant", "idle", "blocked", "attached", "served", "gone"}]
    <3>1. client = [c \in Clients |-> client[c]]
      BY DEF Init
    <3>2. \A c \in Clients : client[c] \in {"dormant", "idle", "blocked", "attached", "served", "gone"}
      BY <1>1 DEF InitFacts
    <3> QED  BY <3>1, <3>2
  <2> QED  BY <2>1, <2>2, <2>3, <2>4 DEF LinkType
<1>5. StackType
  <2>1. stack = [t \in Threads |-> <<>>]
    BY DEF Init
  <2>2. <<>> \in Seq(FrameSet) /\ Len(<<>>) = 0
    OBVIOUS
  <2>3. StackOK(<<>>)
    BY <2>2 DEF StackOK
  <2> QED  BY <2>1, <2>2, <2>3 DEF StackType
<1> QED  BY <1>1, <1>2, <1>3, <1>4, <1>5 DEF TypeInv

\* The invariant holds initially.
LEMMA InitInv ==
    ASSUME Init
    PROVE  BlockInv
<1>1. KindType /\ InitFacts /\ RefsInv /\ TypeInv /\ \A b \in Blocks : Linked(b) = {}
  BY InitKinds, InitRefs, InitTypes
<1>2. /\ \A t \in Threads : stack[t] = <<>> /\ \A b : ~Runs(t, b) /\ ~Settles(t, b)
      /\ \A b : StackRefs(b) = 0 /\ StackLocks(b) = 0
  BY <1>1, InitStacks
<1>3. LocksInv
  <2>1. ASSUME NEW p \in Parents
        PROVE  num_locks[p] = 0 /\ StackLocks(p) + Cardinality(Linked(p)) = 0
    <3>1. num_locks[p] = 0 /\ StackLocks(p) = 0 /\ Cardinality(Linked(p)) = 0
      BY <1>1, <1>2, FS_EmptySet DEF InitFacts, Blocks
    <3> QED  BY <3>1
  <2> QED  BY <2>1 DEF LocksInv
<1>4. RunInv
  <2>1. \A p \in Parents : ~body_claimed[p] /\ ~completed[p] /\ num_locks[p] = 0
    BY <1>1 DEF InitFacts, Blocks
  <2>2. queue \subseteq Parents /\ \A p \in queue : kind[p] # "op"
    BY <1>1 DEF InitFacts
  <2>3. ASSUME NEW c \in Clients, client[c] = "dormant"
        PROVE  /\ stack[c] = <<>> /\ kind[Handle[c]] = "op" /\ ~body_claimed[Handle[c]]
               /\ Handle[c] \notin queue /\ \A t \in Threads : ~Runs(t, Handle[c])
    <3>1. kind[Handle[c]] = "op" /\ Handle[c] \in Blocks /\ c \in Threads
      BY <1>1, <2>3, ConstantFacts DEF InitFacts
    <3> QED  BY <1>1, <1>2, <2>2, <3>1 DEF InitFacts
  <2> QED  BY <1>2, <2>1, <2>2, <2>3 DEF RunInv
<1>5. SettleInv
  BY <1>1, <1>2 DEF SettleInv, SettleOK, InitFacts, Blocks
<1>6. ChildInv
  <2>1. \A b \in Blocks : nested_parent[b] = NoBlock /\ ~completed[b] /\ num_locks[b] = 0
    BY <1>1 DEF InitFacts
  <2>2. \A p \in Parents : p # NoBlock
    BY ConstantFacts DEF Blocks
  <2> QED  BY <1>2, <2>1, <2>2 DEF ChildInv, Blocks
<1>7. AttachInv
  <2>1. IsInjective(<<>>) /\ Range(<<>>) = {}
    BY DEF IsInjective, Range
  <2>2. \A b \in Blocks : ContsOK(b)
    BY <1>1, <2>1 DEF ContsOK, InitFacts
  <2>3. \A t \in Threads : stack[t] = <<>>
    BY <1>2
  <2>4. \A c \in Clients : kind[Handle[c]] = "node" => client[c] = "gone"
    BY <1>1 DEF InitFacts
  <2> QED  BY <2>2, <2>3, <2>4 DEF AttachInv, Resumes
<1>8. OwnerInv
  <2>1. ASSUME NEW c \in Clients, kind[Handle[c]] = "op"
        PROVE  OwnerOK(c)
    <3>1. client[c] = "dormant" /\ ~settle_synchronously[Handle[c]]
      BY <1>1, <2>1, ConstantFacts DEF InitFacts
    <3> QED  BY <3>1 DEF OwnerOK
  <2> QED  BY <2>1 DEF OwnerInv
<1> QED  BY <1>1, <1>3, <1>4, <1>5, <1>6, <1>7, <1>8 DEF BlockInv

-----------------------------------------------------------------------------
(* Two more facts, that the counts do not depend on *)

\* A borrower triggers a child that another owns.
LEMMA BorrowerFacts ==
    ASSUME NEW c \in Borrowers
    PROVE  c \in Clients /\ c \in Triggers /\ Handle[c] \in Children /\ Handle[c] \in Blocks
  BY TaskBlockAssumption DEF Blocks

\* A borrower never waits, attaches or is served.
LEMMA BorrowKept ==
    ASSUME BlockInv, BorrowInv, NEW t \in Threads, Step(t)
    PROVE  BorrowInv'
<1>1. TypeInv /\ RunInv /\ AttachInv
  BY DEF BlockInv
<1>2. client \in [Clients -> {"dormant", "idle", "blocked", "attached", "served", "gone"}]
  BY <1>1 DEF TypeInv, LinkType
<1>3. SUFFICES ASSUME NEW c \in Borrowers
               PROVE  client'[c] \in {"idle", "gone"}
  BY DEF BorrowInv
<1>4. /\ client[c] \in {"idle", "gone"} /\ c \in Clients /\ c \in Triggers
  BY BorrowerFacts DEF BorrowInv
<1>5. CASE client' = client
  BY <1>4, <1>5
<1>6. CASE fire_inline(t) \/ fire_queued(t)
  BY <1>2, <1>4, <1>6 DEF fire_inline, fire_queued
<1>7. CASE wait(t) \/ attach(t)
  <2>1. c # t
    BY <1>4, <1>7 DEF wait, attach
  <2> QED  BY <1>2, <1>4, <1>7, <2>1 DEF wait, attach
<1>8. CASE trigger(t)
  BY <1>2, <1>4, <1>8 DEF trigger, Triggering
<1>9. CASE drop_handle(t)
  BY <1>2, <1>4, <1>9 DEF drop_handle
<1>10. CASE settle_notify(t) \/ op_settle(t)
  <2>1. PICK b : client' = client \/ client' = Notified(b)
    BY <1>10 DEF settle_notify, op_settle
  <2>2. Notified(b)[c] = client[c]
    BY <1>4 DEF Notified
  <2> QED  BY <1>4, <2>1, <2>2
<1>11. CASE settle_cont(t)
  <2>1. PICK q : q = Top(t).conts
    OBVIOUS
  <2>2. stack[t] # <<>> /\ q # <<>> /\ client' = [client EXCEPT ![Head(q)] = "served"]
    BY <1>11, <2>1 DEF settle_cont, At
  <2>3. Top(t) \in FrameSet
    BY <1>1, <2>2, TopFacts
  <2>4. q \in Seq(Clients)
    BY <2>1, <2>3 DEF FrameSet
  <2>5. Head(q) \in Range(q)
    <3>1. Head(q) = q[1] /\ 1 \in DOMAIN q
      BY <2>2, <2>4
    <3> QED  BY <3>1 DEF Range
  <2>6. client[Head(q)] = "attached"
    BY <1>1, <2>1, <2>2, <2>5 DEF AttachInv, TopOK
  <2>7. Head(q) # c
    BY <1>4, <2>6
  <2> QED  BY <1>2, <1>4, <2>2, <2>7
<1>12. CASE Running(t)
  BY <1>5, <1>12 DEF Running, dispatch, run, run_cancelled, add_nested, link_child, unlink, end_body,
                     drop_self_lock, drop
<1>13. CASE release(t) \/ settle_lock(t) \/ settle_node(t) \/ settle_parent(t) \/ drop_parent(t)
            \/ on_complete(t) \/ unpin(t)
  BY <1>5, <1>13 DEF release, settle_lock, settle_node, settle_parent, drop_parent, on_complete, unpin
<1> QED  BY <1>6, <1>7, <1>8, <1>9, <1>10, <1>11, <1>12, <1>13 DEF Step, Settling, Owning

\* A thread's stack after a step, seen from its top.
LEMMA TopMove ==
    ASSUME TypeInv, OpSettleInv, kind' = kind, NEW t \in Threads, NEW s,
           stack' = [stack EXCEPT ![t] = s], s # <<>> => OpStops(Head(s))
    PROVE  OpSettleInv'
<1>1. stack \in [Threads -> Seq(FrameSet)]
  BY DEF TypeInv, StackType
<1>2. ASSUME NEW u \in Threads, stack'[u] # <<>>
      PROVE  OpStops(Top(u))'
  <2>1. OpStops(Top(u))' <=> OpStops(Head(stack'[u]))
    BY DEF OpStops, Top
  <2>2. CASE u = t
    BY <1>1, <1>2, <2>1, <2>2
  <2>3. CASE u # t
    <3>1. stack'[u] = stack[u]
      BY <1>1, <2>3
    <3> QED  BY <1>2, <2>1, <3>1 DEF OpSettleInv, Top
  <2> QED  BY <2>2, <2>3
<1> QED  BY <1>2 DEF OpSettleInv

\* A frame replaced on top keeps OpSettleInv.
LEMMA PutTop ==
    ASSUME TypeInv, OpSettleInv, kind' = kind, NEW t \in Threads, stack[t] # <<>>, NEW y, Put(t, y), OpStops(y)
    PROVE  OpSettleInv'
<1>1. PICK F : F = FrameSet \cup {y}
  OBVIOUS
<1>2. stack[t] \in Seq(FrameSet)
  BY DEF TypeInv, StackType
<1>3. stack[t] \in Seq(F) /\ y \in F
  BY <1>1, <1>2
<1>4. PICK s : s = <<y>> \o Tail(stack[t])
  OBVIOUS
<1>5. s \in Seq(F) /\ s # <<>> /\ s[1] = y
  BY <1>3, <1>4, PutFacts
<1>6. Head(s) = y
  BY <1>5
<1>7. stack' = [stack EXCEPT ![t] = s]
  BY <1>4 DEF Put
<1> QED  BY <1>6, <1>7, TopMove

\* A frame called keeps OpSettleInv.
LEMMA CallTop ==
    ASSUME TypeInv, OpSettleInv, kind' = kind, NEW t \in Threads, stack[t] # <<>>, NEW y, NEW a,
           Call(t, a, y), OpStops(y)
    PROVE  OpSettleInv'
<1>0. PICK x : x = [Top(t) EXCEPT !.at = a]
  OBVIOUS
<1>1. PICK F : F = FrameSet \cup {y, x}
  OBVIOUS
<1>2. stack[t] \in Seq(FrameSet)
  BY DEF TypeInv, StackType
<1>3. stack[t] \in Seq(F) /\ y \in F /\ x \in F
  BY <1>1, <1>2
<1>4. PICK s : s = <<y, x>> \o Tail(stack[t])
  OBVIOUS
<1>5. s \in Seq(F) /\ s # <<>> /\ s[1] = y
  BY <1>3, <1>4, CallFacts
<1>6. Head(s) = y
  BY <1>5
<1>7. stack' = [stack EXCEPT ![t] = s]
  BY <1>0, <1>4 DEF Call
<1> QED  BY <1>6, <1>7, TopMove

\* A frame that returns keeps OpSettleInv.
LEMMA ReturnTop ==
    ASSUME TypeInv, OpSettleInv, kind' = kind, NEW t \in Threads, stack[t] # <<>>, Return(t)
    PROVE  OpSettleInv'
<1>1. stack[t] \in Seq(FrameSet) /\ StackOK(stack[t]) /\ Len(stack[t]) \in 1..3
  BY TopFacts
<1>2. PICK s : s = Tail(stack[t])
  OBVIOUS
<1>3. s \in Seq(FrameSet) /\ Len(s) = Len(stack[t]) - 1 /\ \A i \in 1..Len(s) : s[i] = stack[t][i + 1]
  BY <1>1, <1>2
<1>4. ASSUME s # <<>>
      PROVE  OpStops(Head(s))
  <2>1. Head(s) = stack[t][2] /\ Len(stack[t]) \in {2, 3}
    BY <1>1, <1>3, <1>4
  <2>2. \/ RunFrame(stack[t][2]) \/ TriggerFrame(stack[t][2]) \/ ChildSettle(stack[t][2])
    BY <1>1, <2>1 DEF StackOK
  <2>3. \A b \in Children : kind[b] # "op"
    BY DEF TypeInv, KindType, Blocks
  <2> QED  BY <2>1, <2>2, <2>3 DEF OpStops, RunFrame, TriggerFrame, ChildSettle
<1>5. stack' = [stack EXCEPT ![t] = s]
  BY <1>2 DEF Return
<1> QED  BY <1>4, <1>5, TopMove

\* The settle of an access never passes its continuations, whatever step is taken.
LEMMA OpStopsKept ==
    ASSUME BlockInv, OpSettleInv, NEW t \in Threads, Step(t)
    PROVE  OpSettleInv'
<1>1. TypeInv
  BY DEF BlockInv
<1>2. kind' = kind
  BY DEF Step, Running, Settling, Owning, dispatch, run, run_cancelled, add_nested, link_child, unlink, end_body,
         drop_self_lock, drop, release, settle_lock, settle_notify, op_settle, settle_node, settle_cont,
         settle_parent, drop_parent, on_complete, unpin, fire_inline, fire_queued, wait, attach, trigger, drop_handle
<1>3. ASSUME NEW b, NEW cancel
      PROVE  /\ OpStops(settle(b, cancel)) /\ OpStops(Release(b, cancel)) /\ OpStops(Frame("run", b, "claim"))
  BY DEF OpStops, settle, Release, Frame
<1>4. ASSUME stack[t] # <<>>
      PROVE  /\ Top(t) \in FrameSet
             /\ \A a \in {"body", "link", "unlink", "self_lock", "drop", "notify", "conts", "on_complete"} :
                    [Top(t) EXCEPT !.at = a].f = Top(t).f /\ [Top(t) EXCEPT !.at = a].b = Top(t).b
                    /\ [Top(t) EXCEPT !.at = a].at = a
             /\ OpStops(Top(t))
  <2>1. Top(t) \in FrameSet
    BY <1>1, <1>4, TopFacts
  <2>2. OpStops(Top(t))
    BY <1>4 DEF OpSettleInv
  <2> QED  BY <2>1, <2>2 DEF FrameSet
<1>5. CASE stack' = stack
  <2>1. \A u \in Threads : OpStops(Top(u))' <=> OpStops(Head(stack'[u]))
    BY <1>2 DEF OpStops, Top
  <2> QED  BY <1>2, <1>5, <2>1 DEF OpSettleInv, OpStops, Top
<1>6. CASE dispatch(t) \/ fire_inline(t)
  <2>1. PICK p : stack' = [stack EXCEPT ![t] = <<Frame("run", p, "claim")>>]
    BY <1>6 DEF dispatch, fire_inline
  <2>2. PICK s : s = <<Frame("run", p, "claim")>>
    OBVIOUS
  <2>3. Head(s) = Frame("run", p, "claim")
    BY <2>2
  <2>4. OpStops(Head(s))
    BY <1>3, <2>3
  <2> QED  BY <1>1, <1>2, <2>1, <2>2, <2>4, TopMove
<1>7. CASE trigger(t)
  <2>1. PICK cancel : stack' = [stack EXCEPT ![t] = <<settle(Handle[t], cancel), Frame("trigger", Handle[t], "drop")>>]
    BY <1>7 DEF trigger
  <2>2. PICK s : s = <<settle(Handle[t], cancel), Frame("trigger", Handle[t], "drop")>>
    OBVIOUS
  <2>3. Head(s) = settle(Handle[t], cancel)
    BY <2>2
  <2>4. OpStops(Head(s))
    BY <1>3, <2>3
  <2> QED  BY <1>1, <1>2, <2>1, <2>2, <2>4, TopMove
<1>8. CASE run(t) \/ add_nested(t) \/ end_body(t)
  <2>1. PICK a \in {"body", "link", "self_lock"} : Put(t, [Top(t) EXCEPT !.at = a]) /\ stack[t] # <<>> /\ Top(t).f = "run"
    BY <1>8 DEF run, add_nested, end_body, BodyEnds, Goto, At
  <2>2. OpStops([Top(t) EXCEPT !.at = a])
    BY <1>4, <2>1 DEF OpStops
  <2> QED  BY <1>1, <1>2, <2>1, <2>2, PutTop
<1>9. CASE run_cancelled(t)
  <2>1. stack[t] # <<>> /\ Call(t, "drop", settle(Top(t).b, TRUE))
    BY <1>9 DEF run_cancelled, At
  <2> QED  BY <1>1, <1>2, <1>3, <2>1, CallTop
<1>10. CASE link_child(t) \/ unlink(t)
  <2>1. stack[t] # <<>> /\ Top(t).f = "run"
    BY <1>10 DEF link_child, unlink, At
  <2>2. CASE Put(t, [Top(t) EXCEPT !.k = @ + 1, !.at = "body"])
    <3>1. PICK y : y = Attached(Top(t))
      OBVIOUS
    <3>2. y.f = "run"
      BY <1>4, <2>1, <3>1, NextFrame
    <3>3. Put(t, y)
      BY <2>2, <3>1 DEF Attached
    <3>4. OpStops(y)
      BY <3>2 DEF OpStops
    <3> QED  BY <1>1, <1>2, <2>1, <3>3, <3>4, PutTop
  <2>3. CASE Call(t, "unlink", Release(Top(t).b, FALSE))
    BY <1>1, <1>2, <1>3, <2>1, <2>3, CallTop
  <2> QED  BY <1>10, <2>2, <2>3 DEF link_child, unlink
<1>11. CASE drop_self_lock(t)
  <2>1. stack[t] # <<>> /\ Top(t).f = "run"
    BY <1>11 DEF drop_self_lock, At
  <2>2. CASE Call(t, "drop", settle(Top(t).b, FALSE))
    BY <1>1, <1>2, <1>3, <2>1, <2>2, CallTop
  <2>3. CASE Goto(t, "drop")
    <3>1. Put(t, [Top(t) EXCEPT !.at = "drop"])
      BY <2>3 DEF Goto
    <3>2. OpStops([Top(t) EXCEPT !.at = "drop"])
      BY <1>4, <2>1 DEF OpStops
    <3> QED  BY <1>1, <1>2, <2>1, <3>1, <3>2, PutTop
  <2> QED  BY <1>11, <2>2, <2>3 DEF drop_self_lock
<1>12. CASE stack[t] # <<>> /\ Return(t)
  BY <1>1, <1>2, <1>12, ReturnTop
<1>13. CASE drop(t) \/ on_complete(t) \/ unpin(t)
  BY <1>12, <1>13 DEF drop, on_complete, unpin, At
<1>14. CASE release(t)
  <2>1. stack[t] # <<>> /\ (Put(t, settle(Top(t).b, FALSE)) \/ Return(t))
    BY <1>14 DEF release, At
  <2>2. CASE Put(t, settle(Top(t).b, FALSE))
    BY <1>1, <1>2, <1>3, <2>1, <2>2, PutTop
  <2> QED  BY <1>12, <2>1, <2>2
<1>15. CASE settle_lock(t)
  <2>1. stack[t] # <<>> /\ kind[Top(t).b] \in {"task", "bare"}
    BY <1>15 DEF settle_lock, At
  <2>2. PICK y : y = [Top(t) EXCEPT !.conts = continuations[Top(t).b], !.parent = nested_parent[Top(t).b], !.at = "notify"]
    OBVIOUS
  <2>3. y.b = Top(t).b
    BY <1>4, <2>1, <2>2 DEF FrameSet
  <2>4. OpStops(y)
    BY <2>1, <2>3 DEF OpStops
  <2>5. CASE Put(t, y)
    BY <1>1, <1>2, <2>1, <2>4, <2>5, PutTop
  <2> QED  BY <1>12, <1>15, <2>1, <2>2, <2>5 DEF settle_lock
<1>16. CASE settle_notify(t)
  <2>1. stack[t] # <<>> /\ Put(t, [Top(t) EXCEPT !.at = "conts"])
    BY <1>16 DEF settle_notify, At, Goto
  <2>2. OpStops([Top(t) EXCEPT !.at = "conts"])
    BY <1>4, <2>1 DEF OpStops
  <2> QED  BY <1>1, <1>2, <2>1, <2>2, PutTop
<1>17. CASE op_settle(t)
  <2>1. stack[t] # <<>>
    BY <1>17 DEF op_settle, At
  <2>2. PICK y : y = [Top(t) EXCEPT !.conts = continuations[Top(t).b], !.at = "conts"]
    OBVIOUS
  <2>3. y.at = "conts"
    BY <1>4, <2>1, <2>2 DEF FrameSet
  <2>4. OpStops(y)
    BY <2>3 DEF OpStops
  <2>5. CASE Put(t, y)
    BY <1>1, <1>2, <2>1, <2>4, <2>5, PutTop
  <2> QED  BY <1>12, <1>17, <2>1, <2>2, <2>5 DEF op_settle
<1>18. CASE settle_node(t)
  <2>1. stack[t] # <<>> /\ kind[Top(t).b] = "node" /\ Put(t, [Top(t) EXCEPT !.at = "on_complete"])
    BY <1>18 DEF settle_node, At, Goto
  <2>2. OpStops([Top(t) EXCEPT !.at = "on_complete"])
    BY <1>4, <2>1 DEF OpStops
  <2> QED  BY <1>1, <1>2, <2>1, <2>2, PutTop
<1>19. CASE settle_cont(t)
  <2>1. stack[t] # <<>> /\ Top(t).at = "conts" /\ Put(t, [Top(t) EXCEPT !.conts = Tail(@)])
    BY <1>19 DEF settle_cont, At
  <2>2. PICK y : y = [Top(t) EXCEPT !.conts = Tail(@)]
    OBVIOUS
  <2>3. y.at = "conts"
    BY <1>4, <2>1, <2>2 DEF FrameSet
  <2>4. OpStops(y)
    BY <2>3 DEF OpStops
  <2> QED  BY <1>1, <1>2, <2>1, <2>2, <2>4, PutTop
<1>20. CASE settle_parent(t)
  <2>1. stack[t] # <<>>
    BY <1>20 DEF settle_parent, At
  <2>2. CASE Call(t, "drop_parent", Release(Top(t).parent, Top(t).cancel))
    BY <1>1, <1>2, <1>3, <2>1, <2>2, CallTop
  <2>3. CASE kind[Top(t).b] # "op" /\ Goto(t, "on_complete")
    <3>1. Put(t, [Top(t) EXCEPT !.at = "on_complete"])
      BY <2>3 DEF Goto
    <3>2. OpStops([Top(t) EXCEPT !.at = "on_complete"])
      BY <1>4, <2>1, <2>3 DEF OpStops
    <3> QED  BY <1>1, <1>2, <2>1, <3>1, <3>2, PutTop
  <2> QED  BY <1>12, <1>20, <2>1, <2>2, <2>3 DEF settle_parent
<1>21. CASE drop_parent(t)
  <2>1. stack[t] # <<>> /\ Top(t).f = "settle" /\ Top(t).at = "drop_parent"
    BY <1>21 DEF drop_parent, At
  <2>2. kind[Top(t).b] # "op"
    BY <1>4, <2>1 DEF OpStops
  <2>3. PICK y : y = Orphaned(Top(t))
    OBVIOUS
  <2>4. y.b = Top(t).b
    BY <1>4, <2>1, <2>3, OrphanedFrame
  <2>5. OpStops(y)
    BY <2>2, <2>4 DEF OpStops
  <2>6. Put(t, y)
    BY <1>21, <2>3 DEF drop_parent, Orphaned
  <2> QED  BY <1>1, <1>2, <2>1, <2>5, <2>6, PutTop
<1>22. CASE fire_queued(t) \/ wait(t) \/ attach(t) \/ drop_handle(t)
  BY <1>5, <1>22 DEF fire_queued, wait, attach, drop_handle
<1> QED  BY <1>6, <1>7, <1>8, <1>9, <1>10, <1>11, <1>13, <1>14, <1>15, <1>16, <1>17, <1>18, <1>19, <1>20, <1>21, <1>22
         DEF Step, Running, Settling, Owning

-----------------------------------------------------------------------------
(* The invariant *)

\* A client that drops a handle owns it.
LEMMA DropperOwns ==
    ASSUME BlockInv, BorrowInv, NEW t \in Threads, drop_handle(t)
    PROVE  t \notin Borrowers
<1>1. SUFFICES ASSUME t \in Borrowers
               PROVE  FALSE
  OBVIOUS
<1>2. client[t] \in {"idle", "gone"} /\ Handle[t] \in Children /\ Handle[t] \in Blocks
  BY <1>1, BorrowerFacts DEF BorrowInv
<1>3. kind[Handle[t]] = "bare"
  BY <1>2 DEF BlockInv, TypeInv, KindType
<1> QED  BY <1>2, <1>3 DEF drop_handle

\* Every step of every thread keeps the invariant.
LEMMA StepKept ==
    ASSUME BlockInv, BorrowInv, NEW t \in Threads, Step(t)
    PROVE  BlockInv'
<1>1. CASE Running(t)
  BY <1>1, DispatchKept, RunActionKept, RunCancelledKept, AddNestedKept, LinkChildKept, UnlinkKept, EndBodyKept,
     DropSelfLockKept, DropKept DEF Running
<1>2. CASE Settling(t)
  BY <1>2, ReleaseKept, SettleLockKept, NotifyKept, OpSettleKept, SettleNodeKept, SettleContKept, SettleParentKept,
     DropParentKept, OnCompleteKept, UnpinKept DEF Settling
<1>3. CASE Owning(t)
  BY <1>3, FireInlineKept, FireQueuedKept, WaitActionKept, AttachActionKept, TriggerKept, DropHandleKept,
     DropperOwns DEF Owning
<1> QED  BY <1>1, <1>2, <1>3 DEF Step

\* Nothing moves when nothing is done.
LEMMA StutterKept ==
    ASSUME IInv, UNCHANGED vars
    PROVE  IInv'
<1>1. /\ kind' = kind /\ num_locks' = num_locks /\ body_claimed' = body_claimed /\ completed' = completed
      /\ cancelled' = cancelled /\ prereq_cancelled' = prereq_cancelled /\ nested_parent' = nested_parent
      /\ continuations' = continuations /\ settle_synchronously' = settle_synchronously
      /\ refcount' = refcount /\ queue' = queue /\ client' = client /\ stack' = stack
  BY DEF vars, blockVars
<1>2. TypeInv' <=> TypeInv
  BY <1>1 DEF TypeInv, CountType, FlagType, LinkType, KindType, StackType
<1>3. RefsInv' <=> RefsInv
  BY <1>1 DEF RefsInv, Counted, Rest, HeldBy, Captors, Lives, Runs, Base, Owned, Linked, StackRefs, Num, With, Is, InBody
<1>4. LocksInv' <=> LocksInv
  BY <1>1 DEF LocksInv, Linked, StackLocks, Num, With, Is, InBody
<1>5. RunInv' <=> RunInv
  BY <1>1 DEF RunInv, Runs, Base
<1>6. SettleInv' <=> SettleInv
  BY <1>1 DEF SettleInv, SettleOK, Settles, Top, Linked, StackLocks, Num, With, Is, InBody
<1>7. ChildInv' <=> ChildInv
  BY <1>1 DEF ChildInv, Runs, Base, InBody
<1>8. AttachInv' <=> AttachInv
  BY <1>1 DEF AttachInv, ContsOK, TopOK, Resumes, Top
<1>9. OwnerInv' <=> OwnerInv
  BY <1>1 DEF OwnerInv, OwnerOK, Runs, Base, Settles, Top
<1>10. BorrowInv' /\ OpSettleInv'
  BY <1>1 DEF IInv, BorrowInv, OpSettleInv, OpStops, Top
<1> QED  BY <1>2, <1>3, <1>4, <1>5, <1>6, <1>7, <1>8, <1>9, <1>10 DEF IInv, BlockInv

\* The invariant is inductive.
THEOREM BlockInductive == SafetySpec => []IInv
<1>1. Init => IInv
  <2>1. SUFFICES ASSUME Init
                 PROVE  IInv
    OBVIOUS
  <2>2. KindType /\ InitFacts
    BY <2>1, InitKinds
  <2>3. BorrowInv
    <3>1. ASSUME NEW c \in Borrowers
          PROVE  client[c] \in {"idle", "gone"}
      <4>1. c \in Clients /\ Handle[c] \in Children /\ Handle[c] \in Blocks
        BY <3>1, BorrowerFacts
      <4> QED  BY <2>2, <4>1 DEF KindType, InitFacts
    <3> QED  BY <3>1 DEF BorrowInv
  <2>4. OpSettleInv
    BY <2>2 DEF InitFacts, OpSettleInv
  <2> QED  BY <2>1, <2>3, <2>4, InitInv DEF IInv
<1>2. IInv /\ [Next]_vars => IInv'
  <2>1. SUFFICES ASSUME IInv, [Next]_vars
                 PROVE  IInv'
    OBVIOUS
  <2>2. CASE UNCHANGED vars
    BY <2>1, <2>2, StutterKept
  <2>3. ASSUME NEW t \in Threads, Step(t)
        PROVE  IInv'
    BY <2>1, <2>3, StepKept, BorrowKept, OpStopsKept DEF IInv
  <2> QED  BY <2>1, <2>2, <2>3 DEF Next
<1> QED  BY <1>1, <1>2, PTL DEF SafetySpec

-----------------------------------------------------------------------------
(* What the invariant says of the counts *)

\* The frames that count, and the threads that have one.
LEMMA FrameCount ==
    ASSUME TypeInv, NEW n \in 1..9, NEW b \in Blocks
    PROVE  Cardinality({x \in Frames : Is(n, FrameAt(x), b)}) = Num(n, b)
<1>1. PICK S, T : S = {x \in Frames : Is(n, FrameAt(x), b)} /\ T = With(n, b)
  OBVIOUS
<1>2. ASSUME NEW x \in S
      PROVE  /\ x = <<x[1], x[2]>> /\ x[1] \in Threads /\ x[2] \in DOMAIN stack[x[1]]
             /\ Is(n, stack[x[1]][x[2]], b)
  <2>1. PICK t \in Threads : x \in {<<t, i>> : i \in DOMAIN stack[t]}
    BY <1>1, <1>2 DEF Frames
  <2>2. PICK i \in DOMAIN stack[t] : x = <<t, i>>
    BY <2>1
  <2>3. Is(n, FrameAt(x), b)
    BY <1>1, <1>2
  <2> QED  BY <2>2, <2>3 DEF FrameAt
<1>3. PICK f : f = [x \in S |-> x[1]]
  OBVIOUS
<1>4. f \in [S -> T]
  BY <1>1, <1>2, <1>3 DEF With
<1>5. ASSUME NEW x \in S, NEW y \in S, f[x] = f[y]
      PROVE  x = y
  <2>1. x[1] = y[1]
    BY <1>3, <1>5
  <2>2. StackOK(stack[x[1]])
    BY <1>2 DEF TypeInv, StackType
  <2>3. x[2] = y[2]
    BY <1>2, <2>1, <2>2, AtMostOne
  <2> QED  BY <1>2, <2>1, <2>3
<1>6. ASSUME NEW t \in T
      PROVE  \E x \in S : f[x] = t
  <2>1. PICK i \in DOMAIN stack[t] : Is(n, stack[t][i], b)
    BY <1>1, <1>6 DEF With
  <2>2. t \in Threads
    BY <1>1, <1>6 DEF With
  <2>3. PICK x : x = <<t, i>>
    OBVIOUS
  <2>4. x \in Frames
    BY <2>1, <2>2, <2>3 DEF Frames
  <2>5. FrameAt(x) = stack[t][i] /\ x[1] = t
    BY <2>3 DEF FrameAt
  <2>6. x \in S
    BY <1>1, <2>1, <2>4, <2>5
  <2> QED  BY <1>3, <2>5, <2>6
<1>7. f \in Injection(S, T) /\ f \in Surjection(S, T)
  BY <1>4, <1>5, <1>6 DEF Injection, Surjection, IsInjective
<1>8. IsFiniteSet(T)
  <2>1. T \in SUBSET Threads
    BY <1>1 DEF With
  <2> QED  BY <2>1, ConstantFacts, FS_Subset
<1>9. Cardinality(S) = Cardinality(T)
  BY <1>7, <1>8, FS_Injection
<1> QED  BY <1>1, <1>9 DEF Num

\* The run of a body is the outermost frame of its stack.
LEMMA RunFrames ==
    ASSUME TypeInv, NEW x \in Frames, FrameAt(x).f = "run"
    PROVE  /\ x[1] \in Threads /\ Runs(x[1], FrameAt(x).b) /\ Base(x[1]) = FrameAt(x)
           /\ x[2] \in DOMAIN stack[x[1]]
<1>1. PICK t \in Threads : x \in {<<t, i>> : i \in DOMAIN stack[t]}
  BY DEF Frames
<1>2. PICK i \in DOMAIN stack[t] : x = <<t, i>>
  BY <1>1
<1>3. x[1] = t /\ x[2] = i /\ FrameAt(x) = stack[t][i]
  BY <1>2 DEF FrameAt
<1>4. PICK s : s = stack[t]
  OBVIOUS
<1>5. StackOK(s)
  BY <1>4 DEF TypeInv, StackType
<1>6. s \in Seq(FrameSet) /\ Len(s) \in 0..3 /\ DOMAIN s = 1..Len(s)
  BY <1>5, StackLen
<1>7. s[i].f = "run"
  BY <1>3, <1>4
<1>8. i \in 1..Len(s)
  BY <1>2, <1>4, <1>6
<1>9. i = Len(s)
  BY <1>5, <1>6, <1>7, <1>8 DEF StackOK, RunFrame, TriggerFrame, ParentSettle, ChildSettle, ReleaseFrame
<1>10. s # <<>>
  BY <1>6, <1>8
<1> QED  BY <1>2, <1>3, <1>4, <1>7, <1>9, <1>10 DEF Runs, Base

\* A body's run is one of the frames.
LEMMA BaseFrames ==
    ASSUME TypeInv, NEW t \in Threads, NEW p, Runs(t, p)
    PROVE  \E x \in Frames : x = <<t, Len(stack[t])>> /\ FrameAt(x) = Base(t)
<1>1. stack[t] # <<>> /\ stack[t] \in Seq(FrameSet)
  BY DEF Runs, TypeInv, StackType
<1>2. Len(stack[t]) \in DOMAIN stack[t]
  BY <1>1
<1>3. PICK x : x = <<t, Len(stack[t])>>
  OBVIOUS
<1>4. x \in Frames
  BY <1>2, <1>3 DEF Frames
<1>5. FrameAt(x) = Base(t)
  BY <1>3 DEF FrameAt, Base
<1> QED  BY <1>3, <1>4, <1>5

\* Bodies that live.
LEMMA SameLives ==
    ASSUME TypeInv, NEW p \in Parents
    PROVE  BodyLives(p) <=> Lives(p)
<1>1. (\E x \in Frames : FrameAt(x).f = "run" /\ FrameAt(x).b = p /\ FrameAt(x).at \in InBody)
      <=> \E t \in Threads : Runs(t, p) /\ Base(t).at \in InBody
  <2>1. ASSUME NEW x \in Frames, FrameAt(x).f = "run", FrameAt(x).b = p, FrameAt(x).at \in InBody
        PROVE  \E t \in Threads : Runs(t, p) /\ Base(t).at \in InBody
    BY <2>1, RunFrames
  <2>2. ASSUME NEW t \in Threads, Runs(t, p), Base(t).at \in InBody
        PROVE  \E x \in Frames : FrameAt(x).f = "run" /\ FrameAt(x).b = p /\ FrameAt(x).at \in InBody
    <3>1. PICK x \in Frames : FrameAt(x) = Base(t)
      BY <2>2, BaseFrames
    <3>2. Base(t).f = "run" /\ Base(t).b = p
      BY <2>2 DEF Runs
    <3> QED  BY <2>2, <3>1, <3>2
  <2> QED  BY <2>1, <2>2
<1>2. CASE kind[p] = "task"
  BY <1>1, <1>2 DEF BodyLives, Lives
<1>3. CASE kind[p] = "op"
  BY <1>3 DEF BodyLives, Lives, Freed, Counted
<1>4. CASE kind[p] # "task" /\ kind[p] # "op"
  BY <1>4 DEF BodyLives, Lives
<1> QED  BY <1>2, <1>3, <1>4

\* The references the program holds are the ones the invariant counts.
LEMMA SameReferences ==
    ASSUME TypeInv, ChildInv, NEW b \in Blocks
    PROVE  References(b) = Rest(b) + StackRefs(b)
<1>1. Count({c \in Holders(b) : kind[b] # "node" /\ client[c] # "gone"}) = Cardinality(HeldBy(b))
  BY DEF Count, HeldBy
<1>2. Count({p \in Captor(b) : BodyLives(p)}) = Cardinality(Captors(b))
  <2>1. {p \in Captor(b) : BodyLives(p)} = Captors(b)
    BY SameLives DEF Captor, Captors
  <2> QED  BY <2>1 DEF Count
<1>3. Count({x \in {b} : kind[b] = "node" \/ (kind[b] = "task" /\ b \in queue)}) = Owned(b)
  <2>1. CASE kind[b] = "node" \/ (kind[b] = "task" /\ b \in queue)
    <3>1. {x \in {b} : kind[b] = "node" \/ (kind[b] = "task" /\ b \in queue)} = {b}
      BY <2>1
    <3> QED  BY <2>1, <3>1, FS_Singleton DEF Count, Owned
  <2>2. CASE ~(kind[b] = "node" \/ (kind[b] = "task" /\ b \in queue))
    <3>1. {x \in {b} : kind[b] = "node" \/ (kind[b] = "task" /\ b \in queue)} = {}
      BY <2>2
    <3> QED  BY <2>2, <3>1, FS_EmptySet DEF Count, Owned
  <2> QED  BY <2>1, <2>2
<1>4. Count({c \in Children : nested_parent[c] = b}) = Cardinality(Linked(b))
  BY DEF Count, Linked
<1>5. Count({x \in Frames : FrameAt(x).b = b /\ kind[b] = "task" /\ FrameAt(x).f = "run"}) = Num(1, b)
  <2>1. {x \in Frames : FrameAt(x).b = b /\ kind[b] = "task" /\ FrameAt(x).f = "run"} = {x \in Frames : Is(1, FrameAt(x), b)}
    BY DEF Is
  <2> QED  BY <2>1, FrameCount DEF Count
<1>6. Count({x \in Frames : FrameAt(x).b = b /\ FrameAt(x).f = "run" /\ FrameAt(x).at \in InBody}) = Num(2, b)
  <2>1. {x \in Frames : FrameAt(x).b = b /\ FrameAt(x).f = "run" /\ FrameAt(x).at \in InBody} = {x \in Frames : Is(2, FrameAt(x), b)}
    BY DEF Is
  <2> QED  BY <2>1, FrameCount DEF Count
<1>7. Count({x \in Frames : FrameAt(x).b = b /\ FrameAt(x).f = "run" /\ FrameAt(x).at \in {"link", "unlink"}}) = Num(3, b)
  <2>1. {x \in Frames : FrameAt(x).b = b /\ FrameAt(x).f = "run" /\ FrameAt(x).at \in {"link", "unlink"}} = {x \in Frames : Is(3, FrameAt(x), b)}
    BY DEF Is
  <2> QED  BY <2>1, FrameCount DEF Count
<1>8. Count({x \in Frames : FrameAt(x).b = b /\ FrameAt(x).f = "trigger"}) = Num(4, b)
  <2>1. {x \in Frames : FrameAt(x).b = b /\ FrameAt(x).f = "trigger"} = {x \in Frames : Is(4, FrameAt(x), b)}
    BY DEF Is
  <2> QED  BY <2>1, FrameCount DEF Count
<1>9. Count({x \in Frames : FrameAt(x).parent = b}) = Num(5, b)
  <2>1. {x \in Frames : FrameAt(x).parent = b} = {x \in Frames : Is(5, FrameAt(x), b)}
    BY DEF Is
  <2> QED  BY <2>1, FrameCount DEF Count
<1>10. PICK h, u, o, l, a1, a2, a3, a4, a5 :
            /\ h = Cardinality(HeldBy(b)) /\ u = Cardinality(Captors(b)) /\ o = Owned(b) /\ l = Cardinality(Linked(b))
            /\ a1 = Num(1, b) /\ a2 = Num(2, b) /\ a3 = Num(3, b) /\ a4 = Num(4, b) /\ a5 = Num(5, b)
  OBVIOUS
<1>11. References(b) = h + u + o + l + a1 + a2 + a3 + a4 + a5
  BY <1>1, <1>2, <1>3, <1>4, <1>5, <1>6, <1>7, <1>8, <1>9, <1>10 DEF References
<1>12. Rest(b) = h + u + o + l /\ StackRefs(b) = a1 + a2 + a3 + a4 + a5
  BY <1>10 DEF Rest, StackRefs
<1>13. /\ h \in Nat /\ u \in Nat /\ o \in Nat /\ l \in Nat
       /\ a1 \in Nat /\ a2 \in Nat /\ a3 \in Nat /\ a4 \in Nat /\ a5 \in Nat
  <2>1. u \in {0, 1} /\ o \in {0, 1}
    BY <1>10, CaptorsCount DEF Owned
  <2>2. h \in Nat /\ l \in Nat
    BY <1>10, HeldFinite, LinkedFinite
  <2>3. a1 \in Nat /\ a2 \in Nat /\ a3 \in Nat /\ a4 \in Nat /\ a5 \in Nat
    BY <1>10, NumNat
  <2> QED  BY <2>1, <2>2, <2>3
<1> QED  BY <1>11, <1>12, <1>13

\* Both counts of every block are exact.
LEMMA CountsExact ==
    ASSUME BlockInv
    PROVE  RefcountExact /\ NumLocksExact
<1>1. TypeInv /\ ChildInv /\ RefsInv /\ LocksInv
  BY DEF BlockInv
<1>2. RefcountExact
  BY <1>1, SameReferences DEF RefcountExact, RefsInv
<1>3. ASSUME NEW p \in Parents, num_locks[p] > 0
      PROVE  num_locks[p] = ExecutionFlag
                + Count({x \in Frames : FrameAt(x).f = "run" /\ FrameAt(x).b = p
                                        /\ FrameAt(x).at \in InBody \cup {"self_lock"}})
                + Count({x \in Frames : FrameAt(x).f = "run" /\ FrameAt(x).b = p /\ FrameAt(x).at = "link"})
                + Count({x \in Frames : FrameAt(x).f = "release" /\ FrameAt(x).b = p})
                + Count({x \in Frames : FrameAt(x).parent = p /\ FrameAt(x).at # "drop_parent"})
                + Count({c \in Children : nested_parent[c] = p})
  <2>0. p \in Blocks
    BY DEF Blocks
  <2>1. Count({x \in Frames : FrameAt(x).f = "run" /\ FrameAt(x).b = p
                              /\ FrameAt(x).at \in InBody \cup {"self_lock"}}) = Num(6, p)
    <3>1. {x \in Frames : FrameAt(x).f = "run" /\ FrameAt(x).b = p /\ FrameAt(x).at \in InBody \cup {"self_lock"}}
          = {x \in Frames : Is(6, FrameAt(x), p)}
      BY DEF Is
    <3> QED  BY <1>1, <2>0, <3>1, FrameCount DEF Count
  <2>2. Count({x \in Frames : FrameAt(x).f = "run" /\ FrameAt(x).b = p /\ FrameAt(x).at = "link"}) = Num(7, p)
    <3>1. {x \in Frames : FrameAt(x).f = "run" /\ FrameAt(x).b = p /\ FrameAt(x).at = "link"} = {x \in Frames : Is(7, FrameAt(x), p)}
      BY DEF Is
    <3> QED  BY <1>1, <2>0, <3>1, FrameCount DEF Count
  <2>3. Count({x \in Frames : FrameAt(x).f = "release" /\ FrameAt(x).b = p}) = Num(8, p)
    <3>1. {x \in Frames : FrameAt(x).f = "release" /\ FrameAt(x).b = p} = {x \in Frames : Is(8, FrameAt(x), p)}
      BY DEF Is
    <3> QED  BY <1>1, <2>0, <3>1, FrameCount DEF Count
  <2>4. Count({x \in Frames : FrameAt(x).parent = p /\ FrameAt(x).at # "drop_parent"}) = Num(9, p)
    <3>1. {x \in Frames : FrameAt(x).parent = p /\ FrameAt(x).at # "drop_parent"} = {x \in Frames : Is(9, FrameAt(x), p)}
      BY DEF Is
    <3> QED  BY <1>1, <2>0, <3>1, FrameCount DEF Count
  <2>5. PICK l, a6, a7, a8, a9 : /\ l = Cardinality(Linked(p)) /\ a6 = Num(6, p) /\ a7 = Num(7, p)
                                 /\ a8 = Num(8, p) /\ a9 = Num(9, p)
    OBVIOUS
  <2>6. Count({c \in Children : nested_parent[c] = p}) = l
    BY <2>5 DEF Count, Linked
  <2>7. l \in Nat /\ a6 \in Nat /\ a7 \in Nat /\ a8 \in Nat /\ a9 \in Nat /\ ExecutionFlag \in Nat
    BY <1>1, <2>0, <2>5, LinkedFinite, NumNat, ConstantFacts
  <2>8. StackLocks(p) = a6 + a7 + a8 + a9
    BY <2>5 DEF StackLocks
  <2>9. num_locks[p] = ExecutionFlag + StackLocks(p) + l
    BY <1>1, <1>3, <2>5 DEF LocksInv
  <2>10. num_locks[p] = ExecutionFlag + a6 + a7 + a8 + a9 + l
    BY <2>7, <2>8, <2>9
  <2> QED  BY <2>1, <2>2, <2>3, <2>4, <2>5, <2>6, <2>10
<1> QED  BY <1>2, <1>3 DEF NumLocksExact

\* Every variable has its type, and no count is below zero.
LEMMA TypesKept ==
    ASSUME BlockInv
    PROVE  TypeOK
<1>1. TypeInv /\ ChildInv /\ RefsInv /\ LocksInv
  BY DEF BlockInv
<1>2. ASSUME NEW b \in Blocks
      PROVE  num_locks[b] \in Nat /\ refcount[b] \in Nat
  <2>1. Rest(b) \in Nat /\ StackRefs(b) \in Nat /\ StackLocks(b) \in Nat
    BY <1>1, RestNat, StackNat
  <2>2. refcount[b] \in Nat
    <3>1. refcount[b] = Rest(b) + StackRefs(b) \/ refcount[b] = 0
      BY <1>1 DEF RefsInv
    <3> QED  BY <2>1, <3>1
  <2>3. CASE b \in Children
    BY <1>1, <2>2, <2>3 DEF TypeInv, CountType
  <2>4. CASE b \in Parents
    <3>1. PICK l : l = Cardinality(Linked(b))
      OBVIOUS
    <3>2. l \in Nat /\ ExecutionFlag \in Nat
      BY <1>1, <3>1, LinkedFinite, ConstantFacts
    <3>3. num_locks[b] = 0 \/ num_locks[b] = ExecutionFlag + StackLocks(b) + l
      BY <1>1, <2>4, <3>1 DEF LocksInv
    <3> QED  BY <2>1, <2>2, <3>2, <3>3
  <2> QED  BY <2>3, <2>4 DEF Blocks
<1>3. num_locks \in [Blocks -> Nat] /\ refcount \in [Blocks -> Nat]
  <2>1. num_locks \in [Blocks -> Int] /\ refcount \in [Blocks -> Int]
    BY <1>1 DEF TypeInv, CountType
  <2> QED  BY <1>2, <2>1
<1> QED  BY <1>1, <1>3 DEF TypeOK, TypeInv, FlagType, LinkType, KindType

-----------------------------------------------------------------------------
(* What the invariant says of lifetimes *)

\* A frame that holds a reference keeps a counted block alive,
LEMMA HeldByFrame ==
    ASSUME BlockInv, NEW b \in Blocks, Counted(b), NEW u \in Threads, NEW i \in DOMAIN stack[u],
           NEW n \in 1..5, Is(n, stack[u][i], b)
    PROVE  ~Freed(b)
<1>1. TypeInv /\ ChildInv /\ RefsInv
  BY DEF BlockInv
<1>2. Num(n, b) >= 1
  BY NumPositive
<1>3. PICK a1, a2, a3, a4, a5 : /\ a1 = Num(1, b) /\ a2 = Num(2, b) /\ a3 = Num(3, b) /\ a4 = Num(4, b)
                                /\ a5 = Num(5, b)
  OBVIOUS
<1>4. a1 \in Nat /\ a2 \in Nat /\ a3 \in Nat /\ a4 \in Nat /\ a5 \in Nat
  BY <1>3, NumNat
<1>5. a1 >= 1 \/ a2 >= 1 \/ a3 >= 1 \/ a4 >= 1 \/ a5 >= 1
  <2>1. n = 1 \/ n = 2 \/ n = 3 \/ n = 4 \/ n = 5
    OBVIOUS
  <2> QED  BY <1>2, <1>3, <2>1
<1>6. StackRefs(b) = a1 + a2 + a3 + a4 + a5
  BY <1>3 DEF StackRefs
<1>7. Rest(b) \in Nat /\ refcount[b] = Rest(b) + StackRefs(b)
  BY <1>1, RestNat DEF RefsInv
<1>8. refcount[b] # 0
  BY <1>4, <1>5, <1>6, <1>7
<1> QED  BY <1>8 DEF Freed

\* and so do the queue, the graph and a link.
LEMMA HeldByRest ==
    ASSUME BlockInv, NEW b \in Blocks, Counted(b), Owned(b) = 1 \/ Linked(b) # {}
    PROVE  ~Freed(b)
<1>1. TypeInv /\ ChildInv /\ RefsInv
  BY DEF BlockInv
<1>2. PICK h, u, o, l : /\ h = Cardinality(HeldBy(b)) /\ u = Cardinality(Captors(b)) /\ o = Owned(b)
                        /\ l = Cardinality(Linked(b))
  OBVIOUS
<1>3. h \in Nat /\ u \in {0, 1} /\ o \in {0, 1} /\ l \in Nat /\ IsFiniteSet(Linked(b))
  BY <1>1, <1>2, HeldFinite, CaptorsCount, LinkedFinite DEF Owned
<1>4. o = 1 \/ l # 0
  BY <1>2, <1>3, FS_EmptySet
<1>5. Rest(b) = h + u + o + l
  BY <1>2 DEF Rest
<1>6. StackRefs(b) \in Nat /\ refcount[b] = Rest(b) + StackRefs(b)
  BY <1>1, StackNat DEF RefsInv
<1>7. refcount[b] # 0
  BY <1>3, <1>4, <1>5, <1>6
<1> QED  BY <1>7 DEF Freed

\* An access that has not settled is owned.
LEMMA OwnedOpen ==
    ASSUME BlockInv, NEW p \in Blocks, ~Counted(p), ~completed[p]
    PROVE  ~Freed(p)
<1>1. TypeInv /\ OwnerInv
  BY DEF BlockInv
<1>2. kind[p] = "op"
  BY DEF Counted
<1>3. PICK c \in Clients : Handle[c] = p /\ Holders(p) = {c}
  BY <1>1, <1>2, OwnerExists
<1>4. client[c] # "gone"
  BY <1>1, <1>2, <1>3 DEF OwnerInv, OwnerOK
<1> QED  BY <1>2, <1>3, <1>4 DEF Freed, Counted

\* A lock, a link or a body that has not started keep a parent from settling.
LEMMA LockedByFrame ==
    ASSUME BlockInv, NEW p \in Parents, NEW u \in Threads, NEW i \in DOMAIN stack[u],
           NEW n \in 6..9, Is(n, stack[u][i], p)
    PROVE  ~completed[p] /\ StackLocks(p) # 0
<1>1. SettleOK(p)
  BY DEF BlockInv, SettleInv
<1>2. Num(n, p) >= 1
  BY NumPositive
<1>3. PICK a6, a7, a8, a9 : a6 = Num(6, p) /\ a7 = Num(7, p) /\ a8 = Num(8, p) /\ a9 = Num(9, p)
  OBVIOUS
<1>4. a6 \in Nat /\ a7 \in Nat /\ a8 \in Nat /\ a9 \in Nat
  BY <1>3, NumNat
<1>5. a6 >= 1 \/ a7 >= 1 \/ a8 >= 1 \/ a9 >= 1
  <2>1. n = 6 \/ n = 7 \/ n = 8 \/ n = 9
    OBVIOUS
  <2> QED  BY <1>2, <1>3, <2>1
<1>6. StackLocks(p) = a6 + a7 + a8 + a9
  BY <1>3 DEF StackLocks
<1>7. StackLocks(p) # 0
  BY <1>4, <1>5, <1>6
<1> QED  BY <1>1, <1>7 DEF SettleOK

\* A dispatched body keeps its block until it drops it.
LEMMA RunAlive ==
    ASSUME BlockInv, NEW t \in Threads, NEW p, Runs(t, p), ~(Base(t).at = "drop" /\ kind[p] # "task")
    PROVE  ~Freed(p)
<1>1. TypeInv /\ RunInv
  BY DEF BlockInv
<1>2. RunFrame(Base(t)) /\ p \in Parents /\ Base(t).b = p /\ Base(t) \in FrameSet /\ p \in Blocks
  BY <1>1, RunBase DEF Blocks
<1>3. PICK i : i = Len(stack[t])
  OBVIOUS
<1>4. i \in DOMAIN stack[t] /\ stack[t][i] = Base(t)
  <2>1. stack[t] \in Seq(FrameSet) /\ stack[t] # <<>>
    BY <1>1 DEF TypeInv, StackType, Runs
  <2> QED  BY <1>3, <2>1 DEF Base
<1>5. Base(t).f = "run"
  BY DEF Runs
<1>6. CASE kind[p] = "task"
  <2>1. PICK n \in 1..5 : n = 1
    OBVIOUS
  <2>2. Is(n, stack[t][i], p) /\ Counted(p)
    BY <1>2, <1>4, <1>5, <1>6, <2>1 DEF Is, Counted
  <2> QED  BY <1>2, <1>4, <2>2, HeldByFrame
<1>7. CASE kind[p] = "node"
  BY <1>2, <1>7, HeldByRest DEF Owned, Counted
<1>8. CASE kind[p] = "op"
  <2>1. ~completed[p]
    <3>1. CASE Base(t).at = "claim"
      BY <1>1, <1>2, <3>1 DEF RunInv
    <3>2. CASE Base(t).at # "claim"
      <4>1. Base(t).at \in InBody \cup {"self_lock"}
        BY <1>2, <1>8, <3>2 DEF RunFrame, InBody
      <4>2. PICK n \in 6..9 : n = 6
        OBVIOUS
      <4>3. Is(n, stack[t][i], p)
        BY <1>2, <1>4, <1>5, <4>1, <4>2 DEF Is
      <4> QED  BY <1>2, <1>4, <4>3, LockedByFrame
    <3> QED  BY <3>1, <3>2
  <2>2. ~Counted(p)
    BY <1>8 DEF Counted
  <2> QED  BY <1>2, <2>1, <2>2, OwnedOpen
<1> QED  BY <1>1, <1>2, <1>6, <1>7, <1>8, ConstantFacts DEF TypeInv, KindType, Blocks

\* What a trigger pins,
LEMMA PinAlive ==
    ASSUME BlockInv, NEW u \in Threads, NEW i \in DOMAIN stack[u], TriggerFrame(stack[u][i])
    PROVE  ~Freed(stack[u][i].b)
<1>1. PICK b : b = stack[u][i].b
  OBVIOUS
<1>2. b \in Children /\ b \in Blocks /\ stack[u][i].f = "trigger"
  BY <1>1 DEF TriggerFrame, Blocks
<1>3. Counted(b)
  BY <1>2 DEF BlockInv, TypeInv, KindType, Counted
<1>4. PICK n \in 1..5 : n = 4
  OBVIOUS
<1>5. Is(n, stack[u][i], b)
  BY <1>1, <1>2, <1>4 DEF Is
<1> QED  BY <1>1, <1>2, <1>3, <1>5, HeldByFrame

\* and the parent that a settle has taken, is alive.
LEMMA ParentAlive ==
    ASSUME BlockInv, NEW u \in Threads, NEW i \in DOMAIN stack[u], NEW p, p = stack[u][i].parent,
           p # NoBlock, ~(stack[u][i].at = "drop_parent" /\ ~Counted(p))
    PROVE  ~Freed(p)
<1>1. stack[u] \in Seq(FrameSet)
  BY DEF BlockInv, TypeInv, StackType
<1>2. stack[u][i] \in FrameSet
  BY <1>1
<1>3. p \in Parents /\ p \in Blocks
  BY <1>2 DEF FrameSet, Blocks
<1>4. CASE Counted(p)
  <2>1. PICK n \in 1..5 : n = 5
    OBVIOUS
  <2>2. Is(n, stack[u][i], p)
    BY <2>1 DEF Is
  <2> QED  BY <1>3, <1>4, <2>2, HeldByFrame
<1>5. CASE ~Counted(p)
  <2>1. PICK n \in 6..9 : n = 9
    OBVIOUS
  <2>2. Is(n, stack[u][i], p)
    BY <1>5, <2>1 DEF Is
  <2>3. ~completed[p]
    BY <1>3, <2>2, LockedByFrame
  <2> QED  BY <1>3, <1>5, <2>3, OwnedOpen
<1> QED  BY <1>4, <1>5

\* A counted block with such a frame below is alive.
LEMMA BelowAlive ==
    ASSUME BlockInv, NEW u \in Threads, NEW p \in Parents, Below(stack[u], p), Counted(p)
    PROVE  ~Freed(p)
<1>1. stack[u] \in Seq(FrameSet)
  BY DEF BlockInv, TypeInv, StackType
<1>2. 2 \in DOMAIN stack[u] /\ p \in Blocks
  BY <1>1 DEF Below, Blocks
<1>3. CASE kind[p] = "node"
  BY <1>2, <1>3, HeldByRest DEF Owned
<1>4. CASE kind[p] # "node"
  <2>1. kind[p] = "task"
    BY <1>2, <1>4, ConstantFacts DEF Counted, BlockInv, TypeInv, KindType
  <2>2. PICK n \in 1..5 : n = (IF Len(stack[u]) = 2 THEN 1 ELSE 5)
    OBVIOUS
  <2>3. Is(n, stack[u][2], p)
    BY <2>1, <2>2 DEF Below, Is, RunFrame
  <2> QED  BY <1>2, <2>3, HeldByFrame
<1> QED  BY <1>3, <1>4

\* A parent that is settled is alive, except an access at its continuations, which its
\* owner may have freed.
LEMMA SettleAlive ==
    ASSUME IInv, NEW u \in Threads, NEW p \in Parents, Settles(u, p), Below(stack[u], p),
           ~(Top(u).at = "conts" /\ kind[p] = "op")
    PROVE  ~Freed(p)
<1>0. BlockInv /\ OpSettleInv /\ p \in Blocks
  BY DEF IInv, Blocks
<1>1. CASE Counted(p)
  BY <1>0, <1>1, BelowAlive
<1>2. CASE ~Counted(p)
  <2>1. kind[p] = "op"
    BY <1>2 DEF Counted
  <2>2. Top(u).at \in {"lock", "conts"}
    BY <1>0, <2>1 DEF OpSettleInv, OpStops, Settles
  <2>3. Top(u).at = "lock"
    BY <2>1, <2>2
  <2>4. SettleOK(p)
    BY <1>0 DEF BlockInv, SettleInv
  <2>5. ~completed[p]
    BY <2>3, <2>4 DEF SettleOK
  <2> QED  BY <1>0, <1>2, <2>5, OwnedOpen
<1> QED  BY <1>1, <1>2

\* A parent whose lock is released is alive.
LEMMA ReleaseAlive ==
    ASSUME IInv, NEW u \in Threads, NEW p \in Parents, 1 \in DOMAIN stack[u], ReleaseFrame(stack[u][1], p),
           Below(stack[u], p)
    PROVE  ~Freed(p)
<1>0. BlockInv /\ p \in Blocks
  BY DEF IInv, Blocks
<1>1. CASE Counted(p)
  BY <1>0, <1>1, BelowAlive
<1>2. CASE ~Counted(p)
  <2>1. PICK n \in 6..9 : n = 8
    OBVIOUS
  <2>2. Is(n, stack[u][1], p)
    BY <2>1 DEF Is, ReleaseFrame
  <2>3. ~completed[p]
    BY <1>0, <2>2, LockedByFrame
  <2> QED  BY <1>0, <1>2, <2>3, OwnedOpen
<1> QED  BY <1>1, <1>2

\* The block a frame is about, while the frame will touch it, is alive.
LEMMA BlockAlive ==
    ASSUME IInv, NEW u \in Threads, NEW i \in DOMAIN stack[u], NEW x, x = stack[u][i],
           x.f = "run" => ~(x.at = "drop" /\ kind[x.b] # "task"),
           x.f = "settle" => ~(x.at = "conts" /\ kind[x.b] = "op")
    PROVE  ~Freed(x.b)
<1>0. BlockInv /\ TypeInv
  BY DEF IInv, BlockInv
<1>1. PICK s : s = stack[u]
  OBVIOUS
<1>2. StackOK(s) /\ s \in Seq(FrameSet) /\ Len(s) \in 0..3 /\ DOMAIN s = 1..Len(s)
  BY <1>0, <1>1, StackLen DEF TypeInv, StackType
<1>3. i \in 1..Len(s) /\ x = s[i] /\ s # <<>>
  BY <1>1, <1>2
<1>4. Top(u) = s[1] /\ Base(u) = s[Len(s)] /\ 1 \in DOMAIN s
  BY <1>1, <1>2, <1>3 DEF Top, Base
<1>5. CASE RunFrame(x) /\ i = Len(s)
  <2>1. Runs(u, x.b) /\ Base(u) = x
    BY <1>1, <1>3, <1>4, <1>5 DEF Runs, RunFrame
  <2> QED  BY <1>0, <1>5, <2>1, RunAlive DEF RunFrame
<1>6. CASE TriggerFrame(x)
  BY <1>0, <1>6, PinAlive
<1>7. CASE i = 1 /\ Below(s, x.b) /\ ParentSettle(x, x.b)
  <2>1. Settles(u, x.b) /\ x = Top(u) /\ x.b \in Parents /\ x.f = "settle"
    BY <1>1, <1>3, <1>4, <1>7 DEF Settles, ParentSettle
  <2> QED  BY <1>1, <1>7, <2>1, SettleAlive
<1>8. CASE i = 1 /\ Below(s, x.b) /\ ReleaseFrame(x, x.b)
  <2>1. x.b \in Parents
    BY <1>8 DEF ReleaseFrame
  <2> QED  BY <1>1, <1>3, <1>4, <1>8, <2>1, ReleaseAlive
<1>9. CASE i + 1 \in DOMAIN s /\ TriggerFrame(s[i + 1]) /\ x.b = s[i + 1].b
  BY <1>0, <1>1, <1>9, PinAlive
<1>10. \/ RunFrame(x) /\ i = Len(s)
       \/ TriggerFrame(x)
       \/ i = 1 /\ Below(s, x.b) /\ ParentSettle(x, x.b)
       \/ i = 1 /\ Below(s, x.b) /\ ReleaseFrame(x, x.b)
       \/ i + 1 \in DOMAIN s /\ TriggerFrame(s[i + 1]) /\ x.b = s[i + 1].b
  <2>1. CASE Len(s) = 1
    <3>1. i = 1
      BY <1>3, <2>1
    <3> QED  BY <1>2, <1>3, <2>1, <3>1 DEF StackOK
  <2>2. CASE Len(s) = 2
    <3>1. i = 1 \/ i = 2
      BY <1>3, <2>2
    <3>2. CASE i = 2
      BY <1>2, <1>3, <2>2, <3>2 DEF StackOK
    <3>3. CASE i = 1
      <4>1. \/ RunFrame(s[2]) /\ ParentSettle(s[1], s[2].b)
            \/ RunFrame(s[2]) /\ ReleaseFrame(s[1], s[2].b)
            \/ TriggerFrame(s[2]) /\ s[1].b = s[2].b
        BY <1>2, <2>2 DEF StackOK
      <4>2. i + 1 = 2 /\ 2 \in DOMAIN s /\ x = s[1]
        BY <1>2, <1>3, <2>2, <3>3
      <4>3. CASE RunFrame(s[2]) /\ ParentSettle(s[1], s[2].b)
        <5>1. x.b = s[2].b
          BY <4>2, <4>3 DEF ParentSettle
        <5> QED  BY <2>2, <3>3, <4>2, <4>3, <5>1 DEF Below
      <4>4. CASE RunFrame(s[2]) /\ ReleaseFrame(s[1], s[2].b)
        <5>1. x.b = s[2].b
          BY <4>2, <4>4 DEF ReleaseFrame
        <5> QED  BY <2>2, <3>3, <4>2, <4>4, <5>1 DEF Below
      <4>5. CASE TriggerFrame(s[2]) /\ s[1].b = s[2].b
        BY <4>2, <4>5
      <4> QED  BY <4>1, <4>3, <4>4, <4>5
    <3> QED  BY <3>1, <3>2, <3>3
  <2>3. CASE Len(s) = 3
    <3>1. i = 1 \/ i = 2 \/ i = 3
      BY <1>3, <2>3
    <3>2. TriggerFrame(s[3]) /\ s[2].b = s[3].b /\ (ReleaseFrame(s[1], s[2].parent) \/ ParentSettle(s[1], s[2].parent))
      BY <1>2, <2>3 DEF StackOK
    <3>3. CASE i = 3
      BY <1>3, <3>2, <3>3
    <3>4. CASE i = 2
      <4>1. i + 1 = 3 /\ 3 \in DOMAIN s /\ x = s[2]
        BY <1>2, <1>3, <2>3, <3>4
      <4> QED  BY <3>2, <4>1
    <3>5. CASE i = 1
      <4>1. x = s[1] /\ x.b = s[2].parent
        BY <1>3, <3>2, <3>5 DEF ReleaseFrame, ParentSettle
      <4>2. Below(s, x.b)
        BY <2>3, <4>1 DEF Below
      <4> QED  BY <3>2, <3>5, <4>1, <4>2
    <3> QED  BY <3>1, <3>3, <3>4, <3>5
  <2>4. Len(s) = 1 \/ Len(s) = 2 \/ Len(s) = 3
    BY <1>2, <1>3
  <2> QED  BY <2>1, <2>2, <2>3, <2>4
<1> QED  BY <1>5, <1>6, <1>7, <1>8, <1>9, <1>10

\* No block is touched after it was freed.
LEMMA Lifetimes ==
    ASSUME IInv
    PROVE  NoUseAfterFree
<1>0. BlockInv /\ TypeInv /\ RunInv /\ SettleInv
  BY DEF IInv, BlockInv
<1>1. ASSUME NEW x \in Frames, NEW b \in Touches(FrameAt(x))
      PROVE  ~Freed(b)
  <2>1. PICK u \in Threads : x \in {<<u, i>> : i \in DOMAIN stack[u]}
    BY <1>1 DEF Frames
  <2>2. PICK i \in DOMAIN stack[u] : x = <<u, i>>
    BY <2>1
  <2>3. PICK y : y = stack[u][i] /\ FrameAt(x) = y
    BY <2>2 DEF FrameAt
  <2>4. y.f \in {"run", "settle", "release", "trigger"}
    <3>1. stack[u] \in Seq(FrameSet)
      BY <1>0 DEF TypeInv, StackType
    <3>2. y \in FrameSet
      BY <2>3, <3>1
    <3> QED  BY <3>2 DEF FrameSet
  <2>5. \/ /\ b = y.b
           /\ y.f = "run" => ~(y.at = "drop" /\ kind[y.b] # "task")
           /\ y.f = "settle" => ~(y.at = "conts" /\ kind[y.b] = "op")
        \/ /\ b = y.parent /\ y.parent # NoBlock /\ ~(y.at = "drop_parent" /\ ~Counted(y.parent))
    <3>1. b \in Touches(y)
      BY <1>1, <2>3
    <3> QED  BY <2>4, <3>1 DEF Touches
  <2>6. CASE /\ b = y.b
             /\ y.f = "run" => ~(y.at = "drop" /\ kind[y.b] # "task")
             /\ y.f = "settle" => ~(y.at = "conts" /\ kind[y.b] = "op")
    BY <2>3, <2>6, BlockAlive
  <2>7. CASE b = y.parent /\ y.parent # NoBlock /\ ~(y.at = "drop_parent" /\ ~Counted(y.parent))
    BY <1>0, <2>3, <2>7, ParentAlive
  <2> QED  BY <2>5, <2>6, <2>7
<1>2. ASSUME NEW b \in queue
      PROVE  ~Freed(b)
  <2>1. b \in Parents /\ b \in Blocks /\ ~body_claimed[b]
    BY <1>0 DEF TypeInv, LinkType, RunInv, Blocks
  <2>2. ~completed[b]
    BY <1>0, <2>1 DEF RunInv
  <2>3. CASE Counted(b)
    <3>1. kind[b] \in {"task", "node"}
      BY <1>0, <2>1, <2>3, ConstantFacts DEF TypeInv, KindType, Counted
    <3> QED  BY <1>0, <2>1, <2>3, <3>1, HeldByRest DEF Owned
  <2>4. CASE ~Counted(b)
    BY <1>0, <2>1, <2>2, <2>4, OwnedOpen
  <2> QED  BY <2>3, <2>4
<1>3. ASSUME NEW c \in Children, nested_parent[c] # NoBlock
      PROVE  ~Freed(nested_parent[c])
  <2>1. PICK p : p = nested_parent[c]
    OBVIOUS
  <2>2. p \in Parents /\ p \in Blocks
    BY <1>0, <1>3, <2>1 DEF TypeInv, LinkType, Blocks
  <2>3. Linked(p) # {}
    BY <2>1 DEF Linked
  <2>4. CASE Counted(p)
    BY <1>0, <2>1, <2>2, <2>3, <2>4, HeldByRest
  <2>5. CASE ~Counted(p)
    <3>1. ~completed[p]
      BY <1>0, <2>2, <2>3 DEF SettleInv, SettleOK
    <3> QED  BY <1>0, <2>1, <2>2, <2>5, <3>1, OwnedOpen
  <2> QED  BY <2>4, <2>5
<1> QED  BY <1>1, <1>2, <1>3 DEF NoUseAfterFree

\* A parent that settled is done with its body and its children.
LEMMA AfterChildren ==
    ASSUME BlockInv
    PROVE  CompletesAfterChildren
<1>0. TypeInv /\ RunInv /\ SettleInv /\ ChildInv
  BY DEF BlockInv
<1>1. SUFFICES ASSUME NEW p \in Parents, completed[p], ~cancelled[p]
               PROVE  /\ \A c \in Range(Nested[p]) : completed[c]
                      /\ \A x \in Frames : FrameAt(x).f = "run" /\ FrameAt(x).b = p => FrameAt(x).at = "drop"
  BY DEF CompletesAfterChildren
<1>2. num_locks[p] > 0 /\ body_claimed[p] /\ StackLocks(p) = 0 /\ Linked(p) = {}
  BY <1>0, <1>1 DEF SettleInv, SettleOK
<1>3. ASSUME NEW t \in Threads, Runs(t, p)
      PROVE  Base(t).at = "drop"
  <2>1. RunFrame(Base(t)) /\ Base(t).b = p /\ Base(t).f = "run"
    BY <1>0, <1>3, RunBase DEF Runs
  <2>2. Base(t).at # "claim"
    BY <1>0, <1>2, <1>3 DEF RunInv
  <2>3. Base(t).at \notin InBody \cup {"self_lock"}
    <3>1. SUFFICES ASSUME Base(t).at \in InBody \cup {"self_lock"}
                   PROVE  FALSE
      OBVIOUS
    <3>2. PICK i : i = Len(stack[t])
      OBVIOUS
    <3>3. i \in DOMAIN stack[t] /\ stack[t][i] = Base(t)
      <4>1. stack[t] \in Seq(FrameSet) /\ stack[t] # <<>>
        BY <1>0, <1>3 DEF TypeInv, StackType, Runs
      <4> QED  BY <3>2, <4>1 DEF Base
    <3>4. PICK n \in 6..9 : n = 6
      OBVIOUS
    <3>5. Is(n, stack[t][i], p)
      BY <2>1, <3>1, <3>3, <3>4 DEF Is
    <3> QED  BY <1>2, <3>3, <3>5, LockedByFrame
  <2> QED  BY <2>1, <2>2, <2>3 DEF RunFrame, InBody
<1>4. ASSUME NEW c \in Range(Nested[p])
      PROVE  completed[c]
  <2>1. PICK i \in DOMAIN Nested[p] : c = Nested[p][i]
    BY <1>4 DEF Range
  <2>2. c \in Children /\ nested_parent[c] # p
    BY <1>2, <2>1, NestedFacts DEF Linked
  <2>3. \A t \in Threads : Runs(t, p) => Base(t).at \notin InBody
    BY <1>3 DEF InBody
  <2> QED  BY <1>0, <1>2, <2>1, <2>2, <2>3 DEF ChildInv
<1>5. ASSUME NEW x \in Frames, FrameAt(x).f = "run", FrameAt(x).b = p
      PROVE  FrameAt(x).at = "drop"
  BY <1>0, <1>3, <1>5, RunFrames
<1> QED  BY <1>4, <1>5

-----------------------------------------------------------------------------
(* The theorems *)

\* For any blocks, nesting, handles and threads, the reference count and the completion
\* locks of task_block.h are exact at every step of run, add_nested, release and settle,
\* and no frame, queue entry or link reaches a block that was freed.
THEOREM BlockCountsAndLifetimes == SafetySpec => []CountsAndLifetimes
<1>1. IInv => CountsAndLifetimes
  BY CountsExact, TypesKept, Lifetimes DEF IInv, CountsAndLifetimes
<1> QED  BY <1>1, BlockInductive, PTL

\* A block whose body ran settles after its body returned and every child it attached
\* has settled, however the children's triggers race add_nested and the self-lock.
THEOREM BlockCompletesAfterChildren == SafetySpec => []CompletesAfterChildren
<1>1. IInv => CompletesAfterChildren
  BY AfterChildren DEF IInv
<1> QED  BY <1>1, BlockInductive, PTL

\* The fair specification the runs check has both properties.
THEOREM FairBlockSafe == Spec => [](CountsAndLifetimes /\ CompletesAfterChildren)
<1>1. Spec => SafetySpec
  BY DEF Spec
<1> QED  BY <1>1, BlockCountsAndLifetimes, BlockCompletesAfterChildren, PTL
=============================================================================
