--------------------------- MODULE FsPolicy_proofs ---------------------------
EXTENDS FsPolicy, FiniteSetTheorems, TLAPS

(* A finite nonempty set of files, told apart by natural indexes, has an   *)
(* oldest one, and Oldest is it.  The finite subsets of a set are well     *)
(* founded under strict inclusion, so among the sets of files older than a *)
(* given one there is a minimal one; it is empty.                          *)
LEMMA OldestIsOldest ==
  ASSUME NEW S, IsFiniteSet(S), S # {}, \A e \in S : e.index \in Nat
  PROVE  /\ Oldest(S) \in S
         /\ \A f \in S : Oldest(S).index <= f.index
<1> DEFINE older(e) == {f \in S : f.index < e.index}
           T == {older(e) : e \in S}
<1>1. T \subseteq FiniteSubsetsOf(S) /\ T # {}
  <2>1. \A e \in S : older(e) \subseteq S /\ IsFiniteSet(older(e))
    BY FS_Subset
  <2> QED
    BY <2>1 DEF FiniteSubsetsOf
<1>2. PICK b \in T : \A c \in T : ~ (<<c, b>> \in StrictSubsetOrdering(S))
  <2> HIDE DEF T
  <2> QED
    BY <1>1, FS_StrictSubsetOrderingWellFounded, WFMin
<1>3. PICK e \in S : b = older(e)
  OBVIOUS
<1>4. \A f \in S : e.index <= f.index
  <2> SUFFICES ASSUME NEW f \in S, f.index < e.index
               PROVE  FALSE
    OBVIOUS
  <2>1. older(f) \subseteq older(e)
    OBVIOUS
  <2>2. f \in older(e) /\ f \notin older(f)
    OBVIOUS
  <2>3. <<older(f), older(e)>> \in StrictSubsetOrdering(S)
    BY <2>1, <2>2 DEF StrictSubsetOrdering
  <2> QED
    BY <1>2, <1>3, <2>3
<1> QED
  BY <1>4 DEF Oldest

(* The first of several candidate sets, or the alternative.                *)
LEMMA FirstOfIsOldest ==
  ASSUME NEW S, IsFiniteSet(S), \A e \in S : e.index \in Nat, NEW other
  PROVE  /\ S # {} => /\ FirstOf(S, other) \in S
                      /\ \A f \in S : FirstOf(S, other).index <= f.index
         /\ S = {} => FirstOf(S, other) = other
BY OldestIsOldest DEF FirstOf

(* What the two choices of the policy return: a deletable file of the      *)
(* first class that has one, the oldest of its class.                      *)
Files(table) == IsFiniteSet(table) /\ \A e \in table : e.index \in Nat /\ e.kind \in Kind

LEMMA TierCases ==
  ASSUME NEW kind \in Kind
  PROVE  fsTierForKind(kind) \in {"A", "B", "C"}
BY DEF Kind, fsTierForKind

LEMMA PickVictimChoice ==
  ASSUME NEW table, Files(table), NEW ackedThrough,
         NEW v, v = fsPickVictim(table, ackedThrough)
  PROVE  /\ Evictable(table) = {} => v = NoVictim
         /\ Evictable(table) # {} =>
              /\ v \in Evictable(table)
              /\ ~isAcked(v, ackedThrough) => \A f \in Evictable(table) :
                   /\ ~isAcked(f, ackedThrough)
                   /\ fsTierForKind(v.kind) = fsTierForKind(f.kind) => v.index <= f.index
                   /\ fsTierForKind(f.kind) = "A" => fsTierForKind(v.kind) = "A"
                   /\ fsTierForKind(f.kind) = "B" => fsTierForKind(v.kind) \in {"A", "B"}
<1> DEFINE free == Evictable(table)
           acked == Acked(free, ackedThrough)
           A == OfTier(free, "A")
           B == OfTier(free, "B")
           C == OfTier(free, "C")
<1>1. /\ IsFiniteSet(free) /\ IsFiniteSet(acked)
      /\ IsFiniteSet(A) /\ IsFiniteSet(B) /\ IsFiniteSet(C)
  BY FS_Subset DEF Files, Evictable, Acked, OfTier
<1>2. /\ \A e \in free : e.index \in Nat /\ e.kind \in Kind
      /\ acked \subseteq free /\ A \subseteq free /\ B \subseteq free /\ C \subseteq free
  BY DEF Files, Evictable, Acked, OfTier
<1>3. free = A \cup B \cup C
  BY <1>2, TierCases DEF OfTier
<1>4. /\ \A e \in acked : isAcked(e, ackedThrough)
      /\ \A e \in free : isAcked(e, ackedThrough) => e \in acked
  BY DEF Acked
<1>5. /\ \A e \in A : fsTierForKind(e.kind) = "A"
      /\ \A e \in B : fsTierForKind(e.kind) = "B"
      /\ \A e \in C : fsTierForKind(e.kind) = "C"
  BY DEF OfTier
<1>6. v = FirstOf(acked, FirstOf(A, FirstOf(B, FirstOf(C, NoVictim))))
  BY DEF fsPickVictim
<1> HIDE DEF free, acked, A, B, C
<1>7. CASE acked # {}
  <2>1. v \in acked
    BY <1>1, <1>2, <1>6, <1>7, FirstOfIsOldest
  <2> QED
    BY <2>1, <1>2, <1>4, <1>7 DEF free
<1>8. CASE acked = {} /\ A # {}
  <2>1. v = FirstOf(A, FirstOf(B, FirstOf(C, NoVictim)))
    BY <1>6, <1>8 DEF FirstOf
  <2>2. v \in A /\ \A f \in A : v.index <= f.index
    BY <1>1, <1>2, <1>8, <2>1, FirstOfIsOldest
  <2> QED
    BY <2>2, <1>2, <1>3, <1>4, <1>5, <1>8 DEF free
<1>9. CASE acked = {} /\ A = {} /\ B # {}
  <2>1. v = FirstOf(B, FirstOf(C, NoVictim))
    BY <1>6, <1>9 DEF FirstOf
  <2>2. v \in B /\ \A f \in B : v.index <= f.index
    BY <1>1, <1>2, <1>9, <2>1, FirstOfIsOldest
  <2> QED
    BY <2>2, <1>2, <1>3, <1>4, <1>5, <1>9 DEF free
<1>10. CASE acked = {} /\ A = {} /\ B = {}
  <2>1. v = FirstOf(C, NoVictim)
    BY <1>6, <1>10 DEF FirstOf
  <2>2. C # {} => v \in C /\ \A f \in C : v.index <= f.index
    BY <1>1, <1>2, <2>1, FirstOfIsOldest
  <2>3. C = {} => v = NoVictim
    BY <2>1 DEF FirstOf
  <2> QED
    BY <2>2, <2>3, <1>2, <1>3, <1>4, <1>5, <1>10 DEF free
<1> QED
  BY <1>7, <1>8, <1>9, <1>10

LEMMA PickTierAVictimChoice ==
  ASSUME NEW table, Files(table), NEW ackedThrough,
         NEW v, v = fsPickTierAVictim(table, ackedThrough)
  PROVE  LET freeA == OfTier(Evictable(table), "A") IN
         /\ freeA = {} => v = NoVictim
         /\ freeA # {} =>
              /\ v \in freeA
              /\ ~isAcked(v, ackedThrough) => \A f \in freeA :
                   ~isAcked(f, ackedThrough) /\ v.index <= f.index
<1> DEFINE freeA == OfTier(Evictable(table), "A")
           acked == Acked(freeA, ackedThrough)
<1>1. /\ IsFiniteSet(freeA) /\ IsFiniteSet(acked) /\ acked \subseteq freeA
      /\ \A e \in freeA : e.index \in Nat
  BY FS_Subset DEF Files, Evictable, Acked, OfTier
<1>2. /\ \A e \in acked : isAcked(e, ackedThrough)
      /\ \A e \in freeA : isAcked(e, ackedThrough) => e \in acked
  BY DEF Acked
<1>3. v = FirstOf(acked, FirstOf(freeA, NoVictim))
  BY DEF fsPickTierAVictim
<1> HIDE DEF freeA, acked
<1>4. CASE acked # {}
  <2>1. v \in acked
    BY <1>1, <1>3, <1>4, FirstOfIsOldest
  <2> QED
    BY <2>1, <1>1, <1>2 DEF freeA
<1>5. CASE acked = {}
  <2>1. v = FirstOf(freeA, NoVictim)
    BY <1>3, <1>5 DEF FirstOf
  <2> QED
    BY <2>1, <1>1, <1>2, <1>5, FirstOfIsOldest DEF freeA
<1> QED
  BY <1>4, <1>5

(***************************************************************************)
(* Sizes add up: BytesOf, a fold that takes files in an order of its own,  *)
(* is the sum over the set.  No induction is needed: where a fact about    *)
(* finite sets fails, it fails for a smallest subset.                      *)
(***************************************************************************)
LEMMA SmallestSet ==
  ASSUME NEW U, IsFiniteSet(U), NEW F, F \subseteq SUBSET U, F # {}
  PROVE  \E m \in F : \A s \in F : s \subseteq m => s = m
<1>1. F \subseteq FiniteSubsetsOf(U)
  BY FS_Subset DEF FiniteSubsetsOf
<1>2. PICK m \in F : \A s \in F : ~ (<<s, m>> \in StrictSubsetOrdering(U))
  BY <1>1, FS_StrictSubsetOrderingWellFounded, WFMin
<1>3. \A s \in F : s \subseteq m /\ s # m => <<s, m>> \in StrictSubsetOrdering(U)
  BY DEF StrictSubsetOrdering
<1>4. \A s \in F : s \subseteq m => s = m
  BY <1>2, <1>3, Zenon
<1> QED
  BY <1>4

(* The file the fold takes first, and the function it computes.            *)
AnyOf(s) == CHOOSE e \in s : TRUE
SumStep(f, s) == IF s = {} THEN 0 ELSE AnyOf(s).bytes + f[s \ {AnyOf(s)}]
IsSum(f, S) == f = [s \in SUBSET S |-> SumStep(f, s)]
SumFor(S) == CHOOSE f : IsSum(f, S)

LEMMA BytesIsSum ==
  ASSUME NEW S
  PROVE  BytesOf(S) = SumFor(S)[S]
<1> DEFINE it == CHOOSE f : f = [s \in SUBSET S |-> IF s = {} THEN 0 ELSE AnyOf(s).bytes + f[s \ {AnyOf(s)}]]
<1>1. BytesOf(S) = it[S]
  BY Zenon DEF BytesOf, MapThenSumSet, MapThenFoldSet, AnyOf
<1>2. it = SumFor(S)
  BY Zenon DEF SumFor, IsSum, SumStep
<1> QED
  BY <1>1, <1>2

LEMMA SumsAgree ==
  ASSUME NEW S, NEW T, NEW f, NEW g, IsSum(f, S), IsSum(g, T),
         NEW s, IsFiniteSet(s), s \subseteq S, s \subseteq T
  PROVE  f[s] = g[s]
<1> DEFINE Bad == {t \in SUBSET s : f[t] # g[t]}
<1> SUFFICES ASSUME Bad # {} PROVE FALSE
  OBVIOUS
<1>1. PICK m \in Bad : \A t \in Bad : t \subseteq m => t = m
  <2>1. Bad \subseteq SUBSET s
    OBVIOUS
  <2> HIDE DEF Bad
  <2> QED
    BY <2>1, SmallestSet
<1>2. f[m] = SumStep(f, m) /\ g[m] = SumStep(g, m)
  BY <1>1 DEF IsSum
<1>3. m # {}
  BY <1>1, <1>2 DEF SumStep
<1>4. AnyOf(m) \in m
  BY <1>3 DEF AnyOf
<1>5. f[m \ {AnyOf(m)}] = g[m \ {AnyOf(m)}]
  BY <1>1, <1>4
<1> QED
  BY <1>1, <1>2, <1>5 DEF SumStep

LEMMA SumExists ==
  ASSUME NEW S, IsFiniteSet(S)
  PROVE  IsSum(SumFor(S), S)
<1> DEFINE Bad == {t \in SUBSET S : ~ \E f : IsSum(f, t)}
<1> SUFFICES Bad = {}
  BY DEF SumFor
<1> SUFFICES ASSUME Bad # {} PROVE FALSE
  OBVIOUS
<1>1. PICK m \in Bad : \A t \in Bad : t \subseteq m => t = m
  <2>1. Bad \subseteq SUBSET S
    OBVIOUS
  <2> HIDE DEF Bad
  <2> QED
    BY <2>1, SmallestSet
<1>2. m \subseteq S /\ ~ \E f : IsSum(f, m)
  BY <1>1
<1>3. \A t : t \subseteq m /\ t # m => IsSum(SumFor(t), t)
  BY <1>1 DEF SumFor
<1> HIDE DEF Bad
<1> DEFINE whole == [t \in SUBSET m |-> IF t = {} THEN 0
                       ELSE AnyOf(t).bytes + SumFor(t \ {AnyOf(t)})[t \ {AnyOf(t)}]]
<1>4. ASSUME NEW t \in SUBSET m, t # {} PROVE t \ {AnyOf(t)} \subseteq m /\ t \ {AnyOf(t)} # m /\ AnyOf(t) \in t
  BY <1>4 DEF AnyOf
<1>5. ASSUME NEW t \in SUBSET m, t # m PROVE whole[t] = SumFor(t)[t]
  <2>1. SumFor(t)[t] = SumStep(SumFor(t), t)
    BY <1>3, <1>5 DEF IsSum
  <2>2. CASE t = {}
    BY <2>1, <2>2 DEF SumStep
  <2>3. CASE t # {}
    <3> DEFINE r == t \ {AnyOf(t)}
    <3>1. r \subseteq t /\ IsFiniteSet(r) /\ IsSum(SumFor(t), t) /\ IsSum(SumFor(r), r)
      BY <1>2, <1>3, <1>4, <1>5, <2>3, FS_Subset
    <3>2. SumFor(t)[r] = SumFor(r)[r]
      BY <3>1, SumsAgree
    <3> QED
      BY <2>1, <2>3, <3>2 DEF SumStep
  <2> QED
    BY <2>2, <2>3
<1>6. ASSUME NEW t \in SUBSET m PROVE whole[t] = SumStep(whole, t)
  <2>1. CASE t = {}
    BY <2>1 DEF SumStep
  <2>2. CASE t # {}
    BY <2>2, <1>4, <1>5 DEF SumStep
  <2> QED
    BY <2>1, <2>2
<1>7. IsSum(whole, m)
  BY <1>6 DEF IsSum
<1> QED
  BY <1>2, <1>7

LEMMA BytesStep ==
  /\ BytesOf({}) = 0
  /\ \A S : IsFiniteSet(S) /\ S # {} =>
       AnyOf(S) \in S /\ BytesOf(S) = AnyOf(S).bytes + BytesOf(S \ {AnyOf(S)})
<1>1. ASSUME NEW S, IsFiniteSet(S) PROVE BytesOf(S) = SumStep(SumFor(S), S)
  BY <1>1, BytesIsSum, SumExists DEF IsSum
<1>2. BytesOf({}) = 0
  BY <1>1, FS_EmptySet DEF SumStep
<1>3. ASSUME NEW S, IsFiniteSet(S), S # {}
      PROVE  AnyOf(S) \in S /\ BytesOf(S) = AnyOf(S).bytes + BytesOf(S \ {AnyOf(S)})
  <2> DEFINE r == S \ {AnyOf(S)}
  <2>1. AnyOf(S) \in S
    BY <1>3 DEF AnyOf
  <2>2. IsFiniteSet(r) /\ r \subseteq S
    BY <1>3, FS_Subset
  <2>3. SumFor(S)[r] = BytesOf(r)
    BY <1>3, <2>2, SumExists, SumsAgree, BytesIsSum
  <2> QED
    BY <1>1, <1>3, <2>1, <2>3 DEF SumStep
<1> QED
  BY <1>2, <1>3

Sized(S) == IsFiniteSet(S) /\ \A e \in S : e.bytes \in Nat

LEMMA BytesType ==
  ASSUME NEW S, Sized(S)
  PROVE  BytesOf(S) \in Nat
<1> DEFINE Bad == {t \in SUBSET S : BytesOf(t) \notin Nat}
<1> SUFFICES ASSUME Bad # {} PROVE FALSE
  OBVIOUS
<1>1. PICK m \in Bad : \A t \in Bad : t \subseteq m => t = m
  <2>1. Bad \subseteq SUBSET S
    OBVIOUS
  <2> HIDE DEF Bad
  <2> QED
    BY <2>1, SmallestSet DEF Sized
<1>2. IsFiniteSet(m) /\ m # {}
  <2>1. IsFiniteSet(m)
    BY <1>1, FS_Subset DEF Sized
  <2>2. BytesOf({}) \in Nat
    BY BytesStep
  <2> QED
    BY <1>1, <2>1, <2>2
<1>3. AnyOf(m) \in m /\ BytesOf(m) = AnyOf(m).bytes + BytesOf(m \ {AnyOf(m)})
  BY <1>2, BytesStep
<1>4. BytesOf(m \ {AnyOf(m)}) \in Nat
  BY <1>1, <1>3
<1>5. AnyOf(m).bytes \in Nat
  BY <1>1, <1>3 DEF Sized
<1> QED
  BY <1>1, <1>3, <1>4, <1>5

(* Whichever file is taken first.                                          *)
LEMMA BytesSplit ==
  ASSUME NEW S, Sized(S), NEW e \in S
  PROVE  BytesOf(S) = e.bytes + BytesOf(S \ {e})
<1> DEFINE Bad == {t \in SUBSET S : \E x \in t : BytesOf(t) # x.bytes + BytesOf(t \ {x})}
<1> SUFFICES ASSUME Bad # {} PROVE FALSE
  OBVIOUS
<1>1. PICK m \in Bad : \A t \in Bad : t \subseteq m => t = m
  <2>1. Bad \subseteq SUBSET S
    OBVIOUS
  <2> HIDE DEF Bad
  <2> QED
    BY <2>1, SmallestSet DEF Sized
<1>2. PICK x \in m : BytesOf(m) # x.bytes + BytesOf(m \ {x})
  BY <1>1
<1>3. \A t : t \subseteq m /\ t # m => \A y \in t : BytesOf(t) = y.bytes + BytesOf(t \ {y})
  BY <1>1
<1>4. IsFiniteSet(m) /\ m \subseteq S
  BY <1>1, FS_Subset DEF Sized
<1> HIDE DEF Bad
<1> DEFINE a == AnyOf(m)
           r == m \ {a, x}
<1>5. a \in m /\ BytesOf(m) = a.bytes + BytesOf(m \ {a})
  BY <1>4, BytesStep
<1>6. a # x
  BY <1>2, <1>5
<1> HIDE DEF a
<1>7. BytesOf(m \ {a}) = x.bytes + BytesOf(r)
  <2>1. (m \ {a}) \ {x} = r /\ x \in m \ {a} /\ m \ {a} \subseteq m /\ m \ {a} # m
    BY <1>5, <1>6
  <2> QED
    BY <1>3, <2>1
<1>8. BytesOf(m \ {x}) = a.bytes + BytesOf(r)
  <2>1. (m \ {x}) \ {a} = r /\ a \in m \ {x} /\ m \ {x} \subseteq m /\ m \ {x} # m
    BY <1>5, <1>6
  <2> QED
    BY <1>3, <2>1
<1>9. BytesOf(r) \in Nat /\ a.bytes \in Nat /\ x.bytes \in Nat
  <2>1. Sized(r)
    BY <1>4, FS_Subset DEF Sized
  <2> QED
    BY <2>1, <1>4, <1>5, BytesType DEF Sized
<1> QED
  BY <1>2, <1>5, <1>7, <1>8, <1>9

(* Fewer files, no more bytes.                                             *)
LEMMA BytesMonotone ==
  ASSUME NEW S, Sized(S), NEW T, T \subseteq S
  PROVE  BytesOf(T) <= BytesOf(S)
<1> DEFINE Bad == {t \in SUBSET S : T \subseteq t /\ ~(BytesOf(T) <= BytesOf(t))}
<1> SUFFICES ASSUME Bad # {} PROVE FALSE
  OBVIOUS
<1>1. PICK m \in Bad : \A t \in Bad : t \subseteq m => t = m
  <2>1. Bad \subseteq SUBSET S
    OBVIOUS
  <2> HIDE DEF Bad
  <2> QED
    BY <2>1, SmallestSet DEF Sized
<1>2. Sized(m) /\ T \subseteq m /\ m \subseteq S /\ ~(BytesOf(T) <= BytesOf(m))
  BY <1>1, FS_Subset DEF Sized
<1>3. BytesOf(T) \in Nat /\ BytesOf(m) \in Nat
  <2>1. Sized(T)
    BY FS_Subset DEF Sized
  <2> QED
    BY <1>2, <2>1, BytesType
<1>4. PICK e \in m : e \notin T
  BY <1>2, <1>3
<1>5. BytesOf(T) <= BytesOf(m \ {e})
  BY <1>1, <1>2, <1>4
<1>6. BytesOf(m) = e.bytes + BytesOf(m \ {e}) /\ BytesOf(m \ {e}) \in Nat /\ e.bytes \in Nat
  <2>1. Sized(m \ {e})
    BY <1>2, FS_Subset DEF Sized
  <2> QED
    BY <1>2, <2>1, BytesSplit, BytesType DEF Sized
<1> QED
  BY <1>2, <1>3, <1>5, <1>6
=============================================================================
