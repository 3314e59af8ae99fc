------------------------------ MODULE Charges ------------------------------
(***************************************************************************)
(* Totals of natural-number charges over a set of holders.  A total is the *)
(* cardinality of a set with one pair <<holder, i>> per unit, so that what *)
(* a step adds or removes follows from the laws of finite sets.            *)
(***************************************************************************)
EXTENDS Naturals, FiniteSetTheorems, TLAPS

Units(S, amount) == UNION {{s} \X (1 .. amount[s]) : s \in S}

Total(S, amount) == Cardinality(Units(S, amount))

-----------------------------------------------------------------------------
\* A holder with amount n owns n units.
LEMMA BlockSize ==
  ASSUME NEW x, NEW n \in Nat
  PROVE  IsFiniteSet({x} \X (1 .. n)) /\ Cardinality({x} \X (1 .. n)) = n
<1>1. IsFiniteSet({x}) /\ Cardinality({x}) = 1
  BY FS_Singleton
<1>2. IsFiniteSet(1 .. n) /\ Cardinality(1 .. n) = n
  BY FS_Interval
<1>3. /\ IsFiniteSet({x} \X (1 .. n))
      /\ Cardinality({x} \X (1 .. n)) = Cardinality({x}) * Cardinality(1 .. n)
  BY <1>1, <1>2, FS_Product, Zenon
<1>4. QED
  BY <1>1, <1>2, <1>3

\* Finitely many holders own finitely many units.
LEMMA UnitsFinite ==
  ASSUME NEW S, IsFiniteSet(S), NEW amount, \A s \in S : amount[s] \in Nat
  PROVE  IsFiniteSet(Units(S, amount)) /\ Total(S, amount) \in Nat
<1> DEFINE block == [s \in S |-> {s} \X (1 .. amount[s])]
           blocks == {{s} \X (1 .. amount[s]) : s \in S}
<1>1. block \in Surjection(S, blocks)
  BY DEF Surjection
<1>2. IsFiniteSet(blocks)
  <2> HIDE DEF block, blocks
  <2> QED BY <1>1, FS_Surjection
<1>3. \A B \in blocks : IsFiniteSet(B)
  <2>1. \A s \in S : IsFiniteSet({s} \X (1 .. amount[s]))
    BY BlockSize
  <2> QED BY <2>1
<1>4. IsFiniteSet(UNION blocks)
  <2> HIDE DEF blocks
  <2> QED BY <1>2, <1>3, FS_UNION
<1>5. QED
  BY <1>4, FS_CardinalityType DEF Units, Total

\* The total depends on the amounts of the counted holders only.
LEMMA TotalSame ==
  ASSUME NEW S, NEW f, NEW g, \A s \in S : f[s] = g[s]
  PROVE  Total(S, f) = Total(S, g)
BY DEF Total, Units

\* One holder contributes its amount.
LEMMA TotalSplit ==
  ASSUME NEW S, IsFiniteSet(S), NEW amount, \A s \in S : amount[s] \in Nat,
         NEW x \in S
  PROVE  Total(S, amount) = Total(S \ {x}, amount) + amount[x]
<1> DEFINE rest == Units(S \ {x}, amount)
           own == {x} \X (1 .. amount[x])
<1>1. Units(S, amount) = rest \cup own
  BY DEF Units
<1>2. rest \cap own = {}
  BY DEF Units
<1>3. IsFiniteSet(S \ {x})
  BY FS_RemoveElement
<1>4. IsFiniteSet(rest) /\ Cardinality(rest) \in Nat
  BY <1>3, UnitsFinite DEF Total
<1>5. IsFiniteSet(own) /\ Cardinality(own) = amount[x]
  BY BlockSize
<1>6. Cardinality(rest \cup own) = Cardinality(rest) + Cardinality(own)
  <2> HIDE DEF rest, own
  <2>1. Cardinality(rest \cap own) = 0
    BY <1>2, FS_EmptySet, Zenon
  <2>2. Cardinality(own) \in Nat
    BY <1>5, FS_CardinalityType, Zenon
  <2>3. Cardinality(rest \cup own)
          = Cardinality(rest) + Cardinality(own) - Cardinality(rest \cap own)
    BY <1>4, <1>5, FS_Union, Zenon
  <2> QED BY <1>4, <2>1, <2>2, <2>3
<1>7. QED
  BY <1>1, <1>5, <1>6 DEF Total

\* Fewer holders never total more.
LEMMA TotalMonotone ==
  ASSUME NEW S, IsFiniteSet(S), NEW amount, \A s \in S : amount[s] \in Nat,
         NEW R \in SUBSET S
  PROVE  Total(R, amount) <= Total(S, amount)
<1>1. Units(R, amount) \in SUBSET Units(S, amount)
  BY DEF Units
<1>2. QED
  BY <1>1, UnitsFinite, FS_Subset DEF Total
=============================================================================
