------------------------- MODULE NumberedRows_proofs --------------------------
(***************************************************************************)
(* What the cap of a table keeps, for tables of any size.                  *)
(***************************************************************************)
EXTENDS NumberedRows, FiniteSetTheorems, WellFoundedInduction, TLAPS

\* The cap of a table only drops rows.
LEMMA NewestSubset ==
    ASSUME NEW rows, NEW n
    PROVE  Newest(rows, n) \subseteq rows
BY DEF Newest

\* Whatever a cap drops, it keeps the rows above a row it keeps.
LEMMA NewestUpClosed ==
    ASSUME NEW rows, IsFiniteSet(rows), \A y \in rows : y.id \in Nat,
           NEW n \in Nat, NEW q \in Newest(rows, n), NEW r \in rows, q.id <= r.id
    PROVE  r \in Newest(rows, n)
<1> DEFINE Above(x) == {y \in rows : y.id > x.id}
<1>1. Above(r) \subseteq Above(q)
  <2> SUFFICES ASSUME NEW y \in rows, y.id > r.id PROVE y.id > q.id
    OBVIOUS
  <2> q \in rows
    BY DEF Newest
  <2> QED OBVIOUS
<1>2. IsFiniteSet(Above(q))
  BY FS_Subset, Above(q) \subseteq rows
<1>3. Cardinality(Above(r)) <= Cardinality(Above(q))
  BY <1>1, <1>2, FS_Subset
<1>4. /\ Cardinality(Above(q)) \in Nat
      /\ Cardinality(Above(r)) \in Nat
  BY <1>1, <1>2, FS_Subset, FS_CardinalityType
<1>5. Cardinality(Above(q)) < n
  BY DEF Newest
<1> QED BY <1>3, <1>4, <1>5 DEF Newest

\* The row above all others survives any cap.
LEMMA NewestKeepsTop ==
    ASSUME NEW rows, \A y \in rows : y.id \in Nat,
           NEW n \in Nat \ {0}, NEW x \in rows, \A y \in rows : y.id <= x.id
    PROVE  x \in Newest(rows, n)
<1>1. {y \in rows : y.id > x.id} = {}
  OBVIOUS
<1>2. Cardinality({y \in rows : y.id > x.id}) = 0
  BY <1>1, FS_EmptySet
<1> QED BY <1>2 DEF Newest

LEMMA LeastNumber ==
    ASSUME NEW S \in SUBSET Nat, S # {}
    PROVE  \E m \in S : \A k \in S : m <= k
<1> DEFINE below == {p \in Nat \X Nat : p[1] < p[2]}
<1>1. IsWellFoundedOn(below, Nat)
  BY NatLessThanWellFounded DEF OpToRel
<1>2. \E m \in S : \A k \in S : ~(<<k, m>> \in below)
  <2>1. S \subseteq Nat /\ S # {}
    OBVIOUS
  <2> HIDE DEF below
  <2> QED BY <1>1, <2>1, WFMin, Zenon
<1>3. ASSUME NEW i \in Nat, NEW j \in Nat, <<i, j>> \notin below PROVE j <= i
  BY <1>3
<1> HIDE DEF below
<1> QED BY <1>2, <1>3

\* Rows numbered up to n leave a number for one more.
LEMMA NextIdExists ==
    ASSUME NEW rows, NEW n \in Nat, \A x \in rows : x.id \in 1 .. n
    PROVE  \E k \in 1 .. n + 1 : IsNextId(k, rows)
<1> DEFINE free == {k \in 1 .. n + 1 : \A x \in rows : x.id < k}
<1>1. n + 1 \in free /\ free \subseteq Nat
  OBVIOUS
<1>2. PICK m \in free : \A k \in free : m <= k
  BY <1>1, LeastNumber
<1>3. m \in 1 .. n + 1 /\ \A x \in rows : x.id < m
  BY <1>2
<1>4. ASSUME m # 1 PROVE \E x \in rows : x.id = m - 1
  <2>1. m - 1 \in 1 .. n + 1 /\ ~(m <= m - 1)
    BY <1>3, <1>4
  <2>2. m - 1 \notin free
    BY <1>2, <2>1
  <2>3. PICK x \in rows : ~(x.id < m - 1)
    BY <2>1, <2>2
  <2> QED BY <1>3, <2>3
<1> QED BY <1>3, <1>4 DEF IsNextId

\* The rows above the lowest row the cap keeps are fewer than the cap.
THEOREM NewestBounded ==
    ASSUME NEW rows, IsFiniteSet(rows), \A y \in rows : y.id \in Nat,
           \A x, y \in rows : x.id = y.id => x = y,
           NEW n \in Nat
    PROVE  Cardinality(Newest(rows, n)) <= n
<1> DEFINE kept == Newest(rows, n)
           ids == {x.id : x \in kept}
<1>1. kept \subseteq rows /\ IsFiniteSet(kept)
  BY NewestSubset, FS_Subset
<1>2. CASE kept = {}
  BY <1>2, FS_EmptySet
<1>3. CASE kept # {}
  <2>1. ids \subseteq Nat /\ ids # {}
    BY <1>1, <1>3
  <2>2. PICK least \in ids : \A i \in ids : least <= i
    BY <2>1, LeastNumber
  <2>3. PICK low \in kept : low.id = least
    OBVIOUS
  <2> DEFINE above == {y \in rows : y.id > low.id}
  <2>4. kept \subseteq above \cup {low}
    <3> SUFFICES ASSUME NEW x \in kept, x # low PROVE x.id > low.id
      BY <1>1
    <3>1. low.id <= x.id /\ low.id # x.id
      BY <1>1, <2>2, <2>3
    <3>2. low.id \in Nat /\ x.id \in Nat
      BY <1>1
    <3> QED BY <3>1, <3>2
  <2>5. low \notin above /\ low.id \in Nat
    BY <1>1
  <2>6. IsFiniteSet(above) /\ Cardinality(above) < n
    BY <2>3, above \subseteq rows, FS_Subset DEF Newest
  <2>7. /\ IsFiniteSet(above \cup {low})
        /\ Cardinality(above \cup {low}) = Cardinality(above) + 1
    BY <2>5, <2>6, FS_AddElement
  <2>8. Cardinality(kept) <= Cardinality(above) + 1
    BY <2>4, <2>7, FS_Subset
  <2>9. Cardinality(above) \in Nat /\ Cardinality(kept) \in Nat
    BY <1>1, <2>6, FS_CardinalityType
  <2> HIDE DEF kept, above
  <2> QED BY <2>6, <2>8, <2>9 DEF kept
<1> QED BY <1>2, <1>3

\* A row the cap drops is older than every row it keeps, and the table was full.
THEOREM NewestDropsOldest ==
    ASSUME NEW rows, IsFiniteSet(rows), \A y \in rows : y.id \in Nat,
           NEW new, new \notin rows, new.id \in Nat, \A y \in rows : y.id < new.id,
           NEW n \in Nat \ {0}, NEW r \in rows, r \notin Newest(rows \cup {new}, n)
    PROVE  /\ Cardinality(rows) >= n
           /\ \A x \in Newest(rows \cup {new}, n) : x.id > r.id
<1> DEFINE all == rows \cup {new}
<1>1. IsFiniteSet(all) /\ (\A y \in all : y.id \in Nat) /\ r \in all
  BY FS_AddElement
<1>2. ASSUME NEW x \in Newest(all, n) PROVE x.id > r.id
  <2>1. x \in all
    BY NewestSubset
  <2>2. ~(x.id <= r.id)
    <3> HIDE DEF all
    <3> QED BY <1>1, NewestUpClosed DEF all
  <2> QED BY <1>1, <2>1, <2>2
<1>3. Cardinality(rows) >= n
  <2> DEFINE above == {y \in all : y.id > r.id}
             rest == (rows \ {r}) \cup {new}
  <2>1. above \subseteq rest
    OBVIOUS
  <2>2. /\ IsFiniteSet(rows \ {r})
        /\ Cardinality(rows \ {r}) = Cardinality(rows) - 1
    BY FS_RemoveElement
  <2>3. /\ IsFiniteSet(rest)
        /\ Cardinality(rest) = Cardinality(rows \ {r}) + 1
    BY <2>2, FS_AddElement
  <2>4. Cardinality(above) <= Cardinality(rest)
    BY <2>1, <2>3, FS_Subset
  <2>5. /\ Cardinality(rows) \in Nat
        /\ Cardinality(above) \in Nat
    BY <2>1, <2>3, FS_Subset, FS_CardinalityType
  <2>6. ~(Cardinality(above) < n)
    BY <1>1 DEF Newest
  <2> HIDE DEF above, rest
  <2> QED BY <2>2, <2>3, <2>4, <2>5, <2>6
<1> QED BY <1>2, <1>3

\* Below its cap a table keeps everything.
LEMMA NewestBelowCap ==
    ASSUME NEW rows, IsFiniteSet(rows), \A y \in rows : y.id \in Nat,
           NEW new, new.id \in Nat, \A y \in rows : y.id < new.id,
           NEW n \in Nat, Cardinality(rows) < n
    PROVE  Newest(rows \cup {new}, n) = rows \cup {new}
<1> DEFINE all == rows \cup {new}
<1>1. \A y \in all : y.id \in Nat
  OBVIOUS
<1>2. new \notin rows
  <2> SUFFICES ASSUME new \in rows PROVE FALSE
    OBVIOUS
  <2>1. new.id < new.id
    OBVIOUS
  <2> QED BY <2>1
<1>3. IsFiniteSet(all) /\ Cardinality(all) = Cardinality(rows) + 1
  BY <1>2, FS_AddElement
<1>4. Cardinality(rows) \in Nat
  BY FS_CardinalityType
<1>5. ASSUME NEW x \in all PROVE Cardinality({y \in all : y.id > x.id}) < n
  <2> DEFINE above == {y \in all : y.id > x.id}
  <2>1. above \subseteq all \ {x}
    BY <1>1, <1>5
  <2>2. IsFiniteSet(all \ {x}) /\ Cardinality(all \ {x}) = Cardinality(rows)
    <3> HIDE DEF all
    <3>1. IsFiniteSet(all \ {x}) /\ Cardinality(all \ {x}) = Cardinality(all) - 1
      BY <1>3, <1>5, FS_RemoveElement
    <3> QED BY <1>3, <1>4, <3>1
  <2>3. Cardinality(above) <= Cardinality(rows) /\ Cardinality(above) \in Nat
    BY <2>1, <2>2, FS_Subset, FS_CardinalityType
  <2> HIDE DEF above
  <2> QED BY <1>4, <2>3 DEF above
<1> QED BY <1>5 DEF Newest

\* A full table gives up exactly its oldest row for a new one.
LEMMA NewestAtCap ==
    ASSUME NEW rows, IsFiniteSet(rows), \A y \in rows : y.id \in Nat,
           \A x, y \in rows : x.id = y.id => x = y,
           NEW new, new.id \in Nat, \A y \in rows : y.id < new.id,
           NEW n \in Nat \ {0}, Cardinality(rows) = n
    PROVE  Newest(rows \cup {new}, n) = {x \in rows : \E y \in rows : y.id < x.id} \cup {new}
<1> DEFINE all == rows \cup {new}
           Above(x) == {y \in all : y.id > x.id}
<1>1. \A y \in all : y.id \in Nat
  OBVIOUS
<1>2. new \notin rows
  <2> SUFFICES ASSUME new \in rows PROVE FALSE
    OBVIOUS
  <2>1. new.id < new.id
    OBVIOUS
  <2> QED BY <2>1
<1>3. IsFiniteSet(all) /\ Cardinality(all) = n + 1
  BY <1>2, FS_AddElement
<1>4. \A x, y \in all : x.id = y.id => x = y
  OBVIOUS
<1>5. new \in Newest(all, n)
  <2> \A y \in all : y.id <= new.id
    OBVIOUS
  <2> HIDE DEF all
  <2> QED BY <1>1, NewestKeepsTop, new \in all DEF all
<1>6. ASSUME NEW x \in rows, NEW y \in rows, y.id < x.id PROVE x \in Newest(all, n)
  <2>1. Above(x) \subseteq (all \ {x}) \ {y}
    BY <1>1, <1>6
  <2>2. IsFiniteSet(all \ {x}) /\ Cardinality(all \ {x}) = n
    <3> x \in all
      OBVIOUS
    <3> HIDE DEF all
    <3>1. IsFiniteSet(all \ {x}) /\ Cardinality(all \ {x}) = Cardinality(all) - 1
      BY <1>3, FS_RemoveElement
    <3> QED BY <1>3, <3>1
  <2>3. y \in all \ {x}
    BY <1>6
  <2>4. IsFiniteSet((all \ {x}) \ {y}) /\ Cardinality((all \ {x}) \ {y}) = n - 1
    <3> HIDE DEF all
    <3> QED BY <2>2, <2>3, FS_RemoveElement
  <2>5. Cardinality(Above(x)) <= n - 1 /\ Cardinality(Above(x)) \in Nat
    BY <2>1, <2>4, FS_Subset, FS_CardinalityType
  <2>6. Cardinality(Above(x)) < n
    <3> HIDE DEF Above
    <3> QED BY <2>5
  <2> QED BY <2>6 DEF Newest
<1>7. ASSUME NEW x \in rows, \A y \in rows : ~(y.id < x.id) PROVE x \notin Newest(all, n)
  <2>1. Above(x) = all \ {x}
    BY <1>1, <1>4, <1>7
  <2>2. Cardinality(all \ {x}) = n
    <3> x \in all
      OBVIOUS
    <3> HIDE DEF all
    <3>1. IsFiniteSet(all \ {x}) /\ Cardinality(all \ {x}) = Cardinality(all) - 1
      BY <1>3, FS_RemoveElement
    <3> QED BY <1>3, <3>1
  <2>3. ~(Cardinality(Above(x)) < n)
    BY <2>1, <2>2
  <2> QED BY <2>3 DEF Newest
<1>8. Newest(all, n) \subseteq all
  BY NewestSubset
<1> HIDE DEF Above
<1> QED BY <1>5, <1>6, <1>7, <1>8

===============================================================================
