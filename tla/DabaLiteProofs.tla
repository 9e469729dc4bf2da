---------------------------- MODULE DabaLiteProofs ---------------------------
(***************************************************************************)
(* DABA Lite answers every query with the window's product, for every      *)
(* block capacity, scratch size of at least seven, window bound and set of *)
(* handles.                                                                *)
(***************************************************************************)
EXTENDS DabaLite, TLAPS

\* The inductive invariant.  Correct answers need Contents, Contents needs
\* Regions for the next repair step, and ChainExtent needs both.
DabaInv ==
    /\ TypeOK
    /\ Regions
    /\ Contents
    /\ ChainExtent
    /\ AggregateCorrect

-----------------------------------------------------------------------------
(* Monoid values.                                                          *)

\* ft_daba_combine of two adjacent products is the product of both.
LEMMA CombineAdjacent ==
    ASSUME NEW i \in Int, NEW j \in Int, NEW k \in Int, i <= j, j <= k,
           NEW x \in Values, NEW y \in Values,
           IsProduct(x, i, j), IsProduct(y, j, k)
    PROVE  /\ Combine(x, y) \in Values
           /\ IsProduct(Combine(x, y), i, k)
<1>1. CASE i = j
  BY <1>1 DEF IsProduct, Combine, Product, Values
<1>2. CASE i < j /\ j = k
  BY <1>2 DEF IsProduct, Combine, Product, Values
<1>3. CASE i < j /\ j < k
  BY <1>3 DEF IsProduct, Combine, Product, Values, Torn
<1> QED BY <1>1, <1>2, <1>3

\* A nonempty product is one value.
LEMMA ProductUnique ==
    ASSUME NEW i \in Int, NEW j \in Int, i < j, NEW x, IsProduct(x, i, j)
    PROVE  x = Product(i, j)
BY DEF IsProduct

\* Product(i, j) and the identity are values, and products of their intervals.
LEMMA Products ==
    /\ \A i, j \in Int : Product(i, j) \in Values
    /\ \A i, j \in Int : i <= j => IsProduct(Product(i, j), i, j)
    /\ \A i \in Int : IsProduct(Identity, i, i)
    /\ Identity \in Values
    /\ NoAnswer \in Values
BY DEF Product, Values, IsProduct, Identity, NoAnswer

-----------------------------------------------------------------------------
(* The repair step.                                                        *)

\* What a call has established when it plans a repair for the window
\* front .. end-1: the old regions, except that one slot was added at the end
\* or is about to go at the front.
RepairReady(front, end, its, gone, ra, bb) ==
    /\ front \in Nat /\ end \in Nat /\ ra \in Values /\ bb \in Values
    /\ l \in Nat /\ r \in Nat /\ a \in Nat /\ b \in Nat /\ f \in Nat
    /\ f <= front /\ front <= l /\ l <= r /\ r <= a /\ a <= b /\ b <= end
    /\ r - l = a - r
    /\ l - front = end - b \/ (front = b /\ end = b + 1)
    /\ DOMAIN its = f .. end - 1
    /\ gone \subseteq Int /\ (f .. end - 1) \ gone = front .. end - 1
    /\ \A i \in f .. end - 1 : its[i] = Product(i, SlotEnd(i, l, r, a, b))
    /\ IsProduct(bb, b, end)
    /\ l < r => IsProduct(ra, r, b)

\* The invariant's parts about the window front .. end-1 after the step.
Repaired(front, end) ==
    /\ l' \in Nat /\ r' \in Nat /\ a' \in Nat /\ b' \in Nat
    /\ front <= l' /\ l' <= r' /\ r' <= a' /\ a' <= b' /\ b' <= end
    /\ r' - l' = a' - r'
    /\ front = end => front = l' /\ l' = r' /\ r' = a' /\ a' = b'
    /\ front # end => l' - front = end - b' + 1
    /\ DOMAIN items' = front .. end - 1
    /\ \A i \in front .. end - 1 : items'[i] = Product(i, SlotEnd(i, l', r', a', b'))
    /\ IsProduct(aggB', b', end)
    /\ l' < r' => IsProduct(aggRA', r', b')
    /\ aggRA' \in Values /\ aggB' \in Values

\* The branch of ft_daba_compute_fixup for a front that meets b.
LEMMA ResetRepairs ==
    ASSUME NEW front, NEW end, NEW its, NEW gone, NEW ra, NEW bb,
           RepairReady(front, end, its, gone, ra, bb),
           FixupReset(front, end, its, gone)
    PROVE  Repaired(front, end)
<1>1. l' = end /\ r' = end /\ a' = end /\ b' = end /\ aggRA' = Identity /\ aggB' = Identity
  BY DEF FixupReset
<1>2. front = b /\ l = b /\ r = b /\ a = b /\ (end = b \/ end = b + 1)
  BY DEF FixupReset, RepairReady
<1>3. DOMAIN items' = front .. end - 1 /\ \A i \in front .. end - 1 : items'[i] = its[i]
  BY DEF FixupReset, RepairReady, Without
<1>4. \A i \in front .. end - 1 : items'[i] = Product(i, SlotEnd(i, l', r', a', b'))
  BY <1>1, <1>2, <1>3 DEF RepairReady, SlotEnd
<1>5. IsProduct(aggB', b', end) /\ aggRA' \in Values /\ aggB' \in Values
  BY <1>1, Products DEF RepairReady
<1> QED BY <1>1, <1>2, <1>3, <1>4, <1>5 DEF Repaired, RepairReady

\* The branch that moves l, r and a by one slot and writes none.
LEMMA AdvanceRepairs ==
    ASSUME NEW front, NEW end, NEW its, NEW gone, NEW ra, NEW bb,
           RepairReady(front, end, its, gone, ra, bb),
           FixupAdvance(front, end, its, gone, bb)
    PROVE  Repaired(front, end)
<1>1. l # b /\ front # b /\ l = r /\ a = r
  BY DEF FixupAdvance, RepairReady, FlipL, Flips
<1>2. l' = l + 1 /\ r' = r + 1 /\ a' = a + 1 /\ b' = b /\ aggRA' = Identity /\ aggB' = bb
  BY <1>1 DEF FixupAdvance, AdvanceA, FlipL, FlipA, FlipB, FlipAggB, Flips
<1>3. DOMAIN items' = front .. end - 1 /\ \A i \in front .. end - 1 : items'[i] = its[i]
  BY DEF FixupAdvance, RepairReady, Without
<1>4. ASSUME NEW i \in front .. end - 1
      PROVE  items'[i] = Product(i, SlotEnd(i, l', r', a', b'))
  <2>1. SlotEnd(i, l, r, a, b) = SlotEnd(i, l', r', a', b')
    BY <1>1, <1>2 DEF RepairReady, SlotEnd
  <2>2. its[i] = Product(i, SlotEnd(i, l, r, a, b))
    BY DEF RepairReady
  <2> QED BY <2>1, <2>2, <1>3
<1>5. aggRA' \in Values /\ aggB' \in Values /\ IsProduct(aggB', b', end)
  BY <1>2, Products DEF RepairReady
<1> QED BY <1>1, <1>2, <1>3, <1>4, <1>5 DEF Repaired, RepairReady

\* The branch that writes one suffix product into each half, after a flip or
\* in the middle of a reversal.
LEMMA ShrinkRepairs ==
    ASSUME NEW front, NEW end, NEW its, NEW gone, NEW ra, NEW bb,
           RepairReady(front, end, its, gone, ra, bb),
           FixupShrink(front, end, its, gone, ra, bb)
    PROVE  Repaired(front, end)
<1> DEFINE left == FlipL(front)
           sa == FlipA(end)
           sb == FlipB(end)
           sra == FlipRA(ra, bb)
           sbb == FlipAggB(bb)
           pa == IF sa = sb THEN Identity ELSE its[sa]
           first == Combine(its[left], sra)
           second == Combine(its[sa - 1], pa)
<1>1. /\ front # b /\ left # r
      /\ l' = left + 1 /\ r' = r /\ a' = sa - 1 /\ b' = sb
      /\ aggRA' = sra /\ aggB' = sbb
      /\ items' = Without([its EXCEPT ![left] = first, ![sa - 1] = second], gone)
  BY DEF FixupShrink
\* The regions after a possible flip: again a left half that ends where the
\* right half begins.
<1>2. /\ left \in Nat /\ sa \in Nat /\ sb \in Nat
      /\ front <= left /\ left < r /\ r < sa /\ sa <= sb /\ sb <= end
      /\ r - left = sa - r
      /\ left - front = end - sb
  BY <1>1 DEF RepairReady, FlipL, FlipA, FlipB, Flips
<1>3. /\ sra \in Values /\ sbb \in Values
      /\ IsProduct(sra, r, sb) /\ IsProduct(sbb, sb, end)
  BY <1>1, <1>2, Products DEF RepairReady, FlipL, FlipA, FlipB, FlipRA, FlipAggB, Flips
<1>4. \A i \in front .. end - 1 : its[i] = Product(i, SlotEnd(i, left, r, sa, sb))
  BY <1>1, <1>2 DEF RepairReady, FlipL, FlipA, FlipB, Flips, SlotEnd
<1>5. first = Product(left, sb)
  <2>1. its[left] = Product(left, r)
    <3>1. front \in Nat /\ end \in Nat /\ r \in Nat
      BY DEF RepairReady
    <3>2. left \in front .. end - 1 /\ ~(left < left) /\ ~(sa <= left) /\ left < r
      BY <1>2, <3>1
    <3>3. SlotEnd(left, left, r, sa, sb) = r
      BY <3>2 DEF SlotEnd
    <3> QED
      BY <1>4, <3>2, <3>3
  <2>2. its[left] \in Values /\ IsProduct(its[left], left, r)
    BY <2>1, <1>2, Products DEF RepairReady
  <2>3. IsProduct(first, left, sb)
    BY <2>2, <1>2, <1>3, CombineAdjacent DEF RepairReady
  <2> HIDE DEF first
  <2> QED BY <2>3, <1>2, ProductUnique DEF RepairReady
<1>6. second = Product(sa - 1, sb)
  <2>0. sa - 1 \in front .. end - 1 /\ SlotEnd(sa - 1, left, r, sa, sb) = sa
    BY <1>2 DEF SlotEnd, RepairReady
  <2>1. its[sa - 1] = Product(sa - 1, sa)
    BY <2>0, <1>4
  <2>2. its[sa - 1] \in Values /\ IsProduct(its[sa - 1], sa - 1, sa)
    BY <2>1, <1>2, Products DEF RepairReady
  <2>3. pa \in Values /\ IsProduct(pa, sa, sb)
    <3>1. CASE sa = sb
      BY <3>1, <1>2, Products
    <3>2. CASE sa # sb
      <4>0. sa \in front .. end - 1 /\ SlotEnd(sa, left, r, sa, sb) = sb
        BY <3>2, <1>2 DEF SlotEnd, RepairReady
      <4>1. its[sa] = Product(sa, sb)
        BY <4>0, <1>4
      <4> QED BY <4>1, <3>2, <1>2, Products
    <3> QED BY <3>1, <3>2
  <2>4. IsProduct(second, sa - 1, sb)
    <3> HIDE DEF pa
    <3> QED BY <2>2, <2>3, <1>2, CombineAdjacent
  <2> HIDE DEF second
  <2> QED BY <2>4, <1>2, ProductUnique
<1> HIDE DEF left, sa, sb, sra, sbb, first, second
<1> DEFINE written == [its EXCEPT ![left] = first, ![sa - 1] = second]
<1>7. /\ DOMAIN items' = front .. end - 1
      /\ \A i \in front .. end - 1 : items'[i] =
           IF i = sa - 1 THEN second ELSE IF i = left THEN first ELSE its[i]
  <2>1. DOMAIN written = f .. end - 1
    BY DEF RepairReady
  <2>2. \A i \in f .. end - 1 : written[i] =
           IF i = sa - 1 THEN second ELSE IF i = left THEN first ELSE its[i]
    BY <1>2 DEF RepairReady
  <2>3. items' = Without(written, gone)
    BY <1>1
  <2> HIDE DEF written
  <2>4. items' = [i \in front .. end - 1 |-> written[i]]
    BY <2>1, <2>3 DEF Without, RepairReady
  <2>5. front .. end - 1 \subseteq f .. end - 1
    BY DEF RepairReady
  <2> QED BY <2>2, <2>4, <2>5
<1>8. ASSUME NEW i \in front .. end - 1
      PROVE  items'[i] = Product(i, SlotEnd(i, l', r', a', b'))
  <2>1. CASE i = sa - 1 \/ i = left
    <3>1. SlotEnd(i, l', r', a', b') = sb
      BY <2>1, <1>1, <1>2 DEF SlotEnd, RepairReady
    <3> QED BY <3>1, <2>1, <1>5, <1>6, <1>7
  <2>2. CASE ~(i = sa - 1 \/ i = left)
    <3>1. SlotEnd(i, l', r', a', b') = SlotEnd(i, left, r, sa, sb)
      BY <2>2, <1>1, <1>2 DEF SlotEnd, RepairReady
    <3> QED BY <3>1, <2>2, <1>4, <1>7
  <2> QED BY <2>1, <2>2
<1>9. /\ l' \in Nat /\ r' \in Nat /\ a' \in Nat /\ b' \in Nat
      /\ front <= l' /\ l' <= r' /\ r' <= a' /\ a' <= b' /\ b' <= end
      /\ r' - l' = a' - r' /\ front # end /\ l' - front = end - b' + 1
  BY <1>1, <1>2 DEF RepairReady
<1>10. /\ IsProduct(aggB', b', end) /\ IsProduct(aggRA', r', b')
       /\ aggRA' \in Values /\ aggB' \in Values
  BY <1>1, <1>3
<1> QED BY <1>7, <1>8, <1>9, <1>10 DEF Repaired

\* One repair step restores the invariant for the window it is given.
LEMMA FixupRepairs ==
    ASSUME NEW front, NEW end, NEW its, NEW gone, NEW ra, NEW bb,
           RepairReady(front, end, its, gone, ra, bb),
           ApplyFixup(front, end, its, gone, ra, bb)
    PROVE  Repaired(front, end)
BY ResetRepairs, AdvanceRepairs, ShrinkRepairs DEF ApplyFixup

-----------------------------------------------------------------------------
(* The operations.                                                         *)

\* A repaired window with a consistent count satisfies the first three parts
\* of the invariant.
LEMMA RepairedWindow ==
    ASSUME NEW front \in Nat, NEW end \in Nat, front <= end,
           f' = front, e' = end, count' = end - front,
           owner' \in Handles \cup {NoHandle}, base' \in Nat, limit' \in Nat,
           answer' = NoAnswer, Repaired(front, end)
    PROVE  TypeOK' /\ Regions' /\ Contents' /\ AggregateCorrect'
<1>1. \A i \in front .. end - 1 : SlotEnd(i, l', r', a', b') \in Int
  BY DEF Repaired, SlotEnd
<1>2. ASSUME NEW i \in front .. end - 1
      PROVE  items'[i] \in Values
  <2>1. items'[i] = Product(i, SlotEnd(i, l', r', a', b'))
    BY DEF Repaired
  <2>2. i \in Int /\ SlotEnd(i, l', r', a', b') \in Int
    BY <1>1
  <2> QED BY <2>1, <2>2, Products
<1>3. count' \in Nat
  OBVIOUS
<1>4. TypeOK'
  <2>1. /\ l' \in Nat /\ r' \in Nat /\ a' \in Nat /\ b' \in Nat
        /\ DOMAIN items' = front .. end - 1 /\ aggRA' \in Values /\ aggB' \in Values
    BY DEF Repaired
  <2>2. answer' \in Values
    BY Products
  <2> QED
    BY <1>2, <1>3, <2>1, <2>2 DEF TypeOK
<1>5. Regions'
  <2>1. /\ l' \in Nat /\ r' \in Nat /\ a' \in Nat /\ b' \in Nat
        /\ front <= l' /\ l' <= r' /\ r' <= a' /\ a' <= b' /\ b' <= end
        /\ r' - l' = a' - r'
    BY DEF Repaired
  <2>2. end - front = 0 => front = l' /\ l' = r' /\ r' = a' /\ a' = b'
    BY DEF Repaired
  <2>3. end - front # 0 => l' - front = end - b' + 1
    BY DEF Repaired
  <2> QED
    BY <2>1, <2>2, <2>3 DEF Regions
<1>6. Contents'
  BY DEF Contents, Repaired
<1>7. AggregateCorrect'
  BY DEF AggregateCorrect
<1> QED BY <1>4, <1>5, <1>6, <1>7

\* ft_daba_lite_create, ft_daba_lite_clear and ft_daba_lite_destroy.
LEMMA EmptyWindowInv ==
    ASSUME DabaInv, EmptyWindow, owner' \in Handles \cup {NoHandle},
           \/ owner' # NoHandle /\ limit' = limit + BlockCapacity
           \/ owner' = NoHandle /\ limit' = limit
    PROVE  DabaInv'
<1>1. limit \in Nat /\ limit' \in Nat /\ BlockCapacity \in Nat /\ BlockCapacity >= 1
  BY DabaAssumption DEF DabaInv, TypeOK
<1>2. TypeOK' /\ Regions' /\ Contents'
  <2>1. DOMAIN items' = {} /\ limit .. limit - 1 = {}
    BY <1>1 DEF EmptyWindow
  <2>2. TypeOK'
    BY <1>1, <2>1, Products DEF EmptyWindow, TypeOK
  <2>3. Regions'
    BY <1>1 DEF EmptyWindow, Regions
  <2>4. Contents'
    BY <1>1, <2>1, Products DEF EmptyWindow, Contents
  <2> QED BY <2>2, <2>3, <2>4
<1>3. ChainExtent'
  <2>1. f' = limit /\ e' = limit /\ base' = limit /\ count' = 0
    BY DEF EmptyWindow
  <2>2. CASE owner' # NoHandle /\ limit' = limit + BlockCapacity
    <3>1. (limit' - base') - count' = BlockCapacity
      BY <1>1, <2>1, <2>2
    <3> QED BY <1>1, <2>1, <2>2, <3>1 DEF ChainExtent
  <2>3. CASE owner' = NoHandle /\ limit' = limit
    BY <1>1, <2>1, <2>3 DEF ChainExtent
  <2> QED BY <2>2, <2>3
<1>4. AggregateCorrect'
  BY DEF EmptyWindow, AggregateCorrect
<1> QED BY <1>2, <1>3, <1>4 DEF DabaInv

\* Calls that leave the rep alone, a query excepted.
LEMMA UnchangedInv ==
    ASSUME DabaInv, UNCHANGED rep, answer' = NoAnswer,
           owner' = owner \/ (owner # NoHandle /\ owner' \in Handles)
    PROVE  DabaInv'
<1>1. owner' \in Handles \cup {NoHandle} /\ (owner' = NoHandle <=> owner = NoHandle)
  BY DabaAssumption DEF DabaInv, TypeOK
<1>2. TypeOK'
  BY <1>1, Products DEF DabaInv, TypeOK, rep
<1>3. Regions' /\ Contents'
  BY DEF DabaInv, Regions, Contents, rep
<1>4. ChainExtent'
  BY <1>1 DEF DabaInv, ChainExtent, rep
<1>5. AggregateCorrect'
  BY DEF AggregateCorrect
<1> QED BY <1>2, <1>3, <1>4, <1>5 DEF DabaInv

\* ft_daba_lite_insert: the repair is planned for one more slot at the end.
LEMMA InsertReady ==
    ASSUME DabaInv
    PROVE  RepairReady(f, e + 1, Store(e), {}, aggRA, Combine(aggB, Product(e, e + 1)))
<1> DEFINE bb == Combine(aggB, Product(e, e + 1))
<1>1. bb \in Values /\ IsProduct(bb, b, e + 1)
  <2>1. b \in Int /\ e \in Int /\ e + 1 \in Int /\ b <= e /\ e <= e + 1
    BY DEF DabaInv, TypeOK, Regions
  <2>2. Product(e, e + 1) \in Values /\ IsProduct(Product(e, e + 1), e, e + 1)
    BY <2>1, Products
  <2> QED BY <2>1, <2>2, CombineAdjacent DEF DabaInv, TypeOK, Contents
<1> HIDE DEF bb
<1>2. DOMAIN Store(e) = f .. (e + 1) - 1
  BY DEF Store, DabaInv, TypeOK, Regions
<1>3. ASSUME NEW i \in f .. (e + 1) - 1
      PROVE  Store(e)[i] = Product(i, SlotEnd(i, l, r, a, b))
  <2>1. CASE i = e
    <3>1. SlotEnd(i, l, r, a, b) = e + 1
      BY <2>1 DEF SlotEnd, DabaInv, TypeOK, Regions
    <3> QED BY <3>1, <2>1 DEF Store
  <2>2. CASE i # e
    BY <2>2 DEF Store, DabaInv, TypeOK, Contents
  <2> QED BY <2>1, <2>2
<1>4. l < r => IsProduct(aggRA, r, b)
  BY DEF DabaInv, Contents
<1>5. l - f = (e + 1) - b \/ (f = b /\ e + 1 = b + 1)
  BY DEF DabaInv, TypeOK, Regions
<1> QED BY <1>1, <1>2, <1>3, <1>4, <1>5 DEF RepairReady, bb, DabaInv, TypeOK, Regions

\* ft_daba_lite_try_evict: the repair is planned for one slot less in front.
LEMMA EvictReady ==
    ASSUME DabaInv, count # 0
    PROVE  RepairReady(f + 1, e, items, {f}, aggRA, aggB)
BY DEF RepairReady, DabaInv, TypeOK, Regions, Contents

\* ft_daba_lite_insert, the link to a successor block included.
LEMMA InsertInv ==
    ASSUME DabaInv, NEW h \in Handles, Insert(h)
    PROVE  DabaInv'
<1>1. Repaired(f, e + 1)
  BY InsertReady, FixupRepairs DEF Insert
<1>2. f' = f /\ e' = e + 1 /\ base' = base /\ limit' = GrownLimit
      /\ count' = count + 1 /\ owner' = owner /\ owner = h /\ answer' = NoAnswer
  BY DEF Insert
<1>3. /\ f \in Nat /\ e \in Nat /\ base \in Nat /\ limit \in Nat /\ f <= e
      /\ count = e - f /\ BlockCapacity \in Nat /\ BlockCapacity >= 1
      /\ owner # NoHandle
  BY <1>2, DabaAssumption DEF DabaInv, TypeOK, Regions
<1>4. limit' \in Nat
  BY <1>2, <1>3 DEF GrownLimit
<1>5. TypeOK' /\ Regions' /\ Contents' /\ AggregateCorrect'
  BY <1>1, <1>2, <1>3, <1>4, RepairedWindow
<1>6. ChainExtent'
  BY <1>2, <1>3 DEF DabaInv, ChainExtent, GrownLimit
<1> QED BY <1>5, <1>6 DEF DabaInv

\* ft_daba_lite_try_evict, the release of a retired block included.
LEMMA EvictInv ==
    ASSUME DabaInv, NEW h \in Handles, Evict(h)
    PROVE  DabaInv'
<1>1. Repaired(f + 1, e)
  BY EvictReady, FixupRepairs DEF Evict
<1>2. f' = f + 1 /\ e' = e /\ base' = TrimBefore(f + 1) /\ limit' = limit
      /\ count' = count - 1 /\ count # 0 /\ owner' = owner /\ owner = h /\ answer' = NoAnswer
  BY DEF Evict
<1>3. /\ f \in Nat /\ e \in Nat /\ base \in Nat /\ limit \in Nat /\ f + 1 <= e
      /\ count = e - f /\ BlockCapacity \in Nat /\ BlockCapacity >= 1
      /\ owner # NoHandle
  BY <1>2, DabaAssumption DEF DabaInv, TypeOK, Regions
<1>4. base' \in Nat
  BY <1>2, <1>3 DEF TrimBefore
<1>5. TypeOK' /\ Regions' /\ Contents' /\ AggregateCorrect'
  BY <1>1, <1>2, <1>3, <1>4, RepairedWindow
<1>6. ChainExtent'
  BY <1>2, <1>3 DEF DabaInv, ChainExtent, TrimBefore
<1> QED BY <1>5, <1>6 DEF DabaInv

\* What ft_daba_lite_aggregate returns is the window's product.
LEMMA AnswerCorrect ==
    ASSUME DabaInv
    PROVE  Answer \in Values /\ IsProduct(Answer, f, e)
<1>1. CASE count = 0
  BY <1>1, Products DEF Answer, DabaInv, TypeOK, Regions
<1>2. CASE count # 0
  <2>1. f \in f .. e - 1 /\ f < b /\ b <= e /\ SlotEnd(f, l, r, a, b) = b
        /\ f \in Int /\ b \in Int /\ e \in Int
    BY <1>2 DEF DabaInv, TypeOK, Regions, SlotEnd
  <2>2. items[f] = Product(f, b)
    BY <2>1 DEF DabaInv, Contents
  <2>3. items[f] \in Values /\ IsProduct(items[f], f, b)
    BY <2>1, <2>2, Products
  <2> QED BY <1>2, <2>1, <2>3, CombineAdjacent DEF Answer, DabaInv, TypeOK, Contents
<1> QED BY <1>1, <1>2

\* ft_daba_lite_aggregate leaves the rep alone and answers correctly.
LEMMA AggregateInv ==
    ASSUME DabaInv, NEW h \in Handles, Aggregate(h)
    PROVE  DabaInv'
<1>1. UNCHANGED <<owner, rep>> /\ answer' = Answer
  BY DEF Aggregate
<1>2. TypeOK' /\ AggregateCorrect'
  BY <1>1, AnswerCorrect DEF rep, DabaInv, TypeOK, AggregateCorrect
<1>3. Regions' /\ Contents' /\ ChainExtent'
  BY <1>1 DEF rep, DabaInv, Regions, Contents, ChainExtent
<1> QED BY <1>2, <1>3 DEF DabaInv

\* Every call of the interface preserves the inductive invariant.
LEMMA StepInv ==
    ASSUME DabaInv, [Next]_vars
    PROVE  DabaInv'
<1>1. CASE UNCHANGED vars
  BY <1>1 DEF vars, DabaInv, TypeOK, Regions, Contents, ChainExtent, AggregateCorrect
<1>2. ASSUME NEW h \in Handles, Create(h) \/ Clear(h) \/ Destroy(h)
      PROVE  DabaInv'
  BY <1>2, EmptyWindowInv, DabaAssumption DEF Create, Clear, Destroy
<1>3. ASSUME NEW h \in Handles,
             Detached(h) \/ InsertFails(h) \/ EvictFails(h) \/ ClearFails(h)
      PROVE  DabaInv'
  BY <1>3, UnchangedInv DEF Detached, InsertFails, EvictFails, ClearFails
<1>4. ASSUME NEW h \in Handles, NEW g \in Handles, Move(h, g)
      PROVE  DabaInv'
  BY <1>4, UnchangedInv, DabaAssumption DEF Move
<1> QED BY <1>1, <1>2, <1>3, <1>4, InsertInv, EvictInv, AggregateInv DEF Next

\* Before the first ft_daba_lite_create the invariant holds.
LEMMA InitInv == Init => DabaInv
<1>1. ASSUME Init PROVE TypeOK
  BY <1>1, Products DEF Init, TypeOK
<1>2. ASSUME Init PROVE Regions /\ ChainExtent
  BY <1>2 DEF Init, Regions, ChainExtent
<1>3. ASSUME Init PROVE Contents
  BY <1>3, Products DEF Init, Contents
<1>4. ASSUME Init PROVE AggregateCorrect
  BY <1>4 DEF Init, AggregateCorrect
<1> QED BY <1>1, <1>2, <1>3, <1>4 DEF DabaInv

\* Every reachable state satisfies the inductive invariant.
THEOREM DabaInvariant == Spec => []DabaInv
<1>1. Init => DabaInv
  BY InitInv
<1>2. DabaInv /\ [Next]_vars => DabaInv'
  BY StepInv
<1> QED BY <1>1, <1>2, PTL DEF Spec

\* The variables keep their types, and exactly the window's slots are occupied.
THEOREM DabaTypeCorrect == Spec => []TypeOK
<1>1. DabaInv => TypeOK
  BY DEF DabaInv
<1> QED BY <1>1, DabaInvariant, PTL

\* ft_daba_lite_aggregate always returns the ordered product of exactly the
\* window's elements, in every monoid and for every sequence of calls.
THEOREM DabaAnswersCorrectly == Spec => []AggregateCorrect
<1>1. DabaInv => AggregateCorrect
  BY DEF DabaInv
<1> QED BY <1>1, DabaInvariant, PTL

\* What ft_daba_lite_validate checks of the cursors holds after every call.
THEOREM DabaRegions == Spec => []Regions
<1>1. DabaInv => Regions
  BY DEF DabaInv
<1> QED BY <1>1, DabaInvariant, PTL

\* Every slot and both running aggregates hold the product their region says.
THEOREM DabaContents == Spec => []Contents
<1>1. DabaInv => Contents
  BY DEF DabaInv
<1> QED BY <1>1, DabaInvariant, PTL

\* The block chain never holds more than 2 * BlockCapacity - 1 idle slots.
THEOREM DabaChainExtent == Spec => []ChainExtent
<1>1. DabaInv => ChainExtent
  BY DEF DabaInv
<1> QED BY <1>1, DabaInvariant, PTL

-----------------------------------------------------------------------------
(* A repair can always be planned.                                         *)

\* ft_daba_compute_fixup succeeds on a chain that reaches one slot past the
\* window, with two staged values already in the pool.
LEMMA PlanOK ==
    ASSUME NEW front, NEW end, NEW its, NEW gone, NEW ra, NEW bb,
           NEW lim \in Nat, NEW used \in 0 .. 2,
           RepairReady(front, end, its, gone, ra, bb),
           base \in Nat, base <= f, end < lim
    PROVE  FixupOK(front, end, its, lim, used)
<1>1. used + FixupTemps(front, end) <= ScratchCount
  BY DabaAssumption DEF FixupTemps
<1>2. ASSUME front # b, FlipL(front) = r
      PROVE  CanAdvance(r, lim) /\ CanAdvance(FlipA(end), lim)
  BY <1>2 DEF RepairReady, FlipL, FlipA, Flips, CanAdvance
<1>3. ASSUME front # b, FlipL(front) # r
      PROVE  /\ CanAdvance(FlipL(front), lim)
             /\ CanRetreat(FlipA(end))
             /\ FlipL(front) \in DOMAIN its
             /\ FlipA(end) - 1 \in DOMAIN its
             /\ FlipA(end) # FlipB(end) => FlipA(end) \in DOMAIN its
  BY <1>3 DEF RepairReady, FlipL, FlipA, FlipB, Flips, CanAdvance, CanRetreat
<1> QED BY <1>1, <1>2, <1>3 DEF FixupOK

\* Insertions and evictions never stop with FT_STATUS_INVALID_ARGUMENT on a
\* handle that owns a rep: the scratch pool of ScratchCount values suffices
\* and no cursor leaves the block chain.
THEOREM DabaPlansSucceed == Spec => []PlansSucceed
<1>1. DabaInv => PlansSucceed
  <2> SUFFICES ASSUME DabaInv, owner # NoHandle
               PROVE  InsertOK /\ (count # 0 => EvictOK)
    BY DEF PlansSucceed
  <2>1. /\ f \in Nat /\ e \in Nat /\ base \in Nat /\ limit \in Nat
        /\ base <= f /\ e < limit /\ BlockCapacity \in Nat /\ BlockCapacity >= 1
    BY DabaAssumption DEF DabaInv, TypeOK, ChainExtent
  <2>2. InsertOK
    <3>1. GrownLimit \in Nat /\ e + 1 < GrownLimit
      BY <2>1 DEF GrownLimit
    <3>2. FixupOK(f, e + 1, Store(e), GrownLimit, InsertTemps)
      BY <2>1, <3>1, InsertReady, PlanOK DEF InsertTemps
    <3>3. e \notin DOMAIN items
      BY <2>1 DEF DabaInv, TypeOK
    <3> QED BY <3>2, <3>3 DEF InsertOK
  <2>3. ASSUME count # 0 PROVE EvictOK
    <3>1. FixupOK(f + 1, e, items, limit, 0)
      BY <2>1, <2>3, EvictReady, PlanOK
    <3>2. CanAdvance(f, limit)
      BY <2>1, <2>3 DEF CanAdvance, DabaInv, TypeOK, Regions
    <3> QED BY <3>1, <3>2 DEF EvictOK
  <2> QED BY <2>2, <2>3
<1> QED BY <1>1, DabaInvariant, PTL

-----------------------------------------------------------------------------
(* Refinement.                                                             *)

\* ft_daba_lite_create, ft_daba_lite_clear and ft_daba_lite_destroy empty the
\* abstract window.
LEMMA EmptyIsClear ==
    ASSUME DabaInv, EmptyWindow
    PROVE  Window!Clear
BY DEF EmptyWindow, Window!Clear, Window!NoAnswer, NoAnswer, DabaInv, ChainExtent, TypeOK

\* A call that leaves the rep alone is a refused call of the abstract window.
LEMMA UnchangedIsRefuse ==
    ASSUME UNCHANGED rep, answer' = NoAnswer
    PROVE  Window!Refuse
BY DEF rep, Window!Refuse, Window!NoAnswer, NoAnswer

\* Every call is a call of the abstract window.
LEMMA StepRefines ==
    ASSUME DabaInv, [Next]_vars
    PROVE  [Window!Next]_(Window!windowVars)
<1>1. CASE UNCHANGED vars
  BY <1>1 DEF vars, Window!windowVars
<1>2. ASSUME NEW h \in Handles, Create(h) \/ Clear(h) \/ Destroy(h)
      PROVE  Window!Clear
  BY <1>2, EmptyIsClear DEF Create, Clear, Destroy
<1>3. ASSUME NEW h \in Handles,
             Detached(h) \/ InsertFails(h) \/ EvictFails(h) \/ ClearFails(h)
      PROVE  Window!Refuse
  BY <1>3, UnchangedIsRefuse DEF Detached, InsertFails, EvictFails, ClearFails
<1>4. ASSUME NEW h \in Handles, NEW g \in Handles, Move(h, g)
      PROVE  Window!Refuse
  BY <1>4, UnchangedIsRefuse DEF Move
<1>5. ASSUME NEW h \in Handles, Insert(h)
      PROVE  Window!Insert
  BY <1>5 DEF Insert, Window!Insert, Window!NoAnswer, NoAnswer
<1>6. ASSUME NEW h \in Handles, Evict(h)
      PROVE  Window!Evict
  BY <1>6 DEF Evict, Window!Evict, Window!NoAnswer, NoAnswer, DabaInv, TypeOK, Regions
<1>7. ASSUME NEW h \in Handles, Aggregate(h)
      PROVE  Window!Aggregate
  <2>1. f' = f /\ e' = e /\ answer' = Answer
    BY <1>7 DEF Aggregate, rep
  <2>2. IsProduct(Answer, f, e) /\ f <= e /\ f \in Nat /\ e \in Nat
    BY AnswerCorrect DEF DabaInv, TypeOK, Regions
  <2> QED BY <2>1, <2>2 DEF Window!Aggregate, IsProduct, Product
<1> QED BY <1>1, <1>2, <1>3, <1>4, <1>5, <1>6, <1>7 DEF Next, Window!Next

\* Every behaviour of DABA Lite is a behaviour of the sliding window.
THEOREM DabaImplementsWindow == Spec => ImplementsWindow
<1>1. Init => Window!Init
  BY DEF Init, Window!Init, Window!NoAnswer, NoAnswer
<1>2. DabaInv /\ [Next]_vars => [Window!Next]_(Window!windowVars)
  BY StepRefines
<1> QED BY <1>1, <1>2, DabaInvariant, PTL DEF Spec, ImplementsWindow, Window!Spec
==============================================================================
