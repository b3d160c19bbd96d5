---------------------------- MODULE BuddyBlocks ----------------------------
(***************************************************************************)
(* Lemmas about the operators of Buddy: the arithmetic of blocks, the free *)
(* lists, and what splitting, merging, taking and giving back a block does *)
(* to a memory that is partitioned into blocks.                            *)
(***************************************************************************)
EXTENDS Buddy, SharedLemmas

---------------------------------------------------------------------------
(* Halves. *)

\* Remainders by two.
LEMMA Even == \A q \in Nat : q % 2 \in {0, 1} /\ (2 * q) % 2 = 0
OBVIOUS

\* The halves of an aligned block.
LEMMA Halves ==
  ASSUME NEW p \in Nat, NEW s \in Nat, s > 0, p % (2 * s) = 0
  PROVE  p % s = 0 /\ (p + s) % s = 0
<1>1. PICK q \in Nat : p = q * (2 * s)
  <2>1. 2 * s \in Nat /\ 2 * s > 0
    OBVIOUS
  <2> QED BY <2>1, Divided
<1>2. p = (2 * q) * s /\ p + s = (2 * q + 1) * s
  BY <1>1
<1> QED BY <1>2, Multiple

\* An aligned block is the left or the right half of one of twice the size.
LEMMA HalfOf ==
  ASSUME NEW p \in Nat, NEW s \in Nat, s > 0, p % s = 0
  PROVE  /\ (p \div s) % 2 = 0 => p % (2 * s) = 0
         /\ (p \div s) % 2 # 0 => p >= s /\ (p - s) % (2 * s) = 0
<1>1. PICK q \in Nat : q = p \div s /\ p = q * s
  BY Divided
<1>2. 2 * s \in Nat /\ 2 * s > 0
  OBVIOUS
<1>3. CASE q % 2 = 0
  <2>1. PICK r \in Nat : q = 2 * r
    <3>1. q \div 2 \in Nat /\ q = 2 * (q \div 2)
      BY <1>3
    <3> QED BY <3>1
  <2>2. p = r * (2 * s)
    BY <1>1, <2>1
  <2> QED BY <1>1, <1>2, <1>3, <2>2, Multiple
<1>4. CASE q % 2 # 0
  <2>1. PICK r \in Nat : q = 2 * r + 1
    <3>1. q \div 2 \in Nat /\ q = 2 * (q \div 2) + 1
      BY <1>4
    <3> QED BY <3>1
  <2>2. p - s = r * (2 * s) /\ p >= s
    BY <1>1, <2>1
  <2>3. (r * (2 * s)) % (2 * s) = 0
    BY <1>2, Multiple
  <2> QED BY <1>1, <1>4, <2>2, <2>3
<1> QED BY <1>1, <1>3, <1>4
---------------------------------------------------------------------------
(* Sizes, areas and buddies. *)

\* The sizes of blocks: powers of two, all even but the first.
LEMMA SizeFacts ==
  /\ \A k \in 0 .. MaxOrder + 1 : Size[k] \in Nat /\ Size[k] > 0
  /\ Size[0] = 1 /\ Size[1] = 2
  /\ \A k \in Orders : k > 0 => k - 1 \in Orders /\ Size[k] = 2 * Size[k - 1]
                                /\ Size[k] % 2 = 0
  /\ \A k \in Orders : Size[k + 1] = 2 * Size[k] /\ Size[MaxOrder + 1] % Size[k] = 0
  /\ MaxOrder \in Nat /\ MaxOrder > 0
  /\ 0 \in Orders /\ 1 \in Orders /\ MaxOrder \in Orders
<1> USE SizeAssumption DEF Orders
<1>1. \A k \in 0 .. MaxOrder + 1 : Size[k] \in Nat /\ Size[k] > 0
  OBVIOUS
<1>2. ASSUME NEW k \in Orders, k > 0 PROVE k - 1 \in Orders /\ Size[k] = 2 * Size[k - 1]
  <2>1. k - 1 \in 0 .. MaxOrder /\ (k - 1) + 1 = k
    BY <1>2
  <2> QED BY <2>1
<1>3. ASSUME NEW k \in Orders, k > 0 PROVE Size[k] % 2 = 0
  <2>1. Size[k - 1] \in Nat /\ Size[k] = 2 * Size[k - 1]
    BY <1>2, <1>3
  <2> QED BY <2>1, Even
<1>4. Size[1] = 2 /\ 0 \in Orders /\ 1 \in Orders /\ MaxOrder \in Orders
  <2>1. 0 \in 0 .. MaxOrder /\ 0 + 1 = 1
    OBVIOUS
  <2>2. Size[0 + 1] = 2 * Size[0]
    BY <2>1
  <2>3. Size[1] = 2
    BY <2>2
  <2> QED BY <2>1, <2>3
<1>5. ASSUME NEW k \in Orders
      PROVE  Size[k + 1] = 2 * Size[k] /\ Size[MaxOrder + 1] % Size[k] = 0
  <2>1. MaxOrder + 1 \in 0 .. MaxOrder + 1 /\ k \in 0 .. MaxOrder + 1
    OBVIOUS
  <2> QED BY <2>1, DivisionAssumption
<1>6. Size[0] = 1 /\ MaxOrder \in Nat /\ MaxOrder > 0
  OBVIOUS
<1>7. \A k \in Orders : k > 0 => k - 1 \in Orders /\ Size[k] = 2 * Size[k - 1] /\ Size[k] % 2 = 0
  BY <1>2, <1>3
<1> QED BY ONLY <1>1, <1>4, <1>5, <1>6, <1>7

\* The number of pages, and that of areas, from the page.
LEMMA PageFacts ==
  /\ \A x \in Pages : x \in Nat /\ AreaOf(x) \in Areas
  /\ \A a \in Areas : a \in Nat /\ a * Size[MaxOrder + 1] \in Nat
                      /\ a * Size[MaxOrder + 1] + Size[MaxOrder + 1] <= AreaCount * Size[MaxOrder + 1]
  /\ AreaCount * Size[MaxOrder + 1] \in Nat
<1> DEFINE T == Size[MaxOrder + 1]
<1>1. T \in Nat /\ T > 0 /\ AreaCount \in Nat
  BY SizeFacts, SizeAssumption, AreaAssumption
<1> HIDE DEF T
<1>2. AreaCount * T \in Nat
  BY <1>1
<1>3. ASSUME NEW x \in Pages PROVE x \in Nat /\ AreaOf(x) \in Areas
  <2>1. x \in Nat /\ x < AreaCount * T
    BY <1>2 DEF Pages, T
  <2>2. x \div T \in Nat /\ x \div T < AreaCount
    BY <1>1, <2>1, Bounded, Quotient
  <2> QED BY <1>1, <2>1, <2>2 DEF AreaOf, Areas, T
<1>4. ASSUME NEW a \in Areas PROVE a \in Nat /\ a * T \in Nat /\ a * T + T <= AreaCount * T
  <2>1. a \in Nat /\ a + 1 <= AreaCount
    BY <1>1 DEF Areas
  <2>2. (a + 1) * T <= AreaCount * T
    BY <1>1, <2>1
  <2> QED BY <1>1, <2>1, <2>2
<1> QED BY <1>2, <1>3, <1>4 DEF T

\* A block lies in one area.
LEMMA BlockInArea ==
  ASSUME NEW b \in Pages, NEW k \in Orders, b % Size[k] = 0
  PROVE  \A x \in Block(b, k) : x \in Pages /\ AreaOf(x) = AreaOf(b)
<1> DEFINE T == Size[MaxOrder + 1]
           a == AreaOf(b)
           s == Size[k]
<1>1. T \in Nat /\ T > 0 /\ s \in Nat /\ s > 0 /\ T % s = 0 /\ b \in Nat /\ b % s = 0
  BY SizeFacts, SizeAssumption, PageFacts DEF Orders
<1>2. a \in Nat /\ a * T <= b /\ b < a * T + T /\ a * T + T <= AreaCount * T
      /\ a * T \in Nat /\ AreaCount * T \in Nat
  <2>1. a = b \div T /\ a \in Areas
    BY PageFacts DEF AreaOf
  <2> QED BY <1>1, <2>1, Quotient, PageFacts
<1> HIDE DEF T, s, a
<1>3. (a * T + T) % s = 0
  <2>1. PICK m \in Nat : T = m * s
    BY <1>1, Divided
  <2>2. a * T + T = (a * m + m) * s /\ a * m + m \in Nat
    BY <1>1, <1>2, <2>1
  <2> QED BY <1>1, <2>2, Multiple
<1>4. b + s <= a * T + T
  <2>1. a * T + T \in Nat /\ b < a * T + T
    BY <1>1, <1>2
  <2> QED BY <1>1, <1>3, <2>1, NextMultiple
<1> SUFFICES ASSUME NEW x \in Block(b, k) PROVE x \in Pages /\ AreaOf(x) = a
  BY DEF a
<1>5. x \in Nat /\ b <= x /\ x < b + s
  BY <1>1 DEF Block, s
<1>6. a * T <= x /\ x < a * T + T /\ x < AreaCount * T
  BY <1>1, <1>2, <1>4, <1>5
<1>7. x \div T = a
  BY <1>1, <1>2, <1>5, <1>6, Within
<1> QED BY <1>2, <1>5, <1>6, <1>7 DEF Pages, AreaOf, T

\* The pages of a buddy.
LEMMA BuddyFacts ==
  /\ \A x \in Pages : BuddyOf(x) \in Buddies /\ (x = BuddyOf(x) \/ x = BuddyOf(x) + 1)
  /\ \A b \in Buddies : /\ b \in Pages /\ b \in Nat /\ b + 1 \in Pages /\ b % 2 = 0
                        /\ BuddyOf(b) = b /\ BuddyOf(b + 1) = b
                        /\ AreaOf(b) \in Areas /\ AreaOf(b + 1) = AreaOf(b)
<1>1. ASSUME NEW x \in Pages
      PROVE  BuddyOf(x) \in Buddies /\ (x = BuddyOf(x) \/ x = BuddyOf(x) + 1)
  <2>1. x \in Nat /\ x < AreaCount * Size[MaxOrder + 1]
    BY PageFacts DEF Pages
  <2>2. x % 2 \in {0, 1} /\ (x - (x % 2)) \in Nat /\ (x - (x % 2)) % 2 = 0
    BY <2>1
  <2>3. BuddyOf(x) \in Pages
    BY <2>1, <2>2, PageFacts DEF BuddyOf, Pages
  <2> QED BY <2>1, <2>2, <2>3 DEF BuddyOf, Buddies
<1>2. ASSUME NEW b \in Buddies
      PROVE  /\ b \in Pages /\ b \in Nat /\ b + 1 \in Pages /\ b % 2 = 0
             /\ BuddyOf(b) = b /\ BuddyOf(b + 1) = b
             /\ AreaOf(b) \in Areas /\ AreaOf(b + 1) = AreaOf(b)
  <2>1. b \in Pages /\ b \in Nat /\ b % 2 = 0 /\ AreaOf(b) \in Areas
    BY PageFacts DEF Buddies
  <2>2. b + 1 \in Block(b, 1) /\ 1 \in Orders /\ b % Size[1] = 0
    BY <2>1, SizeFacts DEF Block
  <2>3. BuddyOf(b) = b /\ BuddyOf(b + 1) = b
    BY <2>1 DEF BuddyOf
  <2> QED BY <2>1, <2>2, <2>3, BlockInArea
<1> QED BY <1>1, <1>2

\* The children of a block.
LEMMA ChildFacts ==
  ASSUME NEW b \in Buddies, NEW k \in Orders, k > 1, b % Size[k] = 0,
         NEW r, r = b + Size[k - 1]
  PROVE  /\ r \in Buddies /\ BuddyOf(r) = r /\ AreaOf(r) = AreaOf(b)
         /\ b % Size[k - 1] = 0 /\ r % Size[k - 1] = 0
<1>1. k - 1 \in Orders /\ k - 1 > 0 /\ Size[k] = 2 * Size[k - 1]
  BY SizeFacts DEF Orders
<1>2. Size[k - 1] \in Nat /\ Size[k - 1] > 0 /\ Size[k - 1] % 2 = 0 /\ b \in Nat /\ b % 2 = 0
  BY <1>1, SizeFacts, BuddyFacts DEF Orders
<1>3. b % Size[k - 1] = 0 /\ r % Size[k - 1] = 0
  BY <1>1, <1>2, Halves
<1>4. r \in Block(b, k)
  BY <1>1, <1>2 DEF Block
<1>5. r \in Pages /\ AreaOf(r) = AreaOf(b)
  BY <1>4, BlockInArea DEF Buddies
<1>6. r % 2 = 0
  BY <1>2
<1> QED BY <1>3, <1>5, <1>6, BuddyFacts DEF Buddies

\* A block and its sibling are the halves of the parent's.
LEMMA SiblingFacts ==
  ASSUME NEW b \in Buddies, NEW k, k = order[b],
         k \in 1 .. MaxOrder - 1, b % Size[k] = 0
  PROVE  /\ Sibling(b) \in Buddies /\ Parent(b) \in Buddies
         /\ AreaOf(Sibling(b)) = AreaOf(b) /\ AreaOf(Parent(b)) = AreaOf(b)
         /\ Parent(b) % Size[k + 1] = 0
         /\ \/ Parent(b) = b /\ Sibling(b) = b + Size[k]
            \/ Parent(b) = Sibling(b) /\ b = Parent(b) + Size[k]
<1> DEFINE s == Size[k]
<1>1. k \in Orders /\ k + 1 \in Orders /\ Size[k + 1] = 2 * s
      /\ s \in Nat /\ s > 0 /\ s % 2 = 0
  <2>1. k \in Orders /\ k + 1 \in Orders /\ k > 0 /\ k \in 0 .. MaxOrder + 1
    <3>1. MaxOrder \in Nat
      BY SizeFacts
    <3> QED BY <3>1 DEF Orders
  <2> QED BY <2>1, SizeFacts
<1>2. b \in Nat /\ b % 2 = 0 /\ b \in Pages /\ b % s = 0 /\ s = Size[order[b]]
  BY BuddyFacts
<1>3. Sibling(b) = BuddyOf(IF (b \div s) % 2 = 0 THEN b + s ELSE b - s)
  BY <1>2 DEF Sibling
<1> HIDE DEF s
<1>4. CASE (b \div s) % 2 = 0
  <2>1. b % (2 * s) = 0
    BY <1>1, <1>2, <1>4, HalfOf
  <2>2. b + s \in Block(b, k + 1)
    BY <1>1, <1>2 DEF Block
  <2>3. b + s \in Pages /\ AreaOf(b + s) = AreaOf(b) /\ (b + s) % 2 = 0
    <3>1. b % Size[k + 1] = 0
      BY <1>1, <2>1
    <3>2. b + s \in Pages /\ AreaOf(b + s) = AreaOf(b)
      BY <1>1, <1>2, <2>2, <3>1, BlockInArea
    <3>3. (b + s) % 2 = 0
      BY <1>1, <1>2
    <3> QED BY <3>2, <3>3
  <2>4. b + s \in Buddies /\ BuddyOf(b + s) = b + s
    BY <2>3, BuddyFacts DEF Buddies
  <2>5. Sibling(b) = b + s /\ Parent(b) = b
    BY <1>1, <1>2, <1>3, <1>4, <2>4 DEF Parent
  <2> QED BY <1>1, <2>1, <2>3, <2>4, <2>5 DEF s
<1>5. CASE (b \div s) % 2 # 0
  <2> DEFINE p == b - s
  <2>1. p \in Nat /\ p % (2 * s) = 0 /\ b = p + s
    <3>1. b >= s /\ (b - s) % (2 * s) = 0
      BY <1>1, <1>2, <1>5, HalfOf
    <3> QED BY <1>1, <1>2, <3>1
  <2>2. p \in Pages /\ p % 2 = 0
    <3>1. p <= b /\ p % 2 = 0
      BY <1>1, <1>2, <2>1
    <3> QED BY <1>2, <2>1, <3>1, PageFacts DEF Pages
  <2>3. p \in Buddies /\ BuddyOf(p) = p
    BY <2>2, BuddyFacts DEF Buddies
  <2>4. b \in Block(p, k + 1)
    BY <1>1, <2>1 DEF Block
  <2>5. AreaOf(b) = AreaOf(p)
    BY <1>1, <2>1, <2>2, <2>4, BlockInArea
  <2>6. Sibling(b) = p /\ Parent(b) = p
    BY <1>1, <1>2, <1>3, <1>5, <2>1, <2>3 DEF Parent
  <2> QED BY <1>1, <2>1, <2>3, <2>5, <2>6 DEF s
<1> QED BY <1>4, <1>5

---------------------------------------------------------------------------
(* Lists. *)

\* The elements of a sequence.
LEMMA RangeFacts ==
  ASSUME NEW S, NEW q \in Seq(S)
  PROVE  /\ Len(q) \in Nat
         /\ \A x : x \in Range(q) <=> \E i \in 1 .. Len(q) : x = q[i]
         /\ \A i \in 1 .. Len(q) : q[i] \in S
         /\ q = <<>> <=> Range(q) = {}
         /\ q # <<>> => Head(q) \in Range(q)
<1>1. Len(q) \in Nat /\ DOMAIN q = 1 .. Len(q) /\ \A i \in 1 .. Len(q) : q[i] \in S
  BY LenProperties, ElementOfSeq
<1>2. \A x : x \in Range(q) <=> \E i \in 1 .. Len(q) : x = q[i]
  BY <1>1 DEF Range
<1>3. CASE q = <<>>
  <2>1. Len(q) = 0
    BY <1>3, EmptySeq
  <2>2. 1 .. Len(q) = {}
    BY <2>1
  <2> QED BY <1>1, <1>2, <1>3, <2>2
<1>4. CASE q # <<>>
  <2>1. Len(q) > 0 /\ Head(q) = q[1]
    BY <1>1, <1>4, EmptySeq, HeadTailProperties
  <2>2. 1 \in 1 .. Len(q)
    BY <1>1, <2>1
  <2> QED BY <1>1, <1>2, <1>4, <2>1, <2>2
<1> QED BY <1>1, <1>2, <1>3, <1>4

\* ll_push_list adds one element.
LEMMA PushFacts ==
  ASSUME NEW S, NEW q \in Seq(S), NEW x \in S
  PROVE  /\ Push(q, x) \in Seq(S) /\ Push(q, x) # <<>>
         /\ Range(Push(q, x)) = Range(q) \cup {x}
         /\ x \notin Range(q) => (IsSet(q) => IsSet(Push(q, x)))
<1> DEFINE p == Push(q, x)
<1>1. /\ p \in Seq(S) /\ Len(q) \in Nat /\ Len(p) = Len(q) + 1
      /\ \A i \in 1 .. Len(q) : p[i] = q[i]
      /\ p[Len(q) + 1] = x
  BY AppendProperties, LenProperties DEF Push
<1> HIDE DEF p
<1>2. \A i \in 1 .. Len(p) : i \in 1 .. Len(q) \/ i = Len(q) + 1
  BY <1>1
<1>3. \A i \in 1 .. Len(q) : i \in 1 .. Len(p)
  BY <1>1
<1>4. Len(q) + 1 \in 1 .. Len(p) /\ Len(q) + 1 \notin 1 .. Len(q)
  BY <1>1
<1>5. Range(p) = Range(q) \cup {x}
  <2>1. ASSUME NEW y, y \in Range(p) PROVE y \in Range(q) \cup {x}
    BY <1>1, <1>2, <2>1, RangeFacts
  <2>2. ASSUME NEW y, y \in Range(q) \cup {x} PROVE y \in Range(p)
    BY <1>1, <1>3, <1>4, <2>2, RangeFacts
  <2> QED BY <2>1, <2>2
<1>6. ASSUME IsSet(q), x \notin Range(q) PROVE IsSet(p)
  <2>1. \A i \in 1 .. Len(q) : q[i] # x
    BY <1>6, RangeFacts
  <2>2. \A i, j \in 1 .. Len(q) : q[i] = q[j] => i = j
    BY <1>6 DEF IsSet
  <2>3. SUFFICES ASSUME NEW i \in 1 .. Len(p), NEW j \in 1 .. Len(p), p[i] = p[j]
                 PROVE  i = j
    BY DEF IsSet
  <2> QED BY <1>1, <1>2, <2>1, <2>2, <2>3
<1>7. p # <<>>
  BY <1>5, <1>1, RangeFacts
<1> QED BY <1>1, <1>5, <1>6, <1>7 DEF p

\* ll_delete_node removes one element.
LEMMA DeleteFacts ==
  ASSUME NEW S, NEW q \in Seq(S), IsSet(q), NEW x \in Range(q)
  PROVE  /\ Delete(q, x) \in Seq(S)
         /\ Range(Delete(q, x)) = Range(q) \ {x}
         /\ IsSet(Delete(q, x))
<1> DEFINE k == CHOOSE i \in 1 .. Len(q) : q[i] = x
           p == RemoveAt(q, k)
<1>1. k \in 1 .. Len(q) /\ q[k] = x
  <2>1. \E i \in 1 .. Len(q) : q[i] = x
    BY RangeFacts
  <2> QED BY <2>1
<1>2. Delete(q, x) = p
  BY DEF Delete
<1> HIDE DEF k
<1>3. /\ p \in Seq(S) /\ Len(p) = Len(q) - 1 /\ Len(q) \in Nat
      /\ \A j \in 1 .. Len(q) - 1 : p[j] = IF j < k THEN q[j] ELSE q[j + 1]
  BY <1>1, RemoveAtFacts, LenProperties
<1> HIDE DEF p
<1>4. \A i, j \in 1 .. Len(q) : q[i] = q[j] => i = j
  BY DEF IsSet
<1> DEFINE at(j) == IF j < k THEN j ELSE j + 1
<1>5. \A j \in 1 .. Len(p) : at(j) \in 1 .. Len(q) /\ at(j) # k /\ p[j] = q[at(j)]
  BY <1>1, <1>3
<1>6. \A i, j \in 1 .. Len(p) : at(i) = at(j) => i = j
  BY <1>1, <1>3
<1>7. \A i \in 1 .. Len(q) : i # k => \E j \in 1 .. Len(p) : at(j) = i
  <2> SUFFICES ASSUME NEW i \in 1 .. Len(q), i # k
               PROVE  \E j \in 1 .. Len(p) : at(j) = i
    OBVIOUS
  <2>1. CASE i < k
    <3>1. i \in 1 .. Len(p) /\ at(i) = i
      BY <1>1, <1>3, <2>1
    <3> QED BY <3>1
  <2>2. CASE i > k
    <3>1. i - 1 \in 1 .. Len(p) /\ at(i - 1) = i
      BY <1>1, <1>3, <2>2
    <3> QED BY <3>1
  <2> QED BY <1>1, <2>1, <2>2
<1> HIDE DEF at
<1>8. Range(p) = Range(q) \ {x}
  <2>1. ASSUME NEW y, y \in Range(p) PROVE y \in Range(q) /\ y # x
    <3>1. PICK j \in 1 .. Len(p) : y = p[j]
      BY <1>3, <2>1, RangeFacts
    <3> QED BY <1>1, <1>4, <1>5, <3>1, RangeFacts
  <2>2. ASSUME NEW y, y \in Range(q), y # x PROVE y \in Range(p)
    <3>1. PICK i \in 1 .. Len(q) : y = q[i]
      BY <2>2, RangeFacts
    <3>2. PICK j \in 1 .. Len(p) : at(j) = i
      BY <1>1, <1>7, <2>2, <3>1
    <3> QED BY <1>3, <1>5, <3>1, <3>2, RangeFacts
  <2> QED BY <2>1, <2>2
<1>9. IsSet(p)
  <2> SUFFICES ASSUME NEW i \in 1 .. Len(p), NEW j \in 1 .. Len(p), p[i] = p[j] PROVE i = j
    BY DEF IsSet
  <2> QED BY <1>4, <1>5, <1>6
<1> QED BY <1>2, <1>3, <1>8, <1>9

\* What holds of the free lists and the global lists of areas by themselves.
ListsGood(L) ==
  /\ L.free \in [Areas -> [Orders -> Seq(Buddies)]]
  /\ L.areas \in [Orders -> Seq(Areas)]
  /\ \A a \in Areas, k \in Orders : IsSet(L.free[a][k])
  /\ \A k \in Orders :
       /\ IsSet(L.areas[k])
       /\ \A a \in Areas : a \in Range(L.areas[k]) <=> Range(L.free[a][k]) # {}

\* Of all lists, M has b on that of order k in its area besides, or less.
Adds(L, M, b, k) ==
  \A a \in Areas, j \in Orders :
    Range(M.free[a][j]) = IF a = AreaOf(b) /\ j = k THEN Range(L.free[a][j]) \cup {b}
                          ELSE Range(L.free[a][j])
Removes(L, M, b, k) ==
  \A a \in Areas, j \in Orders :
    Range(M.free[a][j]) = IF a = AreaOf(b) /\ j = k THEN Range(L.free[a][j]) \ {b}
                          ELSE Range(L.free[a][j])

\* add_buddy_list and remove_buddy_list keep this, and change one list.
LEMMA AddFacts ==
  ASSUME NEW L, ListsGood(L), NEW b \in Buddies, NEW k \in Orders,
         b \notin Range(L.free[AreaOf(b)][k]), NEW M, M = AddBuddy(L, b, k)
  PROVE  ListsGood(M) /\ Adds(L, M, b, k)
<1> DEFINE c == AreaOf(b)
           q == L.free[c][k]
<1>1. c \in Areas /\ q \in Seq(Buddies) /\ IsSet(q) /\ L.areas[k] \in Seq(Areas)
  BY BuddyFacts DEF ListsGood
<1>2. /\ M.free = [L.free EXCEPT ![c][k] = Push(q, b)]
      /\ M.areas = IF q = <<>> THEN [L.areas EXCEPT ![k] = Push(L.areas[k], c)] ELSE L.areas
  BY DEF AddBuddy
<1>3. /\ Push(q, b) \in Seq(Buddies) /\ Range(Push(q, b)) = Range(q) \cup {b} /\ IsSet(Push(q, b))
  <2>1. q \in Seq(Buddies) /\ IsSet(q) /\ b \notin Range(q)
    BY <1>1
  <2> HIDE DEF q
  <2> QED BY <2>1, PushFacts
<1>4. \A a \in Areas, j \in Orders :
        M.free[a][j] = IF a = c /\ j = k THEN Push(q, b) ELSE L.free[a][j]
  BY <1>1, <1>2 DEF ListsGood
<1>5. M.free \in [Areas -> [Orders -> Seq(Buddies)]]
  BY <1>1, <1>2, <1>3 DEF ListsGood
<1>6. \A a \in Areas, j \in Orders : IsSet(M.free[a][j])
  BY <1>3, <1>4 DEF ListsGood
<1>7. \A a \in Areas, j \in Orders :
        Range(M.free[a][j]) = IF a = c /\ j = k THEN Range(L.free[a][j]) \cup {b}
                              ELSE Range(L.free[a][j])
  BY <1>3, <1>4
<1>8. Adds(L, M, b, k)
  BY <1>7 DEF Adds
<1>9. CASE q = <<>>
  <2>1. c \notin Range(L.areas[k])
    <3>1. Range(q) = {}
      BY <1>1, <1>9, RangeFacts
    <3> QED BY <1>1, <3>1 DEF ListsGood
  <2>2. /\ Push(L.areas[k], c) \in Seq(Areas) /\ IsSet(Push(L.areas[k], c))
        /\ Range(Push(L.areas[k], c)) = Range(L.areas[k]) \cup {c}
    <3>1. IsSet(L.areas[k]) /\ L.areas[k] \in Seq(Areas) /\ c \in Areas
      BY <1>1 DEF ListsGood
    <3> DEFINE r == L.areas[k]
    <3>2. r \in Seq(Areas) /\ IsSet(r) /\ c \notin Range(r) /\ c \in Areas
      BY <2>1, <3>1
    <3> HIDE DEF r, c
    <3>3. /\ Push(r, c) \in Seq(Areas) /\ IsSet(Push(r, c))
          /\ Range(Push(r, c)) = Range(r) \cup {c}
      BY <3>2, PushFacts
    <3> QED BY <3>3 DEF r
  <2>3. \A j \in Orders : M.areas[j] = IF j = k THEN Push(L.areas[k], c) ELSE L.areas[j]
    BY <1>2, <1>9 DEF ListsGood
  <2>4. M.areas \in [Orders -> Seq(Areas)]
    BY <1>2, <1>9, <2>2 DEF ListsGood
  <2>5. \A j \in Orders : IsSet(M.areas[j])
    BY <2>2, <2>3 DEF ListsGood
  <2>6. ASSUME NEW j \in Orders, NEW a \in Areas
        PROVE  a \in Range(M.areas[j]) <=> Range(M.free[a][j]) # {}
    <3>1. a \in Range(L.areas[j]) <=> Range(L.free[a][j]) # {}
      BY DEF ListsGood
    <3>2. CASE a = c /\ j = k
      BY <1>7, <2>2, <2>3, <3>2
    <3>3. CASE ~(a = c /\ j = k)
      BY <1>7, <2>2, <2>3, <3>1, <3>3
    <3> QED BY <3>2, <3>3
  <2> QED BY <1>5, <1>6, <1>7, <2>4, <2>5, <2>6, <1>8 DEF ListsGood
<1>10. CASE q # <<>>
  <2>1. Range(q) # {}
    BY <1>1, <1>10, RangeFacts
  <2>2. ASSUME NEW j \in Orders, NEW a \in Areas
        PROVE  a \in Range(M.areas[j]) <=> Range(M.free[a][j]) # {}
    <3>1. a \in Range(L.areas[j]) <=> Range(L.free[a][j]) # {}
      BY DEF ListsGood
    <3>2. M.areas = L.areas
      BY <1>2, <1>10
    <3>3. CASE a = c /\ j = k
      BY <1>7, <2>1, <3>1, <3>2, <3>3
    <3>4. CASE ~(a = c /\ j = k)
      BY <1>7, <3>1, <3>2, <3>4
    <3> QED BY <3>3, <3>4
  <2> QED BY <1>2, <1>5, <1>6, <1>7, <1>10, <1>8, <2>2 DEF ListsGood
<1> QED BY <1>9, <1>10

\* remove_buddy_list keeps the lists in order and takes one buddy off one list.
LEMMA RemoveFacts ==
  ASSUME NEW L, ListsGood(L), NEW b \in Buddies, NEW k \in Orders,
         b \in Range(L.free[AreaOf(b)][k]), NEW M, M = RemoveBuddy(L, b, k)
  PROVE  ListsGood(M) /\ Removes(L, M, b, k)
<1> DEFINE c == AreaOf(b)
           q == L.free[c][k]
           rest == Delete(q, b)
<1>1. c \in Areas /\ q \in Seq(Buddies) /\ IsSet(q) /\ L.areas[k] \in Seq(Areas)
  BY BuddyFacts DEF ListsGood
<1>2. /\ M.free = [L.free EXCEPT ![c][k] = rest]
      /\ M.areas = IF rest = <<>> THEN [L.areas EXCEPT ![k] = Delete(L.areas[k], c)]
                   ELSE L.areas
  BY DEF RemoveBuddy
<1>3. rest \in Seq(Buddies) /\ Range(rest) = Range(q) \ {b} /\ IsSet(rest)
  BY <1>1, DeleteFacts
<1>4. \A a \in Areas, j \in Orders :
        M.free[a][j] = IF a = c /\ j = k THEN rest ELSE L.free[a][j]
  BY <1>1, <1>2 DEF ListsGood
<1>5. M.free \in [Areas -> [Orders -> Seq(Buddies)]]
  BY <1>1, <1>2, <1>3 DEF ListsGood
<1>6. \A a \in Areas, j \in Orders : IsSet(M.free[a][j])
  BY <1>3, <1>4 DEF ListsGood
<1>7. \A a \in Areas, j \in Orders :
        Range(M.free[a][j]) = IF a = c /\ j = k THEN Range(L.free[a][j]) \ {b}
                              ELSE Range(L.free[a][j])
  BY <1>3, <1>4
<1>8. Removes(L, M, b, k)
  BY <1>7 DEF Removes
<1>9. CASE rest = <<>>
  <2>1. c \in Range(L.areas[k])
    BY <1>1 DEF ListsGood
  <2>2. /\ Delete(L.areas[k], c) \in Seq(Areas) /\ IsSet(Delete(L.areas[k], c))
        /\ Range(Delete(L.areas[k], c)) = Range(L.areas[k]) \ {c}
    <3>1. IsSet(L.areas[k]) /\ L.areas[k] \in Seq(Areas)
      BY <1>1 DEF ListsGood
    <3> QED BY <2>1, <3>1, DeleteFacts
  <2>3. \A j \in Orders : M.areas[j] = IF j = k THEN Delete(L.areas[k], c) ELSE L.areas[j]
    BY <1>2, <1>9 DEF ListsGood
  <2>4. M.areas \in [Orders -> Seq(Areas)]
    BY <1>2, <1>9, <2>2 DEF ListsGood
  <2>5. \A j \in Orders : IsSet(M.areas[j])
    BY <2>2, <2>3 DEF ListsGood
  <2>6. Range(rest) = {}
    BY <1>3, <1>9, RangeFacts
  <2>7. ASSUME NEW j \in Orders, NEW a \in Areas
        PROVE  a \in Range(M.areas[j]) <=> Range(M.free[a][j]) # {}
    <3>1. a \in Range(L.areas[j]) <=> Range(L.free[a][j]) # {}
      BY DEF ListsGood
    <3>2. CASE j # k
      <4>1. M.areas[j] = L.areas[j] /\ Range(M.free[a][j]) = Range(L.free[a][j])
        BY <1>7, <2>3, <3>2
      <4> QED BY <3>1, <4>1
    <3>3. CASE j = k /\ a # c
      <4>1. Range(M.areas[j]) = Range(L.areas[j]) \ {c} /\ Range(M.free[a][j]) = Range(L.free[a][j])
        BY <1>7, <2>2, <2>3, <3>3
      <4> QED BY <3>1, <3>3, <4>1
    <3>4. CASE j = k /\ a = c
      <4>1. Range(M.areas[j]) = Range(L.areas[j]) \ {c} /\ M.free[a][j] = rest
        BY <1>1, <1>4, <2>2, <2>3, <3>4
      <4> QED BY <2>6, <3>4, <4>1
    <3> QED BY <3>2, <3>3, <3>4
  <2> QED BY <1>5, <1>6, <1>7, <2>4, <2>5, <2>7, <1>8 DEF ListsGood
<1>10. CASE rest # <<>>
  <2>1. Range(rest) # {}
    BY <1>3, <1>10, RangeFacts
  <2>2. ASSUME NEW j \in Orders, NEW a \in Areas
        PROVE  a \in Range(M.areas[j]) <=> Range(M.free[a][j]) # {}
    <3>1. M.areas[j] = L.areas[j]
      BY <1>2, <1>10
    <3>2. a \in Range(L.areas[j]) <=> Range(L.free[a][j]) # {}
      BY DEF ListsGood
    <3>3. CASE a = c /\ j = k
      <4>1. Range(M.free[a][j]) # {} /\ Range(L.free[a][j]) # {}
        BY <1>1, <1>4, <2>1, <3>3
      <4> QED BY <3>1, <3>2, <4>1
    <3>4. CASE ~(a = c /\ j = k)
      <4>1. Range(M.free[a][j]) = Range(L.free[a][j])
        BY <1>7, <3>4
      <4> QED BY <3>1, <3>2, <4>1
    <3> QED BY <3>3, <3>4
  <2> QED BY <1>2, <1>5, <1>6, <1>7, <1>10, <1>8, <2>2 DEF ListsGood
<1> QED BY <1>9, <1>10

---------------------------------------------------------------------------
(* Blocks: what holds of the orders o, the free buddies F, the pages V that *)
(* are marked and the pages D that callers own.                             *)

Reach(o, b)   == b .. b + Size[IF o[b] = 0 THEN 1 ELSE o[b]] - 1
HeadsOf(F, D) == F \cup {BuddyOf(x) : x \in D}

Aligned(o, F, D) == \A b \in HeadsOf(F, D) : b % Size[o[b]] = 0
Apart(o, F, D)   == \A b, d \in HeadsOf(F, D) : \A x \in Reach(o, b) : x \in Reach(o, d) => b = d
Covered(o, F, D) == \A x \in Pages : \E b \in HeadsOf(F, D) : x \in Reach(o, b)
Marked(o, V, D)  == \A x : x \in V <=> \E y \in D : x \in Block(y, o[BuddyOf(y)])
Unused(o, F, V)  == \A b \in F : /\ o[b] > 0 => \A x \in Block(b, o[b]) : x \notin V
                                 /\ o[b] = 0 => b \notin V \/ b + 1 \notin V
\* A page that is owned with its order is the first of its block; a pair of
\* pages that is on no list is in use.
Owned(o, F, V, D) == \A x \in D :
                       /\ o[BuddyOf(x)] > 0 => BuddyOf(x) = x
                       /\ o[BuddyOf(x)] = 0 /\ BuddyOf(x) \notin F =>
                            BuddyOf(x) \in V /\ BuddyOf(x) + 1 \in V

BlocksGood(o, F, V, D) ==
  /\ o \in [Buddies -> Orders] /\ F \subseteq Buddies /\ D \subseteq Pages
  /\ Aligned(o, F, D) /\ Apart(o, F, D) /\ Covered(o, F, D)
  /\ Marked(o, V, D) /\ Unused(o, F, V) /\ Owned(o, F, V, D)

\* The first buddies of blocks are buddies.
LEMMA HeadFacts ==
  ASSUME NEW o, NEW F, NEW V, NEW D, BlocksGood(o, F, V, D)
  PROVE  /\ HeadsOf(F, D) \subseteq Buddies
         /\ \A x \in D : x \in Pages /\ BuddyOf(x) \in Buddies /\ BuddyOf(x) \in HeadsOf(F, D)
         /\ \A b \in F : b \in Buddies /\ b \in HeadsOf(F, D)
BY BuddyFacts DEF HeadsOf, BlocksGood

\* The pages of a block, by its order.
LEMMA ReachFacts ==
  ASSUME NEW o \in [Buddies -> Orders], NEW b \in Buddies
  PROVE  /\ b \in Nat /\ o[b] \in Orders
         /\ b \in Reach(o, b) /\ b + 1 \in Reach(o, b)
         /\ \A x \in Reach(o, b) : x \in Nat /\ b <= x
         /\ o[b] = 0 => Reach(o, b) = {b, b + 1}
         /\ o[b] > 0 => Reach(o, b) = Block(b, o[b])
         /\ \A x \in Pages : BuddyOf(x) = b => x \in Reach(o, b)
<1> DEFINE k == IF o[b] = 0 THEN 1 ELSE o[b]
<1>1. b \in Nat /\ o[b] \in Orders /\ k \in Orders /\ k > 0
  BY BuddyFacts, SizeFacts DEF Orders
<1>2. Size[k] \in Nat /\ Size[k] >= 2
  <2>1. Size[k] = 2 * Size[k - 1] /\ k - 1 \in Orders
    BY <1>1, SizeFacts
  <2>2. Size[k - 1] \in Nat /\ Size[k - 1] > 0
    BY <2>1, SizeFacts DEF Orders
  <2> QED BY <2>1, <2>2
<1>3. Reach(o, b) = b .. b + Size[k] - 1
  BY DEF Reach
<1> HIDE DEF k
<1>4. b \in Reach(o, b) /\ b + 1 \in Reach(o, b) /\ \A x \in Reach(o, b) : x \in Nat /\ b <= x
  BY <1>1, <1>2, <1>3
<1>5. ASSUME o[b] = 0 PROVE Reach(o, b) = {b, b + 1}
  <2>1. Size[k] = 2
    BY <1>5, SizeFacts DEF k
  <2> QED BY <1>1, <1>3, <2>1
<1>6. ASSUME o[b] > 0 PROVE Reach(o, b) = Block(b, o[b])
  BY <1>1, <1>3, <1>6 DEF k, Block, Orders
<1>7. \A x \in Pages : BuddyOf(x) = b => x = b \/ x = b + 1
  BY BuddyFacts
<1> QED BY <1>1, <1>4, <1>5, <1>6, <1>7

\* The block of an owned page is the page itself or all of its buddy's.
LEMMA HeldFacts ==
  ASSUME NEW o, NEW F, NEW V, NEW D, BlocksGood(o, F, V, D), NEW y \in D
  PROVE  /\ y \in V /\ y \in Reach(o, BuddyOf(y))
         /\ o[BuddyOf(y)] = 0 => Block(y, o[BuddyOf(y)]) = {y}
         /\ o[BuddyOf(y)] > 0 =>
              BuddyOf(y) = y /\ Block(y, o[BuddyOf(y)]) = Reach(o, BuddyOf(y))
         /\ \A x \in Block(y, o[BuddyOf(y)]) : x \in Reach(o, BuddyOf(y)) /\ x \in V
<1> DEFINE b == BuddyOf(y)
<1>1. y \in Pages /\ y \in Nat /\ b \in Buddies /\ o \in [Buddies -> Orders] /\ o[b] \in Orders
  BY HeadFacts, PageFacts, ReachFacts DEF BlocksGood
<1>2. y \in Reach(o, b)
  BY <1>1, ReachFacts
<1>3. o[b] = 0 => Block(y, o[b]) = {y}
  BY <1>1, SizeFacts DEF Block
<1>4. o[b] > 0 => b = y /\ Block(y, o[b]) = Reach(o, b)
  <2>1. o[b] > 0 => b = y
    BY DEF BlocksGood, Owned
  <2>2. o[b] > 0 => Reach(o, b) = Block(b, o[b])
    BY <1>1, ReachFacts
  <2> QED BY <2>1, <2>2
<1>5. \A x \in Block(y, o[b]) : x \in Reach(o, b) /\ x \in V
  <2>1. \A x \in Block(y, o[b]) : x \in V
    BY DEF BlocksGood, Marked
  <2>2. o[b] = 0 \/ o[b] > 0
    BY <1>1 DEF Orders
  <2> QED BY <1>2, <1>3, <1>4, <2>1, <2>2
<1>6. y \in V
  <2>1. y \in Block(y, o[b])
    BY <1>1, <1>2, <1>3, <1>4 DEF Orders
  <2> QED BY <1>5, <2>1
<1> QED BY <1>2, <1>3, <1>4, <1>5, <1>6

\* A marked page of a block is owned through that block.
LEMMA MarkedFacts ==
  ASSUME NEW o, NEW F, NEW V, NEW D, BlocksGood(o, F, V, D),
         NEW b \in HeadsOf(F, D), NEW x \in Reach(o, b), x \in V
  PROVE  \E y \in D : BuddyOf(y) = b /\ x \in Block(y, o[b])
<1>1. PICK y \in D : x \in Block(y, o[BuddyOf(y)])
  BY DEF BlocksGood, Marked
<1>2. x \in Reach(o, BuddyOf(y)) /\ BuddyOf(y) \in HeadsOf(F, D)
  BY <1>1, HeldFacts, HeadFacts
<1>3. BuddyOf(y) = b
  BY <1>2 DEF BlocksGood, Apart
<1> QED BY <1>1, <1>3

\* Nobody owns a page of a free block of order 1 or more.
LEMMA FreeFacts ==
  ASSUME NEW o, NEW F, NEW V, NEW D, BlocksGood(o, F, V, D), NEW b \in F, o[b] > 0
  PROVE  /\ \A y \in D : BuddyOf(y) # b
         /\ \A x \in Reach(o, b) : x \notin V
<1>1. b \in Buddies /\ o \in [Buddies -> Orders]
  BY DEF BlocksGood
<1>2. Reach(o, b) = Block(b, o[b])
  BY <1>1, ReachFacts
<1>3. \A x \in Reach(o, b) : x \notin V
  BY <1>2 DEF BlocksGood, Unused
<1>4. \A y \in D : BuddyOf(y) # b
  BY <1>3, HeldFacts
<1> QED BY <1>3, <1>4

---------------------------------------------------------------------------
(* What each change of the blocks keeps. *)

\* split_buddy of a block of order 2 or more
LEMMA SplitPair ==
  ASSUME NEW o, NEW F, NEW V, NEW D, BlocksGood(o, F, V, D),
         NEW b \in F, o[b] > 1, NEW r, r = b + Size[o[b] - 1],
         NEW o2 \in [Buddies -> Orders], o2[b] = o[b] - 1, o2[r] = o[b] - 1,
         \A d \in Buddies \ {b, r} : o2[d] = o[d]
  PROVE  /\ BlocksGood(o2, F \cup {r}, V, D)
         /\ r \in Buddies /\ r \notin F
         /\ \A y \in D : o2[BuddyOf(y)] = o[BuddyOf(y)]
<1> DEFINE k == o[b]
           H == HeadsOf(F, D)
           G == HeadsOf(F \cup {r}, D)
<1>1. /\ o \in [Buddies -> Orders] /\ b \in Buddies /\ b \in Nat /\ b \in H
      /\ k \in Orders /\ k \in Nat /\ k > 1 /\ k > 0 /\ k - 1 \in Orders /\ k - 1 > 0
      /\ H \subseteq Buddies /\ F \subseteq Buddies
  BY HeadFacts, ReachFacts, SizeFacts DEF BlocksGood, Orders
<1>2. /\ r \in Buddies /\ BuddyOf(r) = r /\ b % Size[k - 1] = 0 /\ r % Size[k - 1] = 0
  <2>1. b % Size[k] = 0
    BY <1>1 DEF BlocksGood, Aligned
  <2> QED BY <1>1, <2>1, ChildFacts
<1>3. Size[k - 1] \in Nat /\ Size[k - 1] > 0 /\ Size[k] = 2 * Size[k - 1]
  BY <1>1, SizeFacts DEF Orders
<1>4. r # b /\ r \in Reach(o, b)
  <2>1. Reach(o, b) = Block(b, k)
    BY <1>1, ReachFacts
  <2> QED BY <1>1, <1>3, <2>1 DEF Block
<1>5. r \notin H
  <2>1. r \in Reach(o, r)
    BY <1>1, <1>2, ReachFacts
  <2> QED BY <1>1, <1>4, <2>1 DEF BlocksGood, Apart
<1>6. G = H \cup {r} /\ F \subseteq H /\ \A y \in D : BuddyOf(y) \in H
  BY DEF HeadsOf
<1>7. /\ o2 \in [Buddies -> Orders] /\ o2[b] = k - 1 /\ o2[r] = k - 1
      /\ \A d \in Buddies : d # b /\ d # r => o2[d] = o[d]
  BY <1>1, <1>2
<1>8. \A y \in D : o2[BuddyOf(y)] = o[BuddyOf(y)]
  <2>1. \A y \in D : BuddyOf(y) # b
    BY <1>1, FreeFacts
  <2> QED BY <1>1, <1>5, <1>6, <1>7, <2>1
<1>9. \A d \in H : d # b => o2[d] = o[d] /\ Reach(o2, d) = Reach(o, d)
  <2> SUFFICES ASSUME NEW d \in H, d # b PROVE o2[d] = o[d] /\ Reach(o2, d) = Reach(o, d)
    OBVIOUS
  <2>1. o2[d] = o[d]
    BY <1>1, <1>5, <1>7
  <2> QED BY <2>1 DEF Reach
<1>10. /\ \A x : x \in Reach(o, b) <=> x \in Reach(o2, b) \/ x \in Reach(o2, r)
       /\ \A x \in Reach(o2, b) : x \notin Reach(o2, r)
  <2>1. Reach(o, b) = Block(b, k) /\ Reach(o2, b) = Block(b, k - 1) /\ Reach(o2, r) = Block(r, k - 1)
    <3>1. Reach(o, b) = Block(b, k)
      BY <1>1, ReachFacts
    <3>2. o2[b] > 0 /\ o2[r] > 0
      BY <1>1, <1>7
    <3>3. Reach(o2, b) = Block(b, o2[b]) /\ Reach(o2, r) = Block(r, o2[r])
      BY <1>1, <1>2, <3>2, ReachFacts
    <3> QED BY <1>7, <3>1, <3>3
  <2> DEFINE s == Size[k - 1]
  <2>2. s \in Nat /\ Size[k] = 2 * s /\ r = b + s /\ b \in Nat
    BY <1>1, <1>3
  <2>3. Block(b, k) = b .. b + 2 * s - 1 /\ Block(b, k - 1) = b .. b + s - 1
        /\ Block(r, k - 1) = b + s .. b + s + s - 1
    BY <2>2 DEF Block
  <2> HIDE DEF s
  <2>4. /\ \A x : x \in b .. b + 2 * s - 1 <=> x \in b .. b + s - 1 \/ x \in b + s .. b + s + s - 1
        /\ \A x \in b .. b + s - 1 : x \notin b + s .. b + s + s - 1
    BY <2>2
  <2> QED BY <2>1, <2>3, <2>4
<1>11. \A x \in Reach(o, b) : x \notin V
  BY <1>1, FreeFacts
<1> HIDE DEF H, G, k
<1>12. Aligned(o2, F \cup {r}, D)
  <2> SUFFICES ASSUME NEW d \in G PROVE d % Size[o2[d]] = 0
    BY DEF Aligned, G
  <2>1. d \in H => d % Size[o[d]] = 0
    BY DEF BlocksGood, Aligned, H
  <2> QED BY <1>2, <1>6, <1>7, <1>9, <2>1
<1>13. Apart(o2, F \cup {r}, D)
  <2> SUFFICES ASSUME NEW c \in G, NEW d \in G, NEW x \in Reach(o2, c), x \in Reach(o2, d)
               PROVE  c = d
    BY DEF Apart, G
  <2>1. \A e \in G : x \in Reach(o2, e) =>
          IF e = r THEN x \in Reach(o, b) ELSE e \in H /\ x \in Reach(o, e)
    BY <1>6, <1>9, <1>10
  <2>2. \A e, f \in H : x \in Reach(o, e) /\ x \in Reach(o, f) => e = f
    BY DEF BlocksGood, Apart, H
  <2> QED BY <1>1, <1>10, <2>1, <2>2
<1>14. Covered(o2, F \cup {r}, D)
  <2> SUFFICES ASSUME NEW x \in Pages PROVE \E d \in G : x \in Reach(o2, d)
    BY DEF Covered, G
  <2>1. PICK d \in H : x \in Reach(o, d)
    BY DEF BlocksGood, Covered, H
  <2> QED BY <1>6, <1>9, <1>10, <2>1
<1>15. Marked(o2, V, D)
  BY <1>8 DEF BlocksGood, Marked
<1>16. Unused(o2, F \cup {r}, V)
  <2> SUFFICES ASSUME NEW d \in F \cup {r}
               PROVE  /\ o2[d] > 0 => \A x \in Block(d, o2[d]) : x \notin V
                      /\ o2[d] = 0 => d \notin V \/ d + 1 \notin V
    BY DEF Unused
  <2>1. CASE d = b \/ d = r
    <3>1. d \in Buddies /\ o2[d] > 0
      BY <1>1, <1>2, <1>7, <2>1
    <3>2. Reach(o2, d) = Block(d, o2[d])
      BY <1>7, <3>1, ReachFacts
    <3>3. \A x \in Reach(o2, d) : x \notin V
      BY <1>10, <1>11, <2>1
    <3>4. o2[d] # 0
      BY <3>1
    <3> QED BY <3>1, <3>2, <3>3, <3>4
  <2>2. CASE d # b /\ d # r
    <3>1. o2[d] = o[d] /\ d \in F
      BY <1>1, <1>7, <2>2
    <3> QED BY <3>1 DEF BlocksGood, Unused
  <2> QED BY <2>1, <2>2
<1>17. Owned(o2, F \cup {r}, V, D)
  BY <1>5, <1>6, <1>8 DEF BlocksGood, Owned
<1> QED BY <1>1, <1>2, <1>5, <1>6, <1>7, <1>8, <1>12, <1>13, <1>14, <1>15, <1>16, <1>17
        DEF BlocksGood

\* split_buddy of a block of order 1, and free_buddy_page of the second page:
\* the pages stay the same.
LEMMA Relabel ==
  ASSUME NEW o, NEW F, NEW V, NEW D, BlocksGood(o, F, V, D),
         NEW b \in F, \A y \in D : BuddyOf(y) # b, \A x \in Reach(o, b) : x \notin V,
         NEW k, (o[b] = 1 /\ k = 0) \/ (o[b] = 0 /\ k = 1),
         NEW o2 \in [Buddies -> Orders], o2[b] = k, \A d \in Buddies \ {b} : o2[d] = o[d]
  PROVE  /\ BlocksGood(o2, F, V, D)
         /\ \A y \in D : o2[BuddyOf(y)] = o[BuddyOf(y)]
<1> DEFINE H == HeadsOf(F, D)
<1>1. /\ o \in [Buddies -> Orders] /\ b \in Buddies /\ b \in Nat /\ b % 2 = 0
      /\ k \in Orders /\ H \subseteq Buddies /\ F \subseteq H /\ b + 1 \in Reach(o, b)
      /\ b \in Reach(o, b)
  BY HeadFacts, ReachFacts, SizeFacts, BuddyFacts DEF BlocksGood
<1>2. /\ o2 \in [Buddies -> Orders] /\ o2[b] = k
      /\ \A d \in Buddies : d # b => o2[d] = o[d]
  BY <1>1
<1>3. \A y \in D : o2[BuddyOf(y)] = o[BuddyOf(y)]
  BY <1>2, HeadFacts
<1>4. \A d \in H : Reach(o2, d) = Reach(o, d)
  BY <1>1, <1>2 DEF Reach
<1>5. Aligned(o2, F, D)
  <2> SUFFICES ASSUME NEW d \in H PROVE d % Size[o2[d]] = 0
    BY DEF Aligned
  <2>1. d % Size[o[d]] = 0
    BY DEF BlocksGood, Aligned
  <2>2. b % Size[k] = 0
    BY <1>1, SizeFacts
  <2> QED BY <1>1, <1>2, <2>1, <2>2
<1>6. Apart(o2, F, D) /\ Covered(o2, F, D)
  BY <1>4 DEF BlocksGood, Apart, Covered
<1>7. Marked(o2, V, D) /\ Owned(o2, F, V, D)
  BY <1>3 DEF BlocksGood, Marked, Owned
<1>8. Unused(o2, F, V)
  <2> SUFFICES ASSUME NEW d \in F
               PROVE  /\ o2[d] > 0 => \A x \in Block(d, o2[d]) : x \notin V
                      /\ o2[d] = 0 => d \notin V \/ d + 1 \notin V
    BY DEF Unused
  <2>1. CASE d = b
    <3>1. o2[b] > 0 => Reach(o2, b) = Block(b, o2[b])
      BY <1>1, <1>2, ReachFacts
    <3> QED BY <1>1, <1>4, <2>1, <3>1
  <2>2. CASE d # b
    <3>1. o2[d] = o[d]
      BY <1>1, <1>2, <2>2
    <3> QED BY <3>1 DEF BlocksGood, Unused
  <2> QED BY <2>1, <2>2
<1> QED BY <1>2, <1>3, <1>5, <1>6, <1>7, <1>8 DEF BlocksGood

\* coalesce_buddies: p and q are the halves of a block.
LEMMA MergePair ==
  ASSUME NEW o, NEW F, NEW V, NEW D, BlocksGood(o, F, V, D),
         NEW p \in F, NEW q \in F, NEW k \in Orders, k > 0, k < MaxOrder,
         o[p] = k, o[q] = k, q = p + Size[k], p % Size[k + 1] = 0,
         NEW o2 \in [Buddies -> Orders], o2[p] = k + 1, \A d \in Buddies \ {p} : o2[d] = o[d]
  PROVE  /\ BlocksGood(o2, F \ {q}, V, D)
         /\ \A y \in D : o2[BuddyOf(y)] = o[BuddyOf(y)]
<1> DEFINE H == HeadsOf(F, D)
           G == HeadsOf(F \ {q}, D)
           s == Size[k]
<1>1. /\ o \in [Buddies -> Orders] /\ p \in Buddies /\ q \in Buddies /\ p \in Nat
      /\ k \in Nat /\ k + 1 \in Orders /\ k + 1 > 0 /\ H \subseteq Buddies /\ F \subseteq H
  <2>1. k \in Nat /\ k + 1 \in Orders /\ k + 1 > 0
    BY SizeFacts DEF Orders
  <2>2. p \in Buddies /\ q \in Buddies /\ p \in Nat
    BY HeadFacts, BuddyFacts
  <2> QED BY <2>1, <2>2, HeadFacts DEF BlocksGood
<1>2. s \in Nat /\ s > 0 /\ Size[k + 1] = 2 * s /\ q = p + s
  BY SizeFacts DEF Orders
<1>3. /\ \A y \in D : BuddyOf(y) # p /\ BuddyOf(y) # q
      /\ \A x \in Reach(o, p) : x \notin V
      /\ \A x \in Reach(o, q) : x \notin V
  BY <1>1, FreeFacts
<1>4. p # q /\ p \in H /\ q \in H /\ G = H \ {q} /\ p \in G
  BY <1>1, <1>2, <1>3 DEF HeadsOf
<1>5. /\ o2 \in [Buddies -> Orders] /\ o2[p] = k + 1
      /\ \A d \in Buddies : d # p => o2[d] = o[d]
  BY <1>1
<1>6. \A y \in D : o2[BuddyOf(y)] = o[BuddyOf(y)]
  BY <1>3, <1>5, HeadFacts
<1>7. \A d \in H : d # p => o2[d] = o[d] /\ Reach(o2, d) = Reach(o, d)
  BY <1>1, <1>5 DEF Reach
<1>8. \A x : x \in Reach(o2, p) <=> x \in Reach(o, p) \/ x \in Reach(o, q)
  <2>1. Reach(o, p) = Block(p, k) /\ Reach(o, q) = Block(q, k) /\ Reach(o2, p) = Block(p, k + 1)
    <3>1. Reach(o, p) = Block(p, o[p]) /\ Reach(o, q) = Block(q, o[q])
      BY <1>1, ReachFacts
    <3>2. Reach(o2, p) = Block(p, o2[p])
      BY <1>1, <1>5, ReachFacts
    <3> QED BY <1>5, <3>1, <3>2
  <2>2. Block(p, k) = p .. p + s - 1 /\ Block(q, k) = p + s .. p + s + s - 1
        /\ Block(p, k + 1) = p .. p + 2 * s - 1
    BY <1>2 DEF Block
  <2> HIDE DEF s
  <2>3. \A x : x \in p .. p + 2 * s - 1 <=> x \in p .. p + s - 1 \/ x \in p + s .. p + s + s - 1
    BY <1>1, <1>2
  <2> QED BY <2>1, <2>2, <2>3
<1> HIDE DEF H, G, s
<1>9. Aligned(o2, F \ {q}, D)
  <2> SUFFICES ASSUME NEW d \in G PROVE d % Size[o2[d]] = 0
    BY DEF Aligned, G
  <2>1. d \in H => d % Size[o[d]] = 0
    BY DEF BlocksGood, Aligned, H
  <2> QED BY <1>4, <1>5, <1>7, <2>1
<1>10. Apart(o2, F \ {q}, D)
  <2> SUFFICES ASSUME NEW c \in G, NEW d \in G, NEW x \in Reach(o2, c), x \in Reach(o2, d)
               PROVE  c = d
    BY DEF Apart, G
  <2>1. \A e \in G : x \in Reach(o2, e) =>
          e \in H /\ (x \in Reach(o, e) \/ (e = p /\ x \in Reach(o, q)))
    <3> SUFFICES ASSUME NEW e \in G, x \in Reach(o2, e)
                 PROVE  e \in H /\ (x \in Reach(o, e) \/ (e = p /\ x \in Reach(o, q)))
      OBVIOUS
    <3>1. CASE e = p
      BY <1>4, <1>8, <3>1
    <3>2. CASE e # p
      BY <1>4, <1>7, <3>2
    <3> QED BY <3>1, <3>2
  <2>2. \A e, f \in H : x \in Reach(o, e) /\ x \in Reach(o, f) => e = f
    BY DEF BlocksGood, Apart, H
  <2> QED BY <1>4, <2>1, <2>2
<1>11. Covered(o2, F \ {q}, D)
  <2> SUFFICES ASSUME NEW x \in Pages PROVE \E d \in G : x \in Reach(o2, d)
    BY DEF Covered, G
  <2>1. PICK d \in H : x \in Reach(o, d)
    BY DEF BlocksGood, Covered, H
  <2> QED BY <1>4, <1>7, <1>8, <2>1
<1>12. Marked(o2, V, D)
  BY <1>6 DEF BlocksGood, Marked
<1>13. Unused(o2, F \ {q}, V)
  <2> SUFFICES ASSUME NEW d \in F \ {q}
               PROVE  /\ o2[d] > 0 => \A x \in Block(d, o2[d]) : x \notin V
                      /\ o2[d] = 0 => d \notin V \/ d + 1 \notin V
    BY DEF Unused
  <2>1. CASE d = p
    <3>1. Reach(o2, p) = Block(p, o2[p])
      BY <1>1, <1>5, ReachFacts
    <3>2. \A x \in Reach(o2, p) : x \notin V
      BY <1>3, <1>8
    <3>3. o2[p] # 0
      BY <1>1, <1>5
    <3> QED BY <2>1, <3>1, <3>2, <3>3
  <2>2. CASE d # p
    <3>1. o2[d] = o[d] /\ d \in F
      BY <1>1, <1>5, <2>2 DEF H
    <3> QED BY <3>1 DEF BlocksGood, Unused
  <2> QED BY <2>1, <2>2
<1>14. Owned(o2, F \ {q}, V, D)
  BY <1>3, <1>6 DEF BlocksGood, Owned
<1> QED BY <1>5, <1>6, <1>9, <1>10, <1>11, <1>12, <1>13, <1>14 DEF BlocksGood

\* assign_buddy_page
LEMMA TakePage ==
  ASSUME NEW o, NEW F, NEW V, NEW D, BlocksGood(o, F, V, D),
         NEW x \in Pages, BuddyOf(x) \in F, o[BuddyOf(x)] = 0, x \notin V,
         NEW G, G = IF Other(x) \in V THEN F \ {BuddyOf(x)} ELSE F
  PROVE  BlocksGood(o, G, V \cup {x}, D \cup {x})
<1> DEFINE b == BuddyOf(x)
<1>1. /\ o \in [Buddies -> Orders] /\ b \in Buddies /\ b \in Nat /\ b \in HeadsOf(F, D)
      /\ b % 2 = 0 /\ (x = b \/ x = b + 1) /\ G \subseteq F
  BY HeadFacts, BuddyFacts DEF BlocksGood
<1>2. Other(x) = IF x = b THEN b + 1 ELSE b
  BY <1>1 DEF Other
<1>3. x \in Reach(o, b) /\ Block(x, o[b]) = {x}
  <2>1. Size[o[b]] = 1 /\ x \in Nat
    BY <1>1, SizeFacts
  <2>2. Block(x, o[b]) = {x}
    BY <2>1 DEF Block
  <2> QED BY <1>1, <2>2, ReachFacts
<1>4. \A d \in F : d # b => x \notin Reach(o, d)
  BY <1>1, <1>3, HeadFacts DEF BlocksGood, Apart
<1>5. HeadsOf(G, D \cup {x}) = HeadsOf(F, D)
  BY DEF HeadsOf
<1>6. Aligned(o, G, D \cup {x}) /\ Apart(o, G, D \cup {x}) /\ Covered(o, G, D \cup {x})
  BY <1>5 DEF BlocksGood, Aligned, Apart, Covered
<1>7. Marked(o, V \cup {x}, D \cup {x})
  BY <1>3 DEF BlocksGood, Marked
<1>8. Unused(o, G, V \cup {x})
  <2> SUFFICES ASSUME NEW d \in G
               PROVE  /\ o[d] > 0 => \A z \in Block(d, o[d]) : z \notin V \cup {x}
                      /\ o[d] = 0 => d \notin V \cup {x} \/ d + 1 \notin V \cup {x}
    BY DEF Unused
  <2>1. CASE d = b
    <3>1. Other(x) \notin V
      BY <2>1
    <3> QED BY <1>1, <1>2, <2>1, <3>1
  <2>2. CASE d # b
    <3>1. d \in F /\ d \in Buddies /\ x \notin Reach(o, d)
      BY <1>1, <1>4, <2>2, HeadFacts
    <3>2. /\ o[d] > 0 => Reach(o, d) = Block(d, o[d])
          /\ d \in Reach(o, d) /\ d + 1 \in Reach(o, d)
      BY <1>1, <3>1, ReachFacts
    <3>3. /\ o[d] > 0 => \A z \in Block(d, o[d]) : z \notin V
          /\ o[d] = 0 => d \notin V \/ d + 1 \notin V
      BY <3>1 DEF BlocksGood, Unused
    <3> QED BY <3>1, <3>2, <3>3
  <2> QED BY <2>1, <2>2
<1>9. Owned(o, G, V \cup {x}, D \cup {x})
  <2> SUFFICES ASSUME NEW y \in D \cup {x}
               PROVE  /\ o[BuddyOf(y)] > 0 => BuddyOf(y) = y
                      /\ o[BuddyOf(y)] = 0 /\ BuddyOf(y) \notin G =>
                           BuddyOf(y) \in V \cup {x} /\ BuddyOf(y) + 1 \in V \cup {x}
    BY DEF Owned
  <2>1. CASE BuddyOf(y) = b
    BY <1>1, <1>2, <2>1
  <2>2. CASE BuddyOf(y) # b
    <3>1. y \in D /\ (BuddyOf(y) \notin G => BuddyOf(y) \notin F)
      BY <2>2
    <3> QED BY <3>1 DEF BlocksGood, Owned
  <2> QED BY <2>1, <2>2
<1> QED BY <1>1, <1>6, <1>7, <1>8, <1>9 DEF BlocksGood

\* assign_buddy
LEMMA TakeBlock ==
  ASSUME NEW o, NEW F, NEW V, NEW D, BlocksGood(o, F, V, D), NEW b \in F, o[b] > 0
  PROVE  /\ BlocksGood(o, F \ {b}, V \cup Block(b, o[b]), D \cup {b})
         /\ Block(b, o[b]) \cap V = {}
<1>1. /\ o \in [Buddies -> Orders] /\ b \in Buddies /\ b \in Pages /\ b \in HeadsOf(F, D)
      /\ BuddyOf(b) = b
  BY HeadFacts, BuddyFacts DEF BlocksGood
<1>2. Reach(o, b) = Block(b, o[b])
  BY <1>1, ReachFacts
<1>3. (\A y \in D : BuddyOf(y) # b) /\ \A x \in Reach(o, b) : x \notin V
  BY FreeFacts
<1>4. HeadsOf(F \ {b}, D \cup {b}) = HeadsOf(F, D)
  BY <1>1 DEF HeadsOf
<1>5. /\ Aligned(o, F \ {b}, D \cup {b}) /\ Apart(o, F \ {b}, D \cup {b})
      /\ Covered(o, F \ {b}, D \cup {b})
  BY <1>4 DEF BlocksGood, Aligned, Apart, Covered
<1>6. Marked(o, V \cup Block(b, o[b]), D \cup {b})
  BY <1>1 DEF BlocksGood, Marked
<1>7. Unused(o, F \ {b}, V \cup Block(b, o[b]))
  <2> SUFFICES ASSUME NEW d \in F \ {b}
               PROVE  /\ o[d] > 0 => \A z \in Block(d, o[d]) : z \notin V \cup Reach(o, b)
                      /\ o[d] = 0 => \/ d \notin V \cup Reach(o, b)
                                     \/ d + 1 \notin V \cup Reach(o, b)
    BY <1>2 DEF Unused
  <2>1. d \in Buddies /\ d \in HeadsOf(F, D)
    BY HeadFacts
  <2>2. \A x \in Reach(o, d) : x \notin Reach(o, b)
    BY <1>1, <2>1 DEF BlocksGood, Apart
  <2>3. /\ o[d] > 0 => Reach(o, d) = Block(d, o[d])
        /\ d \in Reach(o, d) /\ d + 1 \in Reach(o, d)
    BY <1>1, <2>1, ReachFacts
  <2>4. /\ o[d] > 0 => \A z \in Block(d, o[d]) : z \notin V
        /\ o[d] = 0 => d \notin V \/ d + 1 \notin V
    BY DEF BlocksGood, Unused
  <2> QED BY <2>2, <2>3, <2>4
<1>8. Owned(o, F \ {b}, V \cup Block(b, o[b]), D \cup {b})
  <2> SUFFICES ASSUME NEW y \in D \cup {b}
               PROVE  /\ o[BuddyOf(y)] > 0 => BuddyOf(y) = y
                      /\ o[BuddyOf(y)] = 0 /\ BuddyOf(y) \notin F \ {b} =>
                           /\ BuddyOf(y) \in V \cup Block(b, o[b])
                           /\ BuddyOf(y) + 1 \in V \cup Block(b, o[b])
    BY DEF Owned
  <2>1. CASE y \in D
    BY <1>3, <2>1 DEF BlocksGood, Owned
  <2>2. CASE y = b
    <3>1. o[b] # 0
      BY <1>1, SizeFacts DEF Orders
    <3> QED BY <1>1, <2>2, <3>1
  <2> QED BY <2>1, <2>2
<1> QED BY <1>1, <1>2, <1>3, <1>5, <1>6, <1>7, <1>8 DEF BlocksGood

\* The other page of a pair that is owned page by page is in use, or it is not
\* and the pair is on its list and has no other owner.
LEMMA PairFacts ==
  ASSUME NEW o, NEW F, NEW V, NEW D, BlocksGood(o, F, V, D),
         NEW x \in D, o[BuddyOf(x)] = 0
  PROVE  /\ x \in V
         /\ Other(x) \in V => BuddyOf(x) \notin F
         /\ Other(x) \notin V => BuddyOf(x) \in F
         /\ \A y \in D \ {x} : Other(x) \notin V => BuddyOf(y) # BuddyOf(x)
<1> DEFINE b == BuddyOf(x)
<1>1. /\ o \in [Buddies -> Orders] /\ b \in Buddies /\ b \in Nat /\ b \in HeadsOf(F, D)
      /\ b % 2 = 0 /\ (x = b \/ x = b + 1) /\ x \in Pages
  BY HeadFacts, BuddyFacts DEF BlocksGood
<1>2. Other(x) = IF x = b THEN b + 1 ELSE b
  BY <1>1 DEF Other
<1>3. x \in V /\ x \in Reach(o, b) /\ Block(x, o[b]) = {x}
  BY HeldFacts
<1>4. Other(x) \in V <=> b \notin F
  <2>1. b \notin F => Other(x) \in V
    BY <1>2 DEF BlocksGood, Owned
  <2>2. b \in F => b \notin V \/ b + 1 \notin V
    BY DEF BlocksGood, Unused
  <2> QED BY <1>1, <1>2, <1>3, <2>1, <2>2
<1>5. \A y \in D : BuddyOf(y) = b => y = b \/ y = b + 1
  BY BuddyFacts, HeadFacts
<1>6. Other(x) \notin V => \A y \in D \ {x} : BuddyOf(y) # b
  <2>1. \A y \in D : y \in V
    BY HeldFacts
  <2> QED BY <1>1, <1>2, <1>5, <2>1
<1> QED BY <1>3, <1>4, <1>6

\* free_buddy_page
LEMMA GivePage ==
  ASSUME NEW o, NEW F, NEW V, NEW D, BlocksGood(o, F, V, D),
         NEW x \in D, o[BuddyOf(x)] = 0
  PROVE  BlocksGood(o, F \cup {BuddyOf(x)}, V \ {x}, D \ {x})
<1> DEFINE b == BuddyOf(x)
<1>1. /\ o \in [Buddies -> Orders] /\ b \in Buddies /\ b \in Nat /\ b \in HeadsOf(F, D)
      /\ b % 2 = 0 /\ (x = b \/ x = b + 1) /\ x \in Pages
  BY HeadFacts, BuddyFacts DEF BlocksGood
<1>2. x \in V /\ x \in Reach(o, b) /\ Block(x, o[b]) = {x}
  BY HeldFacts
<1>3. HeadsOf(F \cup {b}, D \ {x}) = HeadsOf(F, D)
  BY DEF HeadsOf
<1>4. /\ Aligned(o, F \cup {b}, D \ {x}) /\ Apart(o, F \cup {b}, D \ {x})
      /\ Covered(o, F \cup {b}, D \ {x})
  BY <1>3 DEF BlocksGood, Aligned, Apart, Covered
<1>5. Marked(o, V \ {x}, D \ {x})
  <2>1. ASSUME NEW z, z \in V \ {x} PROVE \E y \in D \ {x} : z \in Block(y, o[BuddyOf(y)])
    BY <1>2, <2>1 DEF BlocksGood, Marked
  <2>2. ASSUME NEW y \in D \ {x}, NEW z \in Block(y, o[BuddyOf(y)]) PROVE z \in V \ {x}
    <3>1. z \in V /\ z \in Reach(o, BuddyOf(y)) /\ BuddyOf(y) \in HeadsOf(F, D)
      BY HeldFacts, HeadFacts
    <3>2. CASE BuddyOf(y) = b
      <4>1. z = y
        BY <3>2, HeldFacts
      <4> QED BY <3>1, <4>1
    <3>3. CASE BuddyOf(y) # b
      <4>1. z # x
        BY <1>1, <1>2, <3>1, <3>3 DEF BlocksGood, Apart
      <4> QED BY <3>1, <4>1
    <3> QED BY <3>2, <3>3
  <2> QED BY <2>1, <2>2 DEF Marked
<1>6. Unused(o, F \cup {b}, V \ {x})
  BY <1>1 DEF BlocksGood, Unused
<1>7. Owned(o, F \cup {b}, V \ {x}, D \ {x})
  <2> SUFFICES ASSUME NEW y \in D \ {x}
               PROVE  /\ o[BuddyOf(y)] > 0 => BuddyOf(y) = y
                      /\ o[BuddyOf(y)] = 0 /\ BuddyOf(y) \notin F \cup {b} =>
                           BuddyOf(y) \in V \ {x} /\ BuddyOf(y) + 1 \in V \ {x}
    BY DEF Owned
  <2>1. /\ o[BuddyOf(y)] > 0 => BuddyOf(y) = y
        /\ o[BuddyOf(y)] = 0 /\ BuddyOf(y) \notin F => BuddyOf(y) \in V /\ BuddyOf(y) + 1 \in V
    BY DEF BlocksGood, Owned
  <2>2. ASSUME BuddyOf(y) # b PROVE BuddyOf(y) # x /\ BuddyOf(y) + 1 # x
    <3>1. BuddyOf(y) \in Buddies /\ BuddyOf(y) \in HeadsOf(F, D)
      BY HeadFacts
    <3>2. BuddyOf(y) \in Reach(o, BuddyOf(y)) /\ BuddyOf(y) + 1 \in Reach(o, BuddyOf(y))
      BY <1>1, <3>1, ReachFacts
    <3> QED BY <1>1, <1>2, <2>2, <3>1, <3>2 DEF BlocksGood, Apart
  <2> QED BY <2>1, <2>2
<1> QED BY <1>1, <1>4, <1>5, <1>6, <1>7 DEF BlocksGood

\* A block of order 1 or more that is owned is marked, and no list has it.
LEMMA OwnedBlock ==
  ASSUME NEW o, NEW F, NEW V, NEW D, BlocksGood(o, F, V, D),
         NEW x \in D, o[BuddyOf(x)] > 0
  PROVE  /\ BuddyOf(x) = x /\ x % Size[o[BuddyOf(x)]] = 0 /\ x \notin F
         /\ Block(x, o[BuddyOf(x)]) \subseteq V
<1>1. /\ o \in [Buddies -> Orders] /\ x \in Buddies /\ x \in HeadsOf(F, D) /\ BuddyOf(x) = x
  BY HeldFacts, HeadFacts DEF BlocksGood
<1>2. /\ Block(x, o[x]) = Reach(o, x) /\ x \in Reach(o, x) /\ o[x] > 0 /\ o[x] # 0
      /\ \A z \in Reach(o, x) : z \in V
  BY <1>1, HeldFacts, ReachFacts DEF Orders
<1>3. x % Size[o[x]] = 0
  BY <1>1 DEF BlocksGood, Aligned
<1>4. x \notin F
  BY <1>1, <1>2, FreeFacts
<1> QED BY <1>1, <1>2, <1>3, <1>4

\* kalloc_page_free_pages of a block of order 1 or more
LEMMA GiveBlock ==
  ASSUME NEW o, NEW F, NEW V, NEW D, BlocksGood(o, F, V, D),
         NEW x \in D, o[BuddyOf(x)] > 0
  PROVE  BlocksGood(o, F \cup {BuddyOf(x)}, V \ Block(x, o[BuddyOf(x)]), D \ {x})
<1>1. /\ o \in [Buddies -> Orders] /\ x \in Buddies /\ x \in HeadsOf(F, D) /\ BuddyOf(x) = x
  BY HeldFacts, HeadFacts DEF BlocksGood
<1>2. /\ Block(x, o[x]) = Reach(o, x) /\ x \in Reach(o, x) /\ o[x] > 0 /\ o[x] # 0
      /\ \A z \in Reach(o, x) : z \in V
  BY <1>1, HeldFacts, ReachFacts DEF Orders
<1>3. \A y \in D \ {x} : BuddyOf(y) # x
  BY <1>2 DEF BlocksGood, Owned
<1>4. HeadsOf(F \cup {x}, D \ {x}) = HeadsOf(F, D)
  BY <1>1 DEF HeadsOf
<1>5. /\ Aligned(o, F \cup {x}, D \ {x}) /\ Apart(o, F \cup {x}, D \ {x})
      /\ Covered(o, F \cup {x}, D \ {x})
  BY <1>4 DEF BlocksGood, Aligned, Apart, Covered
<1>6. \A y \in D \ {x} : \A z \in Reach(o, BuddyOf(y)) : z \notin Reach(o, x)
  BY <1>1, <1>3, HeadFacts DEF BlocksGood, Apart
<1>7. Marked(o, V \ Reach(o, x), D \ {x})
  <2>1. ASSUME NEW z, z \in V, z \notin Reach(o, x)
        PROVE  \E y \in D \ {x} : z \in Block(y, o[BuddyOf(y)])
    BY <1>1, <1>2, <2>1 DEF BlocksGood, Marked
  <2>2. ASSUME NEW y \in D \ {x}, NEW z \in Block(y, o[BuddyOf(y)])
        PROVE  z \in V /\ z \notin Reach(o, x)
    BY <1>6, HeldFacts
  <2> QED BY <2>1, <2>2 DEF Marked
<1>8. Unused(o, F \cup {x}, V \ Reach(o, x))
  BY <1>1, <1>2 DEF BlocksGood, Unused
<1>9. Owned(o, F \cup {x}, V \ Reach(o, x), D \ {x})
  <2> SUFFICES ASSUME NEW y \in D \ {x}
               PROVE  /\ o[BuddyOf(y)] > 0 => BuddyOf(y) = y
                      /\ o[BuddyOf(y)] = 0 /\ BuddyOf(y) \notin F \cup {x} =>
                           /\ BuddyOf(y) \in V \ Reach(o, x)
                           /\ BuddyOf(y) + 1 \in V \ Reach(o, x)
    BY DEF Owned
  <2>1. /\ o[BuddyOf(y)] > 0 => BuddyOf(y) = y
        /\ o[BuddyOf(y)] = 0 /\ BuddyOf(y) \notin F => BuddyOf(y) \in V /\ BuddyOf(y) + 1 \in V
    BY DEF BlocksGood, Owned
  <2>2. BuddyOf(y) \in Reach(o, BuddyOf(y)) /\ BuddyOf(y) + 1 \in Reach(o, BuddyOf(y))
    BY <1>1, HeadFacts, ReachFacts
  <2> QED BY <1>6, <2>1, <2>2
<1> QED BY <1>1, <1>2, <1>5, <1>7, <1>8, <1>9 DEF BlocksGood

---------------------------------------------------------------------------
(* The blocks and the lists together. *)

\* Every buddy on a list belongs there; the buddies that are on a list.
PlacedIn(o, L) == \A a \in Areas, k \in Orders :
                    \A b \in Range(L.free[a][k]) : o[b] = k /\ AreaOf(b) = a
FreeIn(o, L)   == {b \in Buddies : b \in Range(L.free[AreaOf(b)][o[b]])}

\* add_buddy_list after the order of the buddy has been set: the buddy is free.
LEMMA AddPlaced ==
  ASSUME NEW L, ListsGood(L), NEW o \in [Buddies -> Orders], PlacedIn(o, L),
         NEW b \in Buddies, b \notin FreeIn(o, L), NEW k \in Orders,
         NEW p \in [Buddies -> Orders], p[b] = k, \A d \in Buddies \ {b} : p[d] = o[d],
         NEW M, M = AddBuddy(L, b, k)
  PROVE  /\ ListsGood(M) /\ PlacedIn(p, M)
         /\ FreeIn(p, M) = FreeIn(o, L) \cup {b}
<1>1. /\ AreaOf(b) \in Areas /\ \A d \in Buddies : AreaOf(d) \in Areas /\ o[d] \in Orders
  BY BuddyFacts
<1>2. \A a \in Areas, j \in Orders : b \notin Range(L.free[a][j])
  BY DEF PlacedIn, FreeIn
<1>3. /\ ListsGood(M)
      /\ \A a \in Areas, j \in Orders :
           Range(M.free[a][j]) = IF a = AreaOf(b) /\ j = k THEN Range(L.free[a][j]) \cup {b}
                                 ELSE Range(L.free[a][j])
  <2>1. b \notin Range(L.free[AreaOf(b)][k])
    BY <1>1, <1>2
  <2>2. ListsGood(M) /\ Adds(L, M, b, k)
    BY <2>1, AddFacts
  <2> QED BY <2>2 DEF Adds
<1>4. p \in [Buddies -> Orders] /\ p[b] = k /\ \A d \in Buddies : d # b => p[d] = o[d]
  OBVIOUS
<1>5. \A a \in Areas, j \in Orders : Range(L.free[a][j]) \subseteq Buddies
  <2> SUFFICES ASSUME NEW a \in Areas, NEW j \in Orders PROVE Range(L.free[a][j]) \subseteq Buddies
    OBVIOUS
  <2>1. L.free[a][j] \in Seq(Buddies)
    BY DEF ListsGood
  <2> QED BY <2>1, RangeFacts
<1>6. PlacedIn(p, M)
  <2> SUFFICES ASSUME NEW a \in Areas, NEW j \in Orders, NEW d \in Range(M.free[a][j])
               PROVE  p[d] = j /\ AreaOf(d) = a
    BY DEF PlacedIn
  <2>1. CASE d = b
    <3>1. b \in Range(M.free[a][j]) /\ b \notin Range(L.free[a][j])
      BY <1>2, <2>1
    <3>2. a = AreaOf(b) /\ j = k
      BY <1>3, <3>1
    <3> QED BY <1>4, <2>1, <3>2
  <2>2. CASE d # b
    <3>1. d \in Range(L.free[a][j])
      BY <1>3, <2>2
    <3>2. d \in Buddies
      BY <1>5, <3>1
    <3> QED BY <1>4, <2>2, <3>1, <3>2 DEF PlacedIn
  <2> QED BY <2>1, <2>2
<1>7. ASSUME NEW d \in Buddies PROVE d \in FreeIn(p, M) <=> d \in FreeIn(o, L) \cup {b}
  <2>1. CASE d = b
    BY <1>1, <1>3, <1>4, <2>1 DEF FreeIn
  <2>2. CASE d # b
    <3>1. p[d] = o[d] /\ AreaOf(d) \in Areas /\ o[d] \in Orders
      BY <1>1, <1>4, <2>2
    <3>2. d \in Range(M.free[AreaOf(d)][o[d]]) <=> d \in Range(L.free[AreaOf(d)][o[d]])
      <4>1. ~(d \in {b})
        BY <2>2
      <4> QED BY <1>3, <3>1, <4>1
    <3> QED BY <2>2, <3>1, <3>2 DEF FreeIn
  <2> QED BY <2>1, <2>2
<1>8. FreeIn(p, M) \subseteq Buddies /\ FreeIn(o, L) \subseteq Buddies
  BY DEF FreeIn
<1> QED BY <1>3, <1>6, <1>7, <1>8

\* remove_buddy_list: the buddy is free no longer.
LEMMA RemovePlaced ==
  ASSUME NEW L, ListsGood(L), NEW o \in [Buddies -> Orders], PlacedIn(o, L),
         NEW b \in FreeIn(o, L), NEW M, M = RemoveBuddy(L, b, o[b])
  PROVE  /\ ListsGood(M) /\ PlacedIn(o, M)
         /\ FreeIn(o, M) = FreeIn(o, L) \ {b}
<1>1. /\ b \in Buddies /\ o[b] \in Orders /\ b \in Range(L.free[AreaOf(b)][o[b]])
      /\ \A d \in Buddies : AreaOf(d) \in Areas /\ o[d] \in Orders
  BY BuddyFacts DEF FreeIn
<1>2. /\ ListsGood(M)
      /\ \A a \in Areas, j \in Orders :
           Range(M.free[a][j]) = IF a = AreaOf(b) /\ j = o[b] THEN Range(L.free[a][j]) \ {b}
                                 ELSE Range(L.free[a][j])
  <2>1. ListsGood(M) /\ Removes(L, M, b, o[b])
    BY <1>1, RemoveFacts
  <2> QED BY <2>1 DEF Removes
<1>3. PlacedIn(o, M)
  <2> SUFFICES ASSUME NEW a \in Areas, NEW j \in Orders, NEW d \in Range(M.free[a][j])
               PROVE  o[d] = j /\ AreaOf(d) = a
    BY DEF PlacedIn
  <2>1. d \in Range(L.free[a][j])
    BY <1>2
  <2> QED BY <2>1 DEF PlacedIn
<1>4. ASSUME NEW d \in Buddies PROVE d \in FreeIn(o, M) <=> d \in FreeIn(o, L) /\ d # b
  <2>1. CASE d = b
    BY <1>1, <1>2, <2>1 DEF FreeIn
  <2>2. CASE d # b
    BY <1>1, <1>2, <2>2 DEF FreeIn
  <2> QED BY <2>1, <2>2
<1>5. FreeIn(o, M) \subseteq Buddies /\ FreeIn(o, L) \subseteq Buddies
  BY DEF FreeIn
<1> QED BY <1>2, <1>3, <1>4, <1>5
============================================================================
