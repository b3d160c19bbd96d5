------------------------------- MODULE Helpers -------------------------------
(***************************************************************************)
(* The helpers of src/src/common: the copies and fills of string.c and     *)
(* early_mm.c as calls that take a step per turn of their loop, the        *)
(* comparison of memory, the words of bits.c, bitmap.c over them, and the  *)
(* powers of two of math.c.  A word is the set of its bits that are one.   *)
(***************************************************************************)
EXTENDS Integers, FiniteSets, FiniteSetsExt

CONSTANTS MemSize,     \* the bytes of memory
          MaxByte,     \* the greatest value of one
          WordBytes,   \* sizeof(uint64_t)
          BitWords,    \* the words of a bitmap
          Widths       \* the bits of a word: 64, and 32 for the calls that end in _32

ASSUME HelpersAssumption == /\ MemSize \in Nat /\ MaxByte \in Nat
                            /\ WordBytes \in Nat \ {0}
                            /\ BitWords \in Nat \ {0} /\ Widths \subseteq Nat \ {0}

Addrs == 0 .. MemSize - 1
Byte  == 0 .. MaxByte

VARIABLES mem,      \* the bytes of memory
          before,   \* what they were when the call began
          copy,     \* the call: its arguments, the index of its loop, how far it is
          words,    \* the bitmap
          ones,     \* the indices that were set and not freed since
          width     \* the bits of its words

uvars == <<mem, before, copy, words, ones, width>>

bitvars == <<words, ones, width>>

NoCopy == [op |-> "none", dst |-> 0, src |-> 0, size |-> 0, i |-> 0, step |-> "idle"]

UInit == /\ mem \in [Addrs -> Byte] /\ before = mem /\ copy = NoCopy
         /\ width \in Widths
         /\ words = [k \in 0 .. BitWords - 1 |-> {}] /\ ones = {}

---------------------------------------------------------------------------
(* Copies and fills. *)

Region(a, n) == a .. a + n - 1

\* memcpy is called with regions that do not overlap, its pointers are
\* restrict; memset_64 with whole words, its only caller fills a page.
Callable(op, d, s, n) == /\ Region(d, n) \cup Region(s, n) \subseteq Addrs
                         /\ op = "memcpy" => Region(d, n) \cap Region(s, n) = {}
                         /\ op = "memset_64" => n % WordBytes = 0

CopyCall(op, d, s, n) ==
  /\ copy.step = "idle" /\ Callable(op, d, s, n)
  /\ copy' = [op |-> op, dst |-> d, src |-> s, size |-> n, step |-> "loop",
              i |-> IF op = "memmove" /\ ~(d < s) THEN n ELSE 0]
  /\ before' = mem
  /\ UNCHANGED <<mem, bitvars>>

Loop(op) == copy.step = "loop" /\ copy.op = op

\* A turn of a loop writes the bytes of W and goes on at i.
Turn(W, value(_), i) == /\ mem' = [a \in Addrs |-> IF a \in W THEN value(a) ELSE mem[a]]
                        /\ copy' = [copy EXCEPT !.i = i]
                        /\ UNCHANGED <<before, bitvars>>

\* Mutant of Upwards: always from the first byte on.
AlwaysUp == TRUE

\* memmove begins at the end that the other region does not overlap,
Upwards == copy.dst < copy.src

MoveUp == /\ Loop("memmove") /\ Upwards /\ copy.i < copy.size
          /\ Turn({copy.dst + copy.i}, LAMBDA a : mem[copy.src + copy.i], copy.i + 1)

\* and otherwise copies from the last byte down.
MoveDown == /\ Loop("memmove") /\ ~Upwards /\ copy.i # 0
            /\ Turn({copy.dst + copy.i - 1}, LAMBDA a : mem[copy.src + copy.i - 1], copy.i - 1)

\* memcpy and early_memcpy
CopyByte == /\ Loop("memcpy") /\ copy.i < copy.size
            /\ Turn({copy.dst + copy.i}, LAMBDA a : mem[copy.src + copy.i], copy.i + 1)

\* memset and early_memset, with 0 as all callers but one.
SetByte == /\ Loop("memset") /\ copy.i < copy.size
           /\ Turn({copy.dst + copy.i}, LAMBDA a : 0, copy.i + 1)

\* The size that memset_64 goes up to.
SizeUp == copy.size + (copy.size % WordBytes)

SetWord == /\ Loop("memset_64") /\ copy.i < SizeUp
           /\ Turn(Region(copy.dst + copy.i, WordBytes), LAMBDA a : 0, copy.i + WordBytes)

\* memcmp: the first bytes that differ decide.
Same == mem[copy.dst + copy.i] = mem[copy.src + copy.i]

CompareByte == /\ Loop("memcmp") /\ copy.i < copy.size /\ Same
               /\ Turn({}, LAMBDA a : 0, copy.i + 1)

MemCmp == IF copy.i = copy.size THEN 0
          ELSE IF mem[copy.dst + copy.i] < mem[copy.src + copy.i] THEN -1 ELSE 1

LoopOver == CASE copy.op = "memmove"   -> copy.i = IF Upwards THEN copy.size ELSE 0
              [] copy.op = "memset_64" -> copy.i >= SizeUp
              [] copy.op = "memcmp"    -> copy.i < copy.size => ~Same
              [] OTHER                 -> copy.i >= copy.size

CopyReturns == /\ copy.step = "loop" /\ LoopOver
               /\ copy' = [copy EXCEPT !.step = "returned"]
               /\ UNCHANGED <<mem, before, bitvars>>

Ops == {"memmove", "memcpy", "memset", "memset_64", "memcmp"}

CopyNext == \/ \E op \in Ops, d, s \in Addrs, n \in 0 .. MemSize : CopyCall(op, d, s, n)
            \/ MoveUp \/ MoveDown \/ CopyByte \/ SetByte \/ SetWord \/ CompareByte
            \/ CopyReturns

CopySpec == UInit /\ [][CopyNext]_uvars

---------------------------------------------------------------------------
(* Words of bits. *)

\* BITS(num) << index, of which the bits beyond the word are lost.
Mask(index, num) == {b \in 0 .. width - 1 : index <= b /\ b < index + num}

BitsSet(w, index, num)  == w \cup Mask(index, num)
BitsFree(w, index, num) == w \ Mask(index, num)
BitsFlip(w, index, num) == (w \ Mask(index, num)) \cup (Mask(index, num) \ w)
BitsGet(w, index, num)  == {b - index : b \in w \cap Mask(index, num)}

\* _bits_count: count after i turns of its loop, a bit each.
BitsCount(w, num) ==
  LET count[i \in 0 .. num] ==
        IF i = 0 THEN 0 ELSE count[i - 1] + (IF i - 1 \in w THEN 1 ELSE 0)
  IN count[num]

\* bits_msb_index_64 and _32: the first power of two above the word, so one
\* more than the index of its highest bit, but never more than the last index.
BitsMsbIndex(w) ==
  Min({i \in 0 .. width - 2 : w \subseteq 0 .. i - 1} \cup {width - 1})

\* num >>= r
ShiftRight(w, r) == {b - r : b \in {c \in w : c >= r}}

\* math_log2_64: the shifts until the number is at most 1.
MathLog2(w) == Min({r \in 0 .. width : ShiftRight(w, r) \subseteq {0}})

\* math_is_power2_64: the first bit that is one is the only one.
MathIsPower2(w) == \E i \in w : /\ i = Min(w)
                              /\ w \ {i} = {}

---------------------------------------------------------------------------
(* bitmap.c *)

\* Mutant of BitIndex: the bit is counted from the first word.
BitIndexAbsolute(x) == x

BitmapIndex(x) == x \div width
BitIndex(x) == x % width

BitmapSet(x)  == /\ words' = [words EXCEPT ![BitmapIndex(x)] = BitsSet(@, BitIndex(x), 1)]
                 /\ ones' = ones \cup {x}
BitmapFree(x) == /\ words' = [words EXCEPT ![BitmapIndex(x)] = BitsFree(@, BitIndex(x), 1)]
                 /\ ones' = ones \ {x}
BitmapFlip(x) == /\ words' = [words EXCEPT ![BitmapIndex(x)] = BitsFlip(@, BitIndex(x), 1)]
                 /\ ones' = IF x \in ones THEN ones \ {x} ELSE ones \cup {x}
BitmapGet(x)  == BitsGet(words[BitmapIndex(x)], BitIndex(x), 1)

Indices == 0 .. BitWords * width - 1

BitmapCall == /\ \E x \in Indices : BitmapSet(x) \/ BitmapFree(x) \/ BitmapFlip(x)
              /\ UNCHANGED <<mem, before, copy, width>>

BitmapSpec == UInit /\ [][BitmapCall]_uvars

\* The calls of both kinds, a bitmap's between the turns of a copy too.
USpec == UInit /\ [][CopyNext \/ BitmapCall]_uvars

---------------------------------------------------------------------------
(* Properties. *)

Fills == {"memset", "memset_64"}

\* A copy has put into its destination what the source was when the call
\* began, though the two overlap, a fill its value, and nothing else changed.
CopiesRight ==
  copy.step = "returned" =>
    \A a \in Addrs :
      mem[a] = IF copy.op = "memcmp" \/ a \notin Region(copy.dst, copy.size) THEN before[a]
               ELSE IF copy.op \in Fills THEN 0
               ELSE before[copy.src + (a - copy.dst)]

\* The bytes from a on as one number, the first the most significant.
Number(a, n) ==
  LET num[k \in 0 .. n] ==
        IF k = 0 THEN 0 ELSE num[k - 1] * (1 + MaxByte) + mem[a + (k - 1)]
  IN num[n]

\* memcmp orders two regions as the numbers they are.
ComparesRight ==
  copy.step = "returned" /\ copy.op = "memcmp" =>
    LET x == Number(copy.dst, copy.size)
        y == Number(copy.src, copy.size)
    IN MemCmp = IF x < y THEN -1 ELSE IF x > y THEN 1 ELSE 0

\* A bitmap has the bits that were set since they were last freed, and a call
\* for one index changes no other.
BitmapRight == \A x \in Indices : BitmapGet(x) = IF x \in ones THEN {0} ELSE {}

\* The powers of two that a word has room for, and the number that a word is:
\* the sum of the powers of its bits.
Power2[k \in 0 .. width] == IF k = 0 THEN 1 ELSE 2 * Power2[k - 1]

Value(w) ==
  LET sum[k \in 0 .. width] ==
        IF k = 0 THEN 0 ELSE sum[k - 1] + (IF k - 1 \in w THEN Power2[k - 1] ELSE 0)
  IN sum[width]

\* The count, the bit length and the powers of two agree with the number that
\* the word is, and setting, freeing and flipping bits change what they name.
BitsRight ==
  ones # {} => \A k \in 0 .. BitWords - 1 :
    LET w == words[k]
        m == BitsMsbIndex(w) IN
    /\ BitsCount(w, width) = Cardinality(w)
    /\ m < width - 1 => Value(w) < Power2[m] /\ (m > 0 => Power2[m - 1] <= Value(w))
    /\ w # {} => /\ Power2[MathLog2(w)] <= Value(w) /\ Value(w) < Power2[MathLog2(w) + 1]
                 /\ MathIsPower2(w) <=> \E r \in 0 .. width - 1 : Value(w) = Power2[r]
    /\ \A i \in 0 .. width - 1 : \A n \in 1 .. width - i :
         /\ Value(BitsGet(BitsSet(w, i, n), i, n)) = Power2[n] - 1
         /\ Value(BitsFree(w, i, n)) = Value(w) - Power2[i] * Value(BitsGet(w, i, n))
         /\ BitsFlip(BitsFlip(w, i, n), i, n) = w

\* The helpers that the allocators and the boot run on do what they are for.
HelpersRight == CopiesRight /\ ComparesRight /\ BitmapRight /\ BitsRight
=============================================================================
