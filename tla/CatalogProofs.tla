---------------------------- MODULE CatalogProofs ----------------------------
(***************************************************************************)
(* What is true of Catalog for every set of files, texts, areas and sizes, *)
(* any number of runs, and any configurations.                             *)
(*                                                                         *)
(* The module goes from the data to the steps:                             *)
(*   - the size counters (BigSize): totals are exact;                      *)
(*   - files.bbs: what removeDesc, add_description and printFileArea do to *)
(*     the description of each file, by induction over the lines;          *)
(*   - reports: what buildAccessList and reportNewFiles make of the sorted *)
(*     tickets, by induction over the tickets and over the areas;          *)
(*   - Core, the inductive invariant on which all else rests: every run    *)
(*     holds what belongs to its step, the spool holds what the runs       *)
(*     stored, and with a lock an active run is alone;                     *)
(*   - with Core, AInv is inductive: what was announced by whom;           *)
(*   - with Core, DInv is inductive: what files.bbs and the list that is   *)
(*     being built say of each file.                                       *)
(***************************************************************************)
EXTENDS Catalog, InductionLemmas, FiniteSetTheorems, TLAPS

-----------------------------------------------------------------------------
(* The size counters. *)

LEMMA DigitBelow ==
  ASSUME NEW n \in Digit
  PROVE  n \in Nat /\ n < 1024
BY DEF Digit, Unit

LEMMA BelowDigit ==
  ASSUME NEW n \in Nat, n < 1024
  PROVE  n \in Digit
BY DEF Digit, Unit

(* A number is its bytes, kilobytes and megabytes. *)
LEMMA Division ==
  ASSUME NEW n \in Nat
  PROVE  /\ n % 1024 \in Nat /\ n % 1024 < 1024 /\ n \div 1024 \in Nat
         /\ (n \div 1024) * 1024 + (n % 1024) = n
OBVIOUS

LEMMA SplitSize ==
  ASSUME NEW size \in Nat
  PROVE  Split(size) \in SizeType /\ Bytes(Split(size)) = size
<1> DEFINE b == size % 1024
           n == size \div 1024
           k == n % 1024
           m == n \div 1024
<1>1. b \in Nat /\ b < 1024 /\ n \in Nat /\ n * 1024 + b = size
  BY Division
<1>2. k \in Nat /\ k < 1024 /\ m \in Nat /\ m * 1024 + k = n
  BY <1>1, Division
<1>3. Split(size) = [b |-> b, kb |-> k, mb |-> m]
  BY DEF Split, Unit
<1> HIDE DEF b, n, k, m
<1>4. b \in Digit /\ k \in Digit
  BY <1>1, <1>2, BelowDigit
<1>5. [b |-> b, kb |-> k, mb |-> m] \in SizeType
  BY <1>2, <1>4 DEF SizeType
<1>6. Bytes([b |-> b, kb |-> k, mb |-> m]) = (m * 1024 + k) * 1024 + b
  BY DEF Bytes, Unit
<1> QED
  BY <1>1, <1>2, <1>3, <1>5, <1>6

(* The carries cancel: what leaves one counter is what enters the next.    *)
LEMMA CarriesCancel ==
  ASSUME NEW b1 \in Int, NEW k1 \in Int, NEW m1 \in Int,
         NEW b2 \in Int, NEW k2 \in Int, NEW m2 \in Int,
         NEW c \in Int, NEW d \in Int, NEW b \in Int, NEW k \in Int,
         b1 + b2 = b + c * 1024, k1 + c + k2 = k + d * 1024
  PROVE  ((m1 + d + m2) * 1024 + k) * 1024 + b
           = ((m1 * 1024 + k1) * 1024 + b1) + ((m2 * 1024 + k2) * 1024 + b2)
OBVIOUS

LEMMA Counters ==
  ASSUME NEW bs \in SizeType
  PROVE  \E b, kb, mb \in Nat : /\ b < 1024 /\ kb < 1024
                               /\ bs = [b |-> b, kb |-> kb, mb |-> mb]
<1>1. bs.b \in Digit /\ bs.kb \in Digit /\ bs.mb \in Nat
      /\ bs = [b |-> bs.b, kb |-> bs.kb, mb |-> bs.mb]
  BY DEF SizeType
<1>2. bs.b \in Nat /\ bs.b < 1024 /\ bs.kb \in Nat /\ bs.kb < 1024
  BY <1>1, DigitBelow
<1> QED
  BY <1>1, <1>2, ZenonT(60)

(* Adding two counters below their units: the sum of each is below twice   *)
(* its unit, the carry included, so that one carry suffices.               *)
LEMMA AddCounters ==
  ASSUME NEW bs \in SizeType, NEW inc \in SizeType
  PROVE  /\ IncBigSize2(bs, inc) \in SizeType
         /\ Bytes(IncBigSize2(bs, inc)) = Bytes(bs) + Bytes(inc)
<1>1. PICK b1, k1, m1 \in Nat : b1 < 1024 /\ k1 < 1024 /\ bs = [b |-> b1, kb |-> k1, mb |-> m1]
  BY Counters, ZenonT(60)
<1>2. PICK b2, k2, m2 \in Nat : b2 < 1024 /\ k2 < 1024 /\ inc = [b |-> b2, kb |-> k2, mb |-> m2]
  BY Counters, ZenonT(60)
<1> DEFINE b == b1 + b2
           c == IF b >= 1024 THEN 1 ELSE 0
           newB == IF b >= 1024 THEN b - 1024 ELSE b
           kb == k1 + c + k2
           d == IF kb >= 1024 THEN 1 ELSE 0
           newKb == IF kb >= 1024 THEN kb - 1024 ELSE kb
           newMb == m1 + d + m2
<1>3. /\ c \in Nat /\ c <= 1 /\ newB \in Nat /\ newB < 1024
      /\ b1 + b2 = newB + c * 1024
  BY <1>1, <1>2
<1>4. /\ d \in Nat /\ newKb \in Nat /\ newKb < 1024
      /\ k1 + c + k2 = newKb + d * 1024
  <2> HIDE DEF c
  <2> QED
    BY <1>1, <1>2, <1>3
<1>5. newMb \in Nat
  <2> HIDE DEF d
  <2> QED
    BY <1>4
<1>6. IncBigSize2(bs, inc) = [b |-> newB, kb |-> newKb, mb |-> newMb]
  BY <1>1, <1>2 DEF IncBigSize2, Unit
<1>7. newB \in Digit /\ newKb \in Digit
  <2> HIDE DEF newB, newKb
  <2> QED
    BY <1>3, <1>4, BelowDigit
<1>8. [b |-> newB, kb |-> newKb, mb |-> newMb] \in SizeType
  <2> HIDE DEF newB, newKb, newMb
  <2> QED
    BY <1>5, <1>7 DEF SizeType
<1>9. (newMb * 1024 + newKb) * 1024 + newB
         = ((m1 * 1024 + k1) * 1024 + b1) + ((m2 * 1024 + k2) * 1024 + b2)
  <2> HIDE DEF c, d, newB, newKb
  <2>1. c \in Int /\ d \in Int /\ newB \in Int /\ newKb \in Int
    BY <1>3, <1>4
  <2> QED
    BY <2>1, <1>3, <1>4, CarriesCancel
<1> HIDE DEF b, c, newB, kb, d, newKb, newMb
<1>10. /\ Bytes(bs) = (m1 * 1024 + k1) * 1024 + b1
       /\ Bytes(inc) = (m2 * 1024 + k2) * 1024 + b2
       /\ Bytes([b |-> newB, kb |-> newKb, mb |-> newMb]) = (newMb * 1024 + newKb) * 1024 + newB
  BY <1>1, <1>2 DEF Bytes, Unit
<1> QED
  BY <1>6, <1>8, <1>9, <1>10

(* The size of a file added to a total (IncBigSize): the counters stay     *)
(* normal, and the total grows by exactly that size.                       *)
THEOREM TotalIsExact ==
  ASSUME NEW bs \in SizeType, NEW size \in Nat
  PROVE  /\ IncBigSize(bs, size) \in SizeType
         /\ Bytes(IncBigSize(bs, size)) = Bytes(bs) + size
<1>1. Split(size) \in SizeType /\ Bytes(Split(size)) = size
  BY SplitSize
<1> QED
  BY <1>1, AddCounters DEF IncBigSize

(* Two totals that are equal as numbers are equal counter by counter: what *)
(* PrintBigSize prints depends on the sum alone.                           *)
LEMMA LastDigit ==
  ASSUME NEW b1 \in Nat, NEW b2 \in Nat, NEW n1 \in Nat, NEW n2 \in Nat,
         b1 < 1024, b2 < 1024, n1 * 1024 + b1 = n2 * 1024 + b2
  PROVE  b1 = b2 /\ n1 = n2
OBVIOUS

THEOREM PrintedBySum ==
  ASSUME NEW m \in SizeType, NEW n \in SizeType, Bytes(m) = Bytes(n)
  PROVE  PrintBigSize(m) = PrintBigSize(n)
<1>1. PICK b1, k1, m1 \in Nat : b1 < 1024 /\ k1 < 1024 /\ m = [b |-> b1, kb |-> k1, mb |-> m1]
  BY Counters, ZenonT(60)
<1>2. PICK b2, k2, m2 \in Nat : b2 < 1024 /\ k2 < 1024 /\ n = [b |-> b2, kb |-> k2, mb |-> m2]
  BY Counters, ZenonT(60)
<1>3. (m1 * 1024 + k1) * 1024 + b1 = (m2 * 1024 + k2) * 1024 + b2
  BY <1>1, <1>2 DEF Bytes, Unit
<1>4. b1 = b2 /\ m1 * 1024 + k1 = m2 * 1024 + k2
  BY <1>1, <1>2, <1>3, LastDigit
<1>5. k1 = k2 /\ m1 = m2
  BY <1>1, <1>2, <1>4, LastDigit
<1>6. m = n
  BY <1>1, <1>2, <1>4, <1>5
<1> QED
  BY <1>6

-----------------------------------------------------------------------------
(* files.bbs, line by line. *)

BbsOf(mark) ==
  {Entry(f, t) : f \in Files, t \in Texts} \cup {Continuation(mark, t) : t \in Texts}

IsEntry(line, f) == line.mark = "word" /\ line.word = f

LEMMA LineKinds ==
  ASSUME NEW mark \in Marks, NEW line \in BbsOf(mark)
  PROVE  /\ line.text \in Texts
         /\ \/ line.mark = "word" /\ line.word \in Files /\ line = Entry(line.word, line.text)
            \/ /\ line.mark = mark /\ line.mark \in Marks /\ line.mark # "word"
               /\ line = Continuation(mark, line.text)
               /\ line.word = IF mark = "blank" THEN FirstWord[line.text] ELSE NoName
<1>1. mark # "word"
  BY DEF Marks
<1>2. CASE \E f \in Files, t \in Texts : line = Entry(f, t)
  BY <1>2 DEF Entry
<1>3. CASE \E t \in Texts : line = Continuation(mark, t)
  BY <1>1, <1>3 DEF Continuation
<1> QED
  BY <1>2, <1>3 DEF BbsOf

LEMMA LineIsOf ==
  ASSUME NEW mark \in Marks
  PROVE  /\ \A f \in Files, t \in Texts :
              /\ Entry(f, t) \in BbsOf(mark) /\ Entry(f, t).mark = "word"
              /\ Entry(f, t).word = f /\ Entry(f, t).text = t
         /\ \A t \in Texts :
              /\ Continuation(mark, t) \in BbsOf(mark) /\ Continuation(mark, t).mark = mark
              /\ Continuation(mark, t).mark # "word" /\ Continuation(mark, t).text = t
BY DEF BbsOf, Entry, Continuation, Marks

(* One more line. *)
LEMMA OneMore ==
  ASSUME NEW L, NEW s \in Seq(L), NEW line \in L
  PROVE  /\ Append(s, line) \in Seq(L) /\ Len(Append(s, line)) = Len(s) + 1
         /\ Len(s) \in Nat /\ DOMAIN s = 1 .. Len(s)
         /\ DOMAIN Append(s, line) = 1 .. Len(s) + 1
         /\ Append(s, line)[Len(s) + 1] = line
         /\ \A k \in 1 .. Len(s) : Append(s, line)[k] = s[k]
OBVIOUS

LEMMA EntriesAppend ==
  ASSUME NEW L, NEW s \in Seq(L), NEW line \in L, NEW f
  PROVE  /\ IsEntry(line, f) => Entries(Append(s, line), f) = Entries(s, f) \cup {Len(s) + 1}
         /\ ~IsEntry(line, f) => Entries(Append(s, line), f) = Entries(s, f)
         /\ Entries(s, f) \in SUBSET (1 .. Len(s))
<1> DEFINE t == Append(s, line)
           n == Len(s)
<1>1. /\ n \in Nat /\ DOMAIN s = 1 .. n /\ DOMAIN t = 1 .. n + 1 /\ t[n + 1] = line
      /\ \A k \in 1 .. n : t[k] = s[k]
  BY OneMore
<1>2. \A k : k \in 1 .. n + 1 <=> k \in 1 .. n \/ k = n + 1
  BY <1>1
<1> HIDE DEF t, n
<1>3. Entries(t, f) = {k \in 1 .. n + 1 : IsEntry(t[k], f)}
      /\ Entries(s, f) = {k \in 1 .. n : IsEntry(s[k], f)}
  BY <1>1 DEF Entries, IsEntry
<1>4. n + 1 \notin 1 .. n
  BY <1>1
<1>5. \A k \in 1 .. n : IsEntry(t[k], f) <=> IsEntry(s[k], f)
  BY <1>1
<1>6. IsEntry(t[n + 1], f) <=> IsEntry(line, f)
  BY <1>1
<1>7. \A k : k \in Entries(t, f) <=> k \in Entries(s, f) \/ (k = n + 1 /\ IsEntry(line, f))
  BY <1>2, <1>3, <1>4, <1>5, <1>6
<1>8. IsEntry(line, f) => Entries(t, f) = Entries(s, f) \cup {n + 1}
  BY <1>7
<1>9. ~IsEntry(line, f) => Entries(t, f) = Entries(s, f)
  BY <1>7
<1> QED
  BY <1>3, <1>8, <1>9 DEF t, n

LEMMA MinIs ==
  ASSUME NEW T \in SUBSET Nat, NEW x \in T, \A y \in T : x <= y
  PROVE  Min(T) = x
<1>1. T # {} /\ x \in Nat
  OBVIOUS
<1>2. Min(T) \in T /\ \A y \in T : Min(T) <= y
  BY <1>1, MinIn
<1>3. Min(T) \in Nat /\ Min(T) <= x /\ x <= Min(T)
  BY <1>2
<1> QED
  BY <1>1, <1>3

(* Where the description that starts at line k ends. *)
EndsAt(s, k, last) ==
  /\ last \in k .. Len(s)
  /\ \A e \in k + 1 .. last : s[e].mark # "word"
  /\ last # Len(s) => s[last + 1].mark = "word"

LEMMA DescEnd ==
  ASSUME NEW L, NEW s \in Seq(L), NEW k \in 1 .. Len(s)
  PROVE  /\ \E last : EndsAt(s, k, last)
         /\ \A last : EndsAt(s, k, last) =>
              DescAt(s, k) = [j \in 1 .. last - k + 1 |-> s[k + j - 1].text]
<1> DEFINE next == {e \in k + 1 .. Len(s) : s[e].mark = "word"}
           end == IF next = {} THEN Len(s) ELSE Min(next) - 1
<1>1. Len(s) \in Nat /\ k \in Nat /\ k <= Len(s) /\ next \in SUBSET Nat
  OBVIOUS
<1>2. EndsAt(s, k, end)
  <2>1. CASE next = {}
    BY <1>1, <2>1 DEF EndsAt
  <2>2. CASE next # {}
    <3> PICK m : m = Min(next)
      OBVIOUS
    <3>1. m \in next /\ \A y \in next : m <= y
      BY <1>1, <2>2, MinIn
    <3>2. m \in k + 1 .. Len(s) /\ s[m].mark = "word" /\ end = m - 1 /\ end + 1 = m
      BY <2>2, <3>1
    <3>3. ASSUME NEW e \in k + 1 .. m - 1 PROVE s[e].mark # "word"
      <4>1. e \in k + 1 .. Len(s) /\ ~(m <= e)
        BY <1>1, <3>2
      <4> QED
        BY <3>1, <4>1
    <3> HIDE DEF end, next
    <3> QED
      BY <1>1, <3>2, <3>3 DEF EndsAt
  <2> QED
    BY <2>1, <2>2
<1>3. ASSUME NEW last, EndsAt(s, k, last) PROVE last = end
  <2>1. last \in Nat /\ k <= last /\ last <= Len(s)
    BY <1>1, <1>3 DEF EndsAt
  <2>2. CASE next = {}
    <3> SUFFICES ASSUME last # Len(s) PROVE FALSE
      BY <2>2
    <3>1. last + 1 \in k + 1 .. Len(s) /\ s[last + 1].mark = "word"
      BY <1>1, <1>3, <2>1 DEF EndsAt
    <3> QED
      BY <2>2, <3>1
  <2>3. CASE next # {}
    <3> PICK m : m = Min(next)
      OBVIOUS
    <3>1. m \in next /\ \A y \in next : m <= y
      BY <1>1, <2>3, MinIn
    <3>2. m \in k + 1 .. Len(s) /\ s[m].mark = "word" /\ end = m - 1
      BY <2>3, <3>1
    <3>3. ~(m <= last)
      <4> SUFFICES ASSUME m <= last PROVE FALSE
        OBVIOUS
      <4>1. m \in k + 1 .. last
        BY <1>1, <2>1, <3>2
      <4> QED
        BY <1>3, <3>2, <4>1 DEF EndsAt
    <3>4. last # Len(s) /\ last + 1 \in k + 1 .. Len(s) /\ s[last + 1].mark = "word"
      BY <1>1, <1>3, <2>1, <3>2, <3>3 DEF EndsAt
    <3>5. m <= last + 1
      BY <3>1, <3>4
    <3> HIDE DEF end, next
    <3> QED
      BY <1>1, <2>1, <3>2, <3>3, <3>5
  <2> QED
    BY <2>2, <2>3
<1>4. DescAt(s, k) = [j \in 1 .. end - k + 1 |-> s[k + j - 1].text]
  BY DEF DescAt
<1> HIDE DEF end
<1> QED
  BY <1>2, <1>3, <1>4

Open(s, f) == Entries(s, f) # {} /\ EndsAt(s, Min(Entries(s, f)), Len(s))

LEMMA FirstEntry ==
  ASSUME NEW L, NEW s \in Seq(L), NEW f, Entries(s, f) # {}
  PROVE  /\ Min(Entries(s, f)) \in Entries(s, f) /\ Min(Entries(s, f)) \in 1 .. Len(s)
         /\ \A k \in Entries(s, f) : Min(Entries(s, f)) <= k
<1>1. Entries(s, f) \in SUBSET Nat /\ Entries(s, f) \in SUBSET (1 .. Len(s))
  BY DEF Entries
<1> QED
  BY <1>1, MinIn

(* The texts of the lines from k to last. *)
TextsOf(s, k, last) == [j \in 1 .. last - k + 1 |-> s[k + j - 1].text]

LEMMA DescIs ==
  ASSUME NEW L, NEW s \in Seq(L), NEW f, Entries(s, f) # {},
         NEW k, k = Min(Entries(s, f)), NEW last, EndsAt(s, k, last)
  PROVE  GetDesc(s, f) = TextsOf(s, k, last)
<1>1. GetDesc(s, f) = DescAt(s, k) /\ k \in 1 .. Len(s)
  BY FirstEntry DEF GetDesc
<1> QED
  BY <1>1, DescEnd DEF TextsOf

LEMMA TextsOfDesc ==
  ASSUME NEW L, NEW s \in Seq(L), \A line \in L : line.text \in Texts, NEW k \in 1 .. Len(s)
  PROVE  DescAt(s, k) \in Seq(Texts) /\ DescAt(s, k) # <<>> /\ DescAt(s, k)[1] = s[k].text
<1>1. PICK last : EndsAt(s, k, last)
  BY DescEnd
<1>2. DescAt(s, k) = [j \in 1 .. last - k + 1 |-> s[k + j - 1].text]
  BY <1>1, DescEnd
<1>3. last \in Nat /\ k \in Nat /\ Len(s) \in Nat /\ k <= last /\ last <= Len(s) /\ k > 0
  BY <1>1 DEF EndsAt
<1>4. last - k + 1 \in Nat /\ last - k + 1 > 0 /\ 1 \in 1 .. last - k + 1
  BY <1>3
<1>5. ASSUME NEW j \in 1 .. last - k + 1 PROVE s[k + j - 1].text \in Texts
  <2>1. k + j - 1 \in 1 .. Len(s)
    BY <1>3
  <2> QED
    BY <2>1
<1>6. [j \in 1 .. last - k + 1 |-> s[k + j - 1].text] \in Seq(Texts)
  BY <1>4, <1>5
<1>7. k + 1 - 1 = k
  BY <1>3
<1> QED
  BY <1>2, <1>4, <1>6, <1>7

LEMMA GetDescType ==
  ASSUME NEW L, NEW s \in Seq(L), \A line \in L : line.text \in Texts, NEW f
  PROVE  /\ GetDesc(s, f) \in Seq(Texts)
         /\ GetDesc(s, f) # <<>> <=> Entries(s, f) # {}
<1>1. CASE Entries(s, f) = {}
  BY <1>1 DEF GetDesc
<1>2. CASE Entries(s, f) # {}
  <2>1. Min(Entries(s, f)) \in 1 .. Len(s)
    BY <1>2, FirstEntry
  <2>2. GetDesc(s, f) = DescAt(s, Min(Entries(s, f)))
    BY <1>2 DEF GetDesc
  <2> QED
    BY <1>2, <2>1, <2>2, TextsOfDesc
<1> QED
  BY <1>1, <1>2

(* What one more line does to the description of a file. *)
LEMMA DescAppend ==
  ASSUME NEW L, NEW s \in Seq(L), NEW line \in L, NEW f
  PROVE  /\ IsEntry(line, f) /\ Entries(s, f) = {} =>
              /\ GetDesc(Append(s, line), f) = <<line.text>>
              /\ Open(Append(s, line), f)
         /\ line.mark = "word" /\ (Entries(s, f) # {} \/ ~IsEntry(line, f)) =>
              /\ GetDesc(Append(s, line), f) = GetDesc(s, f)
              /\ ~Open(Append(s, line), f)
         /\ line.mark # "word" /\ Open(s, f) =>
              /\ GetDesc(Append(s, line), f) = Append(GetDesc(s, f), line.text)
              /\ Open(Append(s, line), f)
         /\ line.mark # "word" /\ ~Open(s, f) =>
              /\ GetDesc(Append(s, line), f) = GetDesc(s, f)
              /\ ~Open(Append(s, line), f)
<1> PICK n : n = Len(s)
  OBVIOUS
<1> PICK t : t = Append(s, line)
  OBVIOUS
<1>1. /\ n \in Nat /\ DOMAIN s = 1 .. n /\ t \in Seq(L) /\ Len(t) = n + 1
      /\ DOMAIN t = 1 .. n + 1 /\ t[n + 1] = line /\ \A k \in 1 .. n : t[k] = s[k]
  BY OneMore
<1>2. /\ IsEntry(line, f) => Entries(t, f) = Entries(s, f) \cup {n + 1}
      /\ ~IsEntry(line, f) => Entries(t, f) = Entries(s, f)
      /\ Entries(s, f) \in SUBSET (1 .. n)
  BY EntriesAppend
<1>3. CASE Entries(s, f) = {} /\ IsEntry(line, f)
  <2>1. Entries(t, f) = {n + 1}
    BY <1>2, <1>3
  <2>2. Min(Entries(t, f)) = n + 1
    BY <1>1, <2>1, MinIs
  <2>3. EndsAt(t, n + 1, n + 1)
    BY <1>1 DEF EndsAt
  <2>4. Open(t, f)
    BY <1>1, <2>1, <2>2, <2>3 DEF Open
  <2>5. GetDesc(t, f) = [j \in 1 .. (n + 1) - (n + 1) + 1 |-> t[(n + 1) + j - 1].text]
    <3> PICK k : k = n + 1
      OBVIOUS
    <3>1. t \in Seq(L) /\ Entries(t, f) # {} /\ k = Min(Entries(t, f)) /\ EndsAt(t, k, k)
      BY <1>1, <2>1, <2>2, <2>3
    <3>2. GetDesc(t, f) = TextsOf(t, k, k)
      BY <3>1, DescIs
    <3> QED
      BY <3>2 DEF TextsOf
  <2>6. (n + 1) - (n + 1) + 1 = 1 /\ (n + 1) + 1 - 1 = n + 1
    BY <1>1
  <2>7. [j \in 1 .. (n + 1) - (n + 1) + 1 |-> t[(n + 1) + j - 1].text] = <<line.text>>
    BY <1>1, <2>6
  <2>8. line.mark = "word"
    BY <1>3 DEF IsEntry
  <2> QED
    BY <1>3, <2>4, <2>5, <2>7, <2>8
<1>4. CASE Entries(s, f) = {} /\ ~IsEntry(line, f)
  <2>1. Entries(t, f) = {}
    BY <1>2, <1>4
  <2> QED
    BY <1>4, <2>1 DEF GetDesc, Open
<1>5. CASE Entries(s, f) # {}
  <2> PICK k : k = Min(Entries(s, f))
    OBVIOUS
  <2>1. k \in Entries(s, f) /\ k \in 1 .. n /\ \A e \in Entries(s, f) : k <= e
    BY <1>5, FirstEntry
  <2>2. Min(Entries(t, f)) = k /\ Entries(t, f) # {}
    <3>1. k \in Entries(t, f) /\ Entries(t, f) \in SUBSET Nat
      BY <1>1, <1>2, <2>1
    <3>2. ASSUME NEW e \in Entries(t, f) PROVE k <= e
      <4>1. e \in Entries(s, f) \/ e = n + 1
        BY <1>2
      <4> QED
        BY <1>1, <2>1, <4>1
    <3> QED
      BY <3>1, <3>2, MinIs
  <2>3. PICK last : EndsAt(s, k, last)
    BY <1>1, <2>1, DescEnd
  <2>4. last \in Nat /\ k <= last /\ last <= n /\ k \in Nat /\ last \in k .. n + 1 /\ k >= 1
    BY <1>1, <2>1, <2>3 DEF EndsAt
  <2>5. GetDesc(s, f) = [j \in 1 .. last - k + 1 |-> s[k + j - 1].text]
    BY <1>5, <2>3, DescIs DEF TextsOf
  <2>6. ASSUME NEW e, EndsAt(t, k, e)
        PROVE  GetDesc(t, f) = TextsOf(t, k, e)
    <3>1. t \in Seq(L) /\ Entries(t, f) # {} /\ k = Min(Entries(t, f))
      BY <1>1, <2>2
    <3> QED
      BY <2>6, <3>1, DescIs
  <2>7. \A j \in 1 .. last - k + 1 : t[k + j - 1] = s[k + j - 1]
    <3> SUFFICES ASSUME NEW j \in 1 .. last - k + 1 PROVE t[k + j - 1] = s[k + j - 1]
      OBVIOUS
    <3>1. k + j - 1 \in 1 .. n
      BY <1>1, <2>4
    <3> QED
      BY <1>1, <3>1
  <2>8. last # n \/ line.mark = "word" => GetDesc(t, f) = GetDesc(s, f) /\ ~Open(t, f)
    <3> SUFFICES ASSUME last # n \/ line.mark = "word"
                 PROVE  GetDesc(t, f) = GetDesc(s, f) /\ ~Open(t, f)
      OBVIOUS
    <3>1. \A e \in k + 1 .. last : t[e].mark # "word"
      <4> SUFFICES ASSUME NEW e \in k + 1 .. last PROVE t[e].mark # "word"
        OBVIOUS
      <4>1. e \in 1 .. n /\ s[e].mark # "word"
        BY <1>1, <2>3, <2>4 DEF EndsAt
      <4> QED
        BY <1>1, <4>1
    <3>2. t[last + 1].mark = "word"
      <4>1. CASE last = n
        BY <1>1, <4>1
      <4>2. CASE last # n
        <5>1. last + 1 \in 1 .. n /\ s[last + 1].mark = "word"
          BY <1>1, <2>3, <2>4, <4>2 DEF EndsAt
        <5> QED
          BY <1>1, <5>1
      <4> QED
        BY <4>1, <4>2
    <3>3. EndsAt(t, k, last)
      BY <1>1, <2>4, <3>1, <3>2 DEF EndsAt
    <3>4. ~EndsAt(t, k, n + 1)
      <4>1. last + 1 \in k + 1 .. n + 1
        BY <1>1, <2>4
      <4> QED
        BY <3>2, <4>1 DEF EndsAt
    <3> QED
      BY <1>1, <2>2, <2>5, <2>6, <2>7, <3>3, <3>4, ZenonT(60) DEF Open, TextsOf
  <2>9. CASE line.mark = "word"
    BY <1>5, <2>8, <2>9
  <2>10. CASE line.mark # "word" /\ ~Open(s, f)
    <3>1. last # n
      BY <1>5, <2>3, <2>10 DEF Open
    <3>2. GetDesc(t, f) = GetDesc(s, f) /\ ~Open(t, f)
      BY <2>8, <3>1, ZenonT(60)
    <3> QED
      BY <1>5, <2>10, <3>2
  <2>11. CASE line.mark # "word" /\ Open(s, f)
    <3>1. EndsAt(s, k, n)
      BY <2>11 DEF Open
    <3>2. GetDesc(s, f) = [j \in 1 .. n - k + 1 |-> s[k + j - 1].text]
      BY <1>5, <3>1, DescIs DEF TextsOf
    <3>3. EndsAt(t, k, n + 1)
      <4>1. ASSUME NEW e \in k + 1 .. n + 1 PROVE t[e].mark # "word"
        <5>1. e \in k + 1 .. n \/ e = n + 1
          BY <1>1, <2>4
        <5>2. e \in k + 1 .. n => e \in 1 .. n /\ s[e].mark # "word"
          BY <1>1, <2>4, <3>1 DEF EndsAt
        <5> QED
          BY <1>1, <2>11, <5>1, <5>2
      <4> QED
        BY <1>1, <2>4, <4>1 DEF EndsAt
    <3>4. Open(t, f)
      BY <1>1, <2>2, <3>3 DEF Open
    <3>5. GetDesc(t, f) = [j \in 1 .. (n + 1) - k + 1 |-> t[k + j - 1].text]
      BY <2>6, <3>3 DEF TextsOf
    <3> PICK m : m = n - k + 1
      OBVIOUS
    <3>6. m \in Nat /\ (n + 1) - k + 1 = m + 1 /\ k + (m + 1) - 1 = n + 1
      BY <1>1, <2>4, SMTT(60)
    <3>7. \A j \in 1 .. m : t[k + j - 1].text = s[k + j - 1].text
      <4> SUFFICES ASSUME NEW j \in 1 .. m PROVE t[k + j - 1] = s[k + j - 1]
        OBVIOUS
      <4>0. n \in Int /\ k \in Int /\ k >= 1 /\ j \in Int /\ j >= 1 /\ j <= n - k + 1
        BY <1>1, <2>4, <3>6
      <4>1. k + j - 1 \in 1 .. n
        BY <4>0
      <4> QED
        BY <1>1, <4>1
    <3>8. [j \in 1 .. m + 1 |-> t[k + j - 1].text]
            = Append([j \in 1 .. m |-> s[k + j - 1].text], line.text)
      <4> DEFINE d == [j \in 1 .. m |-> s[k + j - 1].text]
                 e == [j \in 1 .. m + 1 |-> t[k + j - 1].text]
      <4>1. /\ DOMAIN e = 1 .. m + 1 /\ DOMAIN d = 1 .. m
            /\ \A j \in 1 .. m : d[j] = s[k + j - 1].text
            /\ \A j \in 1 .. m + 1 : e[j] = t[k + j - 1].text
        OBVIOUS
      <4>8. Len(d) = m
        <5> HIDE DEF d
        <5> QED
          BY <3>6, <4>1
      <4>9. d \in Seq({d[j] : j \in 1 .. m})
        <5>1. d = [j \in 1 .. m |-> d[j]]
          OBVIOUS
        <5> HIDE DEF d
        <5> QED
          BY <3>6, <5>1, SMTT(60)
      <4>2. e[m + 1] = line.text
        BY <1>1, <3>6
      <4>3. \A j \in 1 .. m : e[j] = d[j]
        <5> SUFFICES ASSUME NEW j \in 1 .. m PROVE e[j] = d[j]
          OBVIOUS
        <5>1. j \in 1 .. m + 1
          BY <3>6
        <5> HIDE DEF d, e
        <5> QED
          BY <3>7, <4>1, <5>1, ZenonT(60)
      <4> HIDE DEF d, e
      <4>4. e = [j \in 1 .. m + 1 |-> e[j]]
        BY <4>1 DEF e
      <4>5. Append(d, line.text) = [j \in 1 .. m + 1 |-> IF j \in 1 .. m THEN d[j] ELSE line.text]
        BY <3>6, <4>1, <4>8, <4>9
      <4>6. \A j \in 1 .. m + 1 : e[j] = IF j \in 1 .. m THEN d[j] ELSE line.text
        BY <3>6, <4>2, <4>3
      <4>7. e = Append(d, line.text)
        BY <4>4, <4>5, <4>6
      <4> QED
        BY <4>7 DEF d, e
    <3>9. GetDesc(t, f) = [j \in 1 .. m + 1 |-> t[k + j - 1].text]
      BY <3>5, <3>6
    <3>10. GetDesc(s, f) = [j \in 1 .. m |-> s[k + j - 1].text]
      BY <3>2
    <3> QED
      BY <1>5, <2>11, <3>4, <3>8, <3>9, <3>10
  <2> QED
    BY <2>9, <2>10, <2>11
<1> QED
  BY <1>3, <1>4, <1>5

-----------------------------------------------------------------------------
(* What readers find of a description, Written. *)

KeepText(kept, text) == IF text = NoText THEN kept ELSE Append(kept, text)

IsWriting(it, desc) ==
  it = [S \in SUBSET DOMAIN desc |->
          IF S = {} THEN <<>> ELSE KeepText(it[S \ {Max(S)}], desc[Max(S)])]

\* What is kept of the first k texts.
IsKept(f, desc) ==
  /\ f \in [0 .. Len(desc) -> Seq(Texts)] /\ f[0] = <<>>
  /\ Written("blank", desc) = f[Len(desc)]
  /\ \A k \in 1 .. Len(desc) : f[k] = KeepText(f[k - 1], desc[k])

LEMMA WritingFold ==
  ASSUME NEW desc \in Seq(Texts)
  PROVE  \E f : IsKept(f, desc)
<1> PICK n : n = Len(desc)
  OBVIOUS
<1> DEFINE X == Seq(Texts)
           b == <<>>
           F == [p \in (1 .. n) \X X |-> KeepText(p[2], desc[p[1]])]
<1>1. n \in Nat /\ DOMAIN desc = 1 .. n /\ (\A k \in 1 .. n : desc[k] \in Texts) /\ b \in X
  OBVIOUS
<1>2. \A x \in X, k \in 1 .. n : F[<<k, x>>] = KeepText(x, desc[k])
  OBVIOUS
<1>3. F \in [(1 .. n) \X X -> X]
  <2>1. \A p \in (1 .. n) \X X : KeepText(p[2], desc[p[1]]) \in X
    BY <1>1 DEF KeepText
  <2> QED
    BY <2>1
<1> HIDE DEF F, b, X
<1>4. PICK it : IsFold(it, n, X, b, F)
  BY <1>1, <1>3, FoldExists
<1>5. ASSUME NEW S \in SUBSET (1 .. n), S # {}
      PROVE  it[S] = KeepText(it[S \ {Max(S)}], desc[Max(S)])
  <2>1. Max(S) \in 1 .. n
    BY <1>1, <1>5, MaxIn
  <2>2. it[S \ {Max(S)}] \in X /\ it[S] = F[<<Max(S), it[S \ {Max(S)}]>>]
    BY <1>4, <1>5 DEF IsFold
  <2> QED
    BY <1>2, <2>1, <2>2
<1>6. it[{}] = b /\ it = [S \in SUBSET (1 .. n) |-> it[S]]
  BY <1>4 DEF IsFold
<1>7. IsWriting(it, desc)
  BY <1>1, <1>5, <1>6 DEF IsWriting, b
<1> DEFINE run == CHOOSE r : IsWriting(r, desc)
<1>8. IsWriting(run, desc)
  BY <1>7
<1>9. Written("blank", desc) = run[DOMAIN desc]
  BY DEF Written, FoldLeft, MapThenFoldSet, IsWriting, KeepText
<1> HIDE DEF run
<1>10. run[{}] = b
  BY <1>8 DEF IsWriting, b
<1>11. ASSUME NEW k \in 1 .. n, run[1 .. k - 1] \in X
       PROVE  run[1 .. k] = F[<<k, run[1 .. k - 1]>>]
  <2>1. /\ Max(1 .. k) = k /\ (1 .. k) \ {k} = 1 .. k - 1 /\ 1 .. k # {}
        /\ 1 .. k \in SUBSET (1 .. n)
    BY <1>1, MaxUpTo, SMTT(60)
  <2>2. run[1 .. k] = KeepText(run[1 .. k - 1], desc[k])
    BY <1>1, <1>8, <2>1 DEF IsWriting
  <2> QED
    BY <1>2, <1>11, <2>2
<1>12. Follows(run, n, X, b, F)
  BY <1>10, <1>11 DEF Follows
<1>13. PICK f : IsPartial(f, n, X, b, F, run)
  BY <1>1, <1>3, <1>12, FoldIs
<1>14. /\ f \in [0 .. n -> X] /\ f[0] = b /\ f[n] = run[1 .. n]
       /\ \A k \in 1 .. n : f[k] = F[<<k, f[k - 1]>>]
  BY <1>13 DEF IsPartial
<1>15. ASSUME NEW k \in 1 .. n PROVE f[k] = KeepText(f[k - 1], desc[k])
  <2>1. k - 1 \in 0 .. n
    BY <1>1
  <2> QED
    BY <1>2, <1>14, <2>1
<1> QED
  BY <1>1, <1>9, <1>14, <1>15, ZenonT(60) DEF X, b, IsKept

(* One more text. *)
LEMMA WrittenAppend ==
  ASSUME NEW mark, NEW d \in Seq(Texts), NEW t \in Texts
  PROVE  /\ Written(mark, d) \in Seq(Texts) /\ Written(mark, <<>>) = <<>>
         /\ Written(mark, Append(d, t)) =
              IF mark = "blank" /\ t = NoText THEN Written(mark, d)
              ELSE Append(Written(mark, d), t)
<1>1. CASE mark # "blank"
  <2>1. \A u : Written(mark, u) = u
    BY <1>1, Zenon DEF Written
  <2>2. <<>> \in Seq(Texts)
    OBVIOUS
  <2> QED
    BY <1>1, <2>1, <2>2
<1>2. CASE mark = "blank"
  <2> PICK n : n = Len(d)
    OBVIOUS
  <2> PICK e : e = Append(d, t)
    OBVIOUS
  <2>1. n \in Nat /\ e \in Seq(Texts) /\ Len(e) = n + 1 /\ e[n + 1] = t /\ \A k \in 1 .. n : e[k] = d[k]
    OBVIOUS
  <2>2. PICK f : IsKept(f, d)
    BY WritingFold
  <2>3. PICK h : IsKept(h, e)
    BY <2>1, WritingFold
  <2> DEFINE T == {k \in Nat : k <= n => h[k] = f[k]}
  <2>4. 0 \in T
    BY <2>2, <2>3 DEF IsKept
  <2>5. ASSUME NEW k \in Nat, k \in T PROVE k + 1 \in T
    <3> SUFFICES ASSUME k + 1 <= n PROVE h[k + 1] = f[k + 1]
      OBVIOUS
    <3>1. k + 1 \in 1 .. n /\ k + 1 \in 1 .. n + 1 /\ (k + 1) - 1 = k /\ h[k] = f[k]
      BY <2>1, <2>5
    <3>2. f[k + 1] = KeepText(f[k], d[k + 1])
      BY <2>2, <3>1 DEF IsKept
    <3>3. h[k + 1] = KeepText(h[k], e[k + 1])
      BY <2>1, <2>3, <3>1 DEF IsKept
    <3> QED
      BY <2>1, <3>1, <3>2, <3>3
  <2>6. \A k \in Nat : k \in T
    <3> HIDE DEF T
    <3> QED
      BY <2>4, <2>5, NatInduct
  <2>7. h[n] = f[n]
    <3>1. n \in T
      <4> HIDE DEF T
      <4> QED
        BY <2>1, <2>6
    <3> QED
      BY <2>1, <3>1
  <2>8. Written("blank", d) = f[n] /\ f[n] \in Seq(Texts)
    BY <2>1, <2>2 DEF IsKept
  <2>9. Written("blank", e) = KeepText(h[n], t)
    <3>1. n + 1 \in 1 .. n + 1 /\ (n + 1) - 1 = n
      BY <2>1
    <3> QED
      BY <2>1, <2>3, <3>1 DEF IsKept
  <2>10. Written("blank", <<>>) = <<>>
    <3>1. <<>> \in Seq(Texts) /\ Len(<<>>) = 0
      OBVIOUS
    <3>2. PICK g : IsKept(g, <<>>)
      BY <3>1, WritingFold
    <3> QED
      BY <3>1, <3>2 DEF IsKept
  <2> QED
    BY <1>2, <2>7, <2>8, <2>9, <2>10 DEF KeepText
<1> QED
  BY <1>1, <1>2

LEMMA ConcatAppend ==
  \A d, u \in Seq(Texts) : \A t \in Texts : Append(d \o u, t) = d \o Append(u, t)
BY SMTT(60)

LEMMA RangeAppend ==
  ASSUME NEW E, NEW s \in Seq(E), NEW e \in E
  PROVE  Range(Append(s, e)) = Range(s) \cup {e} /\ Range(<<>>) = {}
<1>1. Range(<<>>) = {}
  BY DEF Range
<1>2. /\ Len(s) \in Nat /\ DOMAIN s = 1 .. Len(s) /\ DOMAIN Append(s, e) = 1 .. Len(s) + 1
      /\ Append(s, e)[Len(s) + 1] = e /\ \A k \in 1 .. Len(s) : Append(s, e)[k] = s[k]
  BY OneMore
<1>3. \A k : k \in 1 .. Len(s) + 1 <=> k \in 1 .. Len(s) \/ k = Len(s) + 1
  BY <1>2
<1>4. \A x : x \in Range(Append(s, e)) <=> x \in Range(s) \/ x = e
  BY <1>2, <1>3 DEF Range
<1> QED
  BY <1>1, <1>4

(* An empty first text is not found where lines start with a blank. *)
LEMMA WrittenPrefix ==
  ASSUME NEW d \in Seq(Texts)
  PROVE  Written("blank", <<NoText>> \o d) = Written("blank", d)
<1> DEFINE W(u) == Written("blank", u)
           T == {u \in Seq(Texts) : W(<<NoText>> \o u) = W(u)}
<1>0. NoText \in Texts /\ <<NoText>> \in Seq(Texts)
  BY DescriptionsAssumption
<1>1. <<>> \in T
  <2>1. <<NoText>> \o <<>> = Append(<<>>, NoText) /\ <<>> \in Seq(Texts)
    BY <1>0
  <2>2. W(Append(<<>>, NoText)) = W(<<>>)
    BY <1>0, <2>1, WrittenAppend
  <2> QED
    BY <2>1, <2>2
<1>2. ASSUME NEW u \in Seq(Texts), NEW t \in Texts, u \in T PROVE Append(u, t) \in T
  <2> PICK c : c = <<NoText>> \o u
    OBVIOUS
  <2>1. c \in Seq(Texts) /\ <<NoText>> \o Append(u, t) = Append(c, t) /\ Append(u, t) \in Seq(Texts)
    BY <1>0, ConcatAppend
  <2>2. W(c) = W(u)
    BY <1>2
  <2>3. W(Append(c, t)) = W(Append(u, t))
    <3>1. \A v \in Seq(Texts) :
            Written("blank", Append(v, t)) =
              IF t = NoText THEN Written("blank", v) ELSE Append(Written("blank", v), t)
      BY WrittenAppend
    <3> QED
      BY <2>1, <2>2, <3>1
  <2> HIDE DEF W
  <2> QED
    BY <2>1, <2>3
<1>3. \A u \in Seq(Texts) : u \in T
  <2> HIDE DEF T
  <2> QED
    BY <1>1, <1>2, SeqInduct
<1> QED
  BY <1>3

(* No other text is lost. *)
LEMMA WrittenTexts ==
  ASSUME NEW d \in Seq(Texts)
  PROVE  Range(Written("blank", d)) = Range(d) \ {NoText}
<1> DEFINE W(u) == Written("blank", u)
           T == {u \in Seq(Texts) : Range(W(u)) = Range(u) \ {NoText}}
<1>1. <<>> \in T
  <2>1. W(<<>>) = <<>> /\ <<>> \in Seq(Texts)
    <3>1. <<>> \in Seq(Texts) /\ NoText \in Texts
      BY DescriptionsAssumption
    <3> QED
      BY <3>1, WrittenAppend
  <2>2. Range(<<>>) = {}
    BY DEF Range
  <2> HIDE DEF W
  <2> QED
    BY <2>1, <2>2
<1>2. ASSUME NEW u \in Seq(Texts), NEW t \in Texts, u \in T PROVE Append(u, t) \in T
  <2> PICK w : w = W(u)
    OBVIOUS
  <2> PICK v : v = W(Append(u, t))
    OBVIOUS
  <2>1. w \in Seq(Texts) /\ v = IF t = NoText THEN w ELSE Append(w, t)
    BY WrittenAppend
  <2>2. Range(Append(u, t)) = Range(u) \cup {t} /\ Range(Append(w, t)) = Range(w) \cup {t}
    BY <2>1, RangeAppend
  <2>3. Range(w) = Range(u) \ {NoText} /\ Append(u, t) \in Seq(Texts)
    BY <1>2
  <2>4. Range(v) = Range(Append(u, t)) \ {NoText}
    BY <2>1, <2>2, <2>3
  <2> HIDE DEF W
  <2> QED
    BY <2>3, <2>4
<1>3. \A u \in Seq(Texts) : u \in T
  <2> HIDE DEF T
  <2> QED
    BY <1>1, <1>2, SeqInduct
<1> QED
  BY <1>3

-----------------------------------------------------------------------------
(* removeDesc. *)

(* The first k lines. *)
LEMMA FirstLines ==
  ASSUME NEW L, NEW s \in Seq(L)
  PROVE  /\ SubSeq(s, 1, 0) = <<>> /\ SubSeq(s, 1, Len(s)) = s
         /\ \A k \in 1 .. Len(s) :
              /\ SubSeq(s, 1, k - 1) \in Seq(L) /\ s[k] \in L
              /\ SubSeq(s, 1, k) = Append(SubSeq(s, 1, k - 1), s[k])
<1>1. SubSeq(s, 1, 0) = <<>> /\ SubSeq(s, 1, Len(s)) = s /\ Len(s) \in Nat
  OBVIOUS
<1>2. ASSUME NEW k \in 1 .. Len(s)
      PROVE  /\ SubSeq(s, 1, k - 1) \in Seq(L) /\ s[k] \in L
             /\ SubSeq(s, 1, k) = Append(SubSeq(s, 1, k - 1), s[k])
  OBVIOUS
<1> QED
  BY <1>1, <1>2

CopyLine(kept, line, file) ==
  IF kept.flag /\ line.mark \in Marks THEN kept
  ELSE IF line.word = file THEN [lines |-> kept.lines, flag |-> TRUE]
  ELSE IF IsBlank(line) THEN [lines |-> kept.lines, flag |-> FALSE]
  ELSE [lines |-> Append(kept.lines, line), flag |-> FALSE]

KeptLines(mark) == [lines : Seq(BbsOf(mark)), flag : BOOLEAN]

IsRemoval(it, flist, file) ==
  it = [S \in SUBSET DOMAIN flist |->
          IF S = {} THEN [lines |-> <<>>, flag |-> FALSE]
          ELSE CopyLine(it[S \ {Max(S)}], flist[Max(S)], file)]

LEMMA CopyLineType ==
  ASSUME NEW mark, NEW kept \in KeptLines(mark), NEW line \in BbsOf(mark), NEW file
  PROVE  CopyLine(kept, line, file) \in KeptLines(mark)
<1>1. kept.lines \in Seq(BbsOf(mark)) /\ kept.flag \in BOOLEAN
      /\ kept = [lines |-> kept.lines, flag |-> kept.flag]
  BY DEF KeptLines
<1>3. [lines |-> kept.lines, flag |-> TRUE] \in KeptLines(mark)
  BY <1>1 DEF KeptLines
<1>4. [lines |-> Append(kept.lines, line), flag |-> FALSE] \in KeptLines(mark)
  BY <1>1 DEF KeptLines
<1>5. [lines |-> kept.lines, flag |-> FALSE] \in KeptLines(mark)
  BY <1>1 DEF KeptLines
<1> QED
  BY <1>3, <1>4, <1>5 DEF CopyLine

LEMMA RemovalFold ==
  ASSUME NEW mark, NEW flist \in Seq(BbsOf(mark)), NEW file
  PROVE  \E f \in [0 .. Len(flist) -> KeptLines(mark)] :
           /\ f[0] = [lines |-> <<>>, flag |-> FALSE]
           /\ RemoveDesc(flist, file) = f[Len(flist)].lines
           /\ \A k \in 1 .. Len(flist) : f[k] = CopyLine(f[k - 1], flist[k], file)
<1> PICK n : n = Len(flist)
  OBVIOUS
<1> DEFINE X == KeptLines(mark)
           b == [lines |-> <<>>, flag |-> FALSE]
           F == [p \in (1 .. n) \X X |-> CopyLine(p[2], flist[p[1]], file)]
<1>1. n \in Nat /\ DOMAIN flist = 1 .. n /\ (\A k \in 1 .. n : flist[k] \in BbsOf(mark)) /\ b \in X
  BY DEF KeptLines
<1>2. \A x \in X, k \in 1 .. n : F[<<k, x>>] = CopyLine(x, flist[k], file)
  OBVIOUS
<1>3. F \in [(1 .. n) \X X -> X]
  <2>1. \A p \in (1 .. n) \X X : CopyLine(p[2], flist[p[1]], file) \in X
    BY <1>1, CopyLineType
  <2> QED
    BY <2>1
<1> HIDE DEF F, b
<1>4. PICK it : IsFold(it, n, X, b, F)
  BY <1>1, <1>3, FoldExists
<1>5. ASSUME NEW S \in SUBSET (1 .. n), S # {}
      PROVE  it[S] = CopyLine(it[S \ {Max(S)}], flist[Max(S)], file)
  <2>1. Max(S) \in 1 .. n
    BY <1>1, <1>5, MaxIn
  <2>2. it[S \ {Max(S)}] \in X /\ it[S] = F[<<Max(S), it[S \ {Max(S)}]>>]
    BY <1>4, <1>5 DEF IsFold
  <2> QED
    BY <1>2, <2>1, <2>2
<1>6. it[{}] = b /\ it = [S \in SUBSET (1 .. n) |-> it[S]]
  BY <1>4 DEF IsFold
<1>7. IsRemoval(it, flist, file)
  BY <1>1, <1>5, <1>6 DEF IsRemoval, b
<1> DEFINE run == CHOOSE r : IsRemoval(r, flist, file)
<1>8. IsRemoval(run, flist, file)
  BY <1>7
<1>9. RemoveDesc(flist, file) = run[DOMAIN flist].lines
  BY DEF RemoveDesc, FoldLeft, MapThenFoldSet, IsRemoval, CopyLine
<1> HIDE DEF run
<1>10. run[{}] = b
  BY <1>8 DEF IsRemoval, b
<1>11. ASSUME NEW k \in 1 .. n, run[1 .. k - 1] \in X
       PROVE  run[1 .. k] = F[<<k, run[1 .. k - 1]>>]
  <2>1. /\ Max(1 .. k) = k /\ (1 .. k) \ {k} = 1 .. k - 1 /\ 1 .. k # {}
        /\ 1 .. k \in SUBSET (1 .. n)
    BY <1>1, MaxUpTo, SMTT(60)
  <2>2. run[1 .. k] = CopyLine(run[1 .. k - 1], flist[k], file)
    BY <1>1, <1>8, <2>1 DEF IsRemoval
  <2> QED
    BY <1>2, <1>11, <2>2
<1> HIDE DEF X
<1>12. Follows(run, n, X, b, F)
  BY <1>10, <1>11 DEF Follows
<1>13. PICK f : IsPartial(f, n, X, b, F, run)
  BY <1>1, <1>3, <1>12, FoldIs
<1>14. f \in [0 .. n -> X] /\ f[0] = b /\ f[n] = run[1 .. n] /\ \A k \in 1 .. n : f[k] = F[<<k, f[k - 1]>>]
  BY <1>13 DEF IsPartial
<1>15. ASSUME NEW k \in 1 .. n PROVE f[k] = CopyLine(f[k - 1], flist[k], file)
  <2>1. k - 1 \in 0 .. n
    BY <1>1
  <2> QED
    BY <1>2, <1>14, <2>1
<1> QED
  BY <1>1, <1>9, <1>13, <1>14, <1>15, ZenonT(60) DEF X, b

Unique(s, f) == \A k, l \in Entries(s, f) : k = l

LEMMA UniqueAppend ==
  ASSUME NEW L, NEW s \in Seq(L), NEW line \in L, NEW f
  PROVE  /\ IsEntry(line, f) => (Unique(Append(s, line), f) <=> Entries(s, f) = {})
         /\ ~IsEntry(line, f) => (Unique(Append(s, line), f) <=> Unique(s, f))
         /\ Entries(Append(s, line), f) # {} <=> Entries(s, f) # {} \/ IsEntry(line, f)
<1>1. /\ IsEntry(line, f) => Entries(Append(s, line), f) = Entries(s, f) \cup {Len(s) + 1}
      /\ ~IsEntry(line, f) => Entries(Append(s, line), f) = Entries(s, f)
      /\ Entries(s, f) \in SUBSET (1 .. Len(s))
  BY EntriesAppend
<1>2. Len(s) + 1 \notin Entries(s, f)
  BY <1>1
<1> QED
  BY <1>1, <1>2 DEF Unique

(* No line that continues the description of g begins with the name. *)
Safe(s, g, mark, file) ==
  mark = "blank" => \A k \in DOMAIN GetDesc(s, g) : k > 1 => FirstWord[GetDesc(s, g)[k]] # file

LEMMA LineText ==
  ASSUME NEW mark \in Marks
  PROVE  \A line \in BbsOf(mark) : line.text \in Texts
BY LineKinds

LEMMA SafeAppend ==
  ASSUME NEW mark \in Marks, NEW s \in Seq(BbsOf(mark)), NEW line \in BbsOf(mark), NEW g, NEW file,
         Safe(Append(s, line), g, mark, file)
  PROVE  /\ Safe(s, g, mark, file)
         /\ line.mark # "word" /\ Open(s, g) /\ mark = "blank" => FirstWord[line.text] # file
<1> PICK d : d = GetDesc(s, g)
  OBVIOUS
<1> PICK e : e = GetDesc(Append(s, line), g)
  OBVIOUS
<1>1. d \in Seq(Texts) /\ (d # <<>> <=> Entries(s, g) # {})
  BY LineText, GetDescType
<1>2. mark = "blank" => \A k \in DOMAIN e : k > 1 => FirstWord[e[k]] # file
  BY DEF Safe
<1>3. CASE IsEntry(line, g) /\ Entries(s, g) = {}
  <2>1. d = <<>> /\ line.mark = "word"
    BY <1>1, <1>3 DEF IsEntry
  <2> QED
    BY <2>1 DEF Safe
<1>4. CASE line.mark = "word" /\ (Entries(s, g) # {} \/ ~IsEntry(line, g))
  <2>1. e = d
    BY <1>4, DescAppend
  <2> QED
    BY <1>2, <1>4, <2>1 DEF Safe
<1>5. CASE line.mark # "word" /\ Open(s, g)
  <2>1. e = Append(d, line.text)
    BY <1>5, DescAppend
  <2>2. Len(d) \in Nat /\ Len(d) > 0 /\ DOMAIN d = 1 .. Len(d)
    BY <1>1, <1>5 DEF Open
  <2>3. /\ DOMAIN e = 1 .. Len(d) + 1 /\ e[Len(d) + 1] = line.text
        /\ \A k \in 1 .. Len(d) : e[k] = d[k]
    BY <1>1, <2>1, LineText, OneMore
  <2>4. Len(d) + 1 \in DOMAIN e /\ Len(d) + 1 > 1
    BY <2>2, <2>3
  <2>5. \A k \in DOMAIN d : k \in DOMAIN e /\ e[k] = d[k]
    BY <2>2, <2>3
  <2> QED
    BY <1>2, <2>3, <2>4, <2>5 DEF Safe
<1>6. CASE line.mark # "word" /\ ~Open(s, g)
  <2>1. e = d
    BY <1>6, DescAppend
  <2> QED
    BY <1>2, <1>6, <2>1 DEF Safe
<1>7. line.mark = "word" \/ line.mark # "word"
  OBVIOUS
<1> QED
  BY <1>3, <1>4, <1>5, <1>6

(* How the lines that are kept of the lines p correspond to p. *)
Corresponds(p, kept, g, mark, file) ==
  /\ Entries(kept.lines, file) = {}
  /\ Entries(kept.lines, g) # {} <=> Entries(p, g) # {}
  /\ Unique(p, g) => Unique(kept.lines, g)
  /\ Safe(p, g, mark, file) =>
       /\ Written(mark, GetDesc(kept.lines, g)) = Written(mark, GetDesc(p, g))
       /\ Open(p, g) <=> Open(kept.lines, g) /\ ~kept.flag

LEMMA CopyCorresponds ==
  ASSUME NEW mark \in Marks, NEW p \in Seq(BbsOf(mark)), NEW kept \in KeptLines(mark),
         NEW line \in BbsOf(mark), NEW g \in Files, NEW file \in Files, g # file,
         Corresponds(p, kept, g, mark, file)
  PROVE  Corresponds(Append(p, line), CopyLine(kept, line, file), g, mark, file)
<1> PICK s : s = kept.lines
  OBVIOUS
<1> PICK new : new = CopyLine(kept, line, file)
  OBVIOUS
<1> PICK q : q = Append(p, line)
  OBVIOUS
<1>1. s \in Seq(BbsOf(mark)) /\ kept.flag \in BOOLEAN
  BY DEF KeptLines
<1>2. /\ IsEntry(line, g) => (Unique(q, g) <=> Entries(p, g) = {})
      /\ ~IsEntry(line, g) => (Unique(q, g) <=> Unique(p, g))
      /\ Entries(q, g) # {} <=> Entries(p, g) # {} \/ IsEntry(line, g)
  BY UniqueAppend
<1>3. /\ Entries(s, file) = {}
      /\ Entries(s, g) # {} <=> Entries(p, g) # {}
      /\ Unique(p, g) => Unique(s, g)
      /\ Safe(p, g, mark, file) =>
           /\ Written(mark, GetDesc(s, g)) = Written(mark, GetDesc(p, g))
           /\ Open(p, g) <=> Open(s, g) /\ ~kept.flag
  BY DEF Corresponds
<1>4. Safe(q, g, mark, file) =>
        /\ Safe(p, g, mark, file)
        /\ line.mark # "word" /\ Open(p, g) /\ mark = "blank" => FirstWord[line.text] # file
  BY SafeAppend
<1>5. \/ line.mark = "word" /\ line.word \in Files
      \/ /\ line.mark \in Marks /\ line.mark # "word"
         /\ line.word = IF mark = "blank" THEN FirstWord[line.text] ELSE NoName
  BY LineKinds
<1>6. CASE line.mark = "word" /\ line.word = file
  <2>1. new.lines = s /\ new.flag = TRUE /\ ~IsEntry(line, g)
    BY <1>6 DEF CopyLine, IsEntry, Marks
  <2>2. GetDesc(q, g) = GetDesc(p, g) /\ ~Open(q, g)
    BY <1>6, <2>1, DescAppend
  <2> QED
    BY <1>2, <1>3, <1>4, <2>1, <2>2 DEF Corresponds
<1>7. CASE line.mark = "word" /\ line.word # file
  <2>1. new.lines = Append(s, line) /\ new.flag = FALSE /\ ~IsEntry(line, file)
    BY <1>7 DEF CopyLine, IsEntry, IsBlank, Marks
  <2>2. /\ IsEntry(line, g) => (Unique(new.lines, g) <=> Entries(s, g) = {})
        /\ ~IsEntry(line, g) => (Unique(new.lines, g) <=> Unique(s, g))
        /\ Entries(new.lines, g) # {} <=> Entries(s, g) # {} \/ IsEntry(line, g)
    BY <1>1, <2>1, UniqueAppend
  <2>3. Entries(new.lines, file) = {}
    BY <1>1, <1>3, <2>1, EntriesAppend
  <2>4. CASE IsEntry(line, g) /\ Entries(p, g) = {}
    <3>1. GetDesc(q, g) = <<line.text>> /\ Open(q, g)
      BY <2>4, DescAppend
    <3>2. GetDesc(new.lines, g) = <<line.text>> /\ Open(new.lines, g)
      BY <1>1, <1>3, <2>1, <2>4, DescAppend
    <3> QED
      BY <1>2, <1>3, <2>1, <2>2, <2>3, <2>4, <3>1, <3>2 DEF Corresponds
  <2>5. CASE ~(IsEntry(line, g) /\ Entries(p, g) = {})
    <3>1. GetDesc(q, g) = GetDesc(p, g) /\ ~Open(q, g)
      BY <1>7, <2>5, DescAppend
    <3>2. GetDesc(new.lines, g) = GetDesc(s, g) /\ ~Open(new.lines, g)
      BY <1>1, <1>3, <1>7, <2>1, <2>5, DescAppend
    <3> QED
      BY <1>2, <1>3, <1>4, <2>1, <2>2, <2>3, <2>5, <3>1, <3>2 DEF Corresponds
  <2> QED
    BY <2>4, <2>5
<1>8. CASE line.mark # "word"
  <2>1. ~IsEntry(line, g) /\ ~IsEntry(line, file) /\ line.mark \in Marks
    BY <1>5, <1>8 DEF IsEntry
  <2>2. /\ Open(p, g) => GetDesc(q, g) = Append(GetDesc(p, g), line.text) /\ Open(q, g)
        /\ ~Open(p, g) => GetDesc(q, g) = GetDesc(p, g) /\ ~Open(q, g)
    BY <1>8, DescAppend
  <2>7. /\ GetDesc(p, g) \in Seq(Texts) /\ GetDesc(s, g) \in Seq(Texts) /\ line.text \in Texts
        /\ mark = "blank" /\ line.text = NoText => IsBlank(line)
    <3>1. line.text \in Texts /\ line.mark = mark
      BY <1>8, LineKinds
    <3> QED
      BY <1>1, <3>1, LineText, GetDescType DEF IsBlank
  <2>3. CASE kept.flag
    <3>1. new = kept
      BY <2>1, <2>3 DEF CopyLine
    <3> QED
      BY <1>2, <1>3, <1>4, <2>1, <2>2, <2>3, <3>1 DEF Corresponds
  <2>4. CASE ~kept.flag /\ line.word = file
    <3>1. new.lines = s /\ new.flag = TRUE
      BY <2>4 DEF CopyLine
    <3>2. mark = "blank" /\ FirstWord[line.text] = file
      BY <1>5, <1>8, <2>4, DescriptionsAssumption
    <3>3. Safe(q, g, mark, file) => ~Open(p, g)
      BY <1>4, <1>8, <3>2
    <3> QED
      BY <1>2, <1>3, <1>4, <2>1, <2>2, <3>1, <3>3 DEF Corresponds
  <2>5. CASE ~kept.flag /\ line.word # file /\ IsBlank(line)
    <3>1. new.lines = s /\ new.flag = FALSE
      BY <2>5 DEF CopyLine
    <3>2. mark = "blank" /\ line.text = NoText
      BY <1>8, <2>5, LineKinds DEF IsBlank
    <3>3. Written(mark, Append(GetDesc(p, g), NoText)) = Written(mark, GetDesc(p, g))
      BY <3>2, <2>7, WrittenAppend, DescriptionsAssumption
    <3> QED
      BY <1>2, <1>3, <1>4, <2>1, <2>2, <2>5, <3>1, <3>2, <3>3 DEF Corresponds
  <2>6. CASE ~kept.flag /\ line.word # file /\ ~IsBlank(line)
    <3>1. new.lines = Append(s, line) /\ new.flag = FALSE
      BY <2>6 DEF CopyLine
    <3>2. Entries(new.lines, file) = {} /\ Entries(new.lines, g) = Entries(s, g)
      BY <1>1, <1>3, <2>1, <3>1, EntriesAppend
    <3>3. Unique(new.lines, g) <=> Unique(s, g)
      BY <3>2 DEF Unique
    <3>4. /\ Open(s, g) => GetDesc(new.lines, g) = Append(GetDesc(s, g), line.text) /\ Open(new.lines, g)
          /\ ~Open(s, g) => GetDesc(new.lines, g) = GetDesc(s, g) /\ ~Open(new.lines, g)
      BY <1>1, <1>8, <3>1, DescAppend
    <3>5. Written(mark, GetDesc(s, g)) = Written(mark, GetDesc(p, g)) =>
            Written(mark, Append(GetDesc(s, g), line.text)) = Written(mark, Append(GetDesc(p, g), line.text))
      <4> PICK a, b : a = GetDesc(s, g) /\ b = GetDesc(p, g)
        OBVIOUS
      <4>1. a \in Seq(Texts) /\ b \in Seq(Texts)
        BY <2>7
      <4>2. Written(mark, Append(a, line.text)) =
              IF mark = "blank" /\ line.text = NoText THEN Written(mark, a)
              ELSE Append(Written(mark, a), line.text)
        BY <2>7, <4>1, WrittenAppend, ZenonT(30)
      <4>3. Written(mark, Append(b, line.text)) =
              IF mark = "blank" /\ line.text = NoText THEN Written(mark, b)
              ELSE Append(Written(mark, b), line.text)
        BY <2>7, <4>1, WrittenAppend, ZenonT(30)
      <4> QED
        BY <4>2, <4>3
    <3> QED
      BY <1>2, <1>3, <1>4, <2>1, <2>2, <2>6, <3>1, <3>2, <3>3, <3>4, <3>5 DEF Corresponds
  <2> QED
    BY <1>1, <2>3, <2>4, <2>5, <2>6
<1> QED
  BY <1>6, <1>7, <1>8

(* removeDesc (add_desc.c) takes the entry of the file out of files.bbs.   *)
(* It takes no entry of another file, leaves none twice, and keeps the     *)
(* description of another file, but for its empty lines if lines start     *)
(* with a blank, unless a line of it begins with the name.                 *)
THEOREM RemoveDescRight ==
  ASSUME NEW mark \in Marks, NEW flist \in Seq(BbsOf(mark)), NEW file \in Files
  PROVE  /\ RemoveDesc(flist, file) \in Seq(BbsOf(mark))
         /\ Entries(RemoveDesc(flist, file), file) = {}
         /\ \A g \in Files \ {file} :
              /\ Entries(RemoveDesc(flist, file), g) # {} <=> Entries(flist, g) # {}
              /\ Unique(flist, g) => Unique(RemoveDesc(flist, file), g)
              /\ Safe(flist, g, mark, file) =>
                   Written(mark, GetDesc(RemoveDesc(flist, file), g)) = Written(mark, GetDesc(flist, g))
<1> PICK n : n = Len(flist)
  OBVIOUS
<1>1. PICK f \in [0 .. n -> KeptLines(mark)] :
        /\ f[0] = [lines |-> <<>>, flag |-> FALSE]
        /\ RemoveDesc(flist, file) = f[n].lines
        /\ \A k \in 1 .. n : f[k] = CopyLine(f[k - 1], flist[k], file)
  BY RemovalFold
<1>2. n \in Nat /\ f[n] \in KeptLines(mark)
  BY <1>1
<1>3. RemoveDesc(flist, file) \in Seq(BbsOf(mark))
  BY <1>1, <1>2 DEF KeptLines
<1>4. ASSUME NEW g \in Files, g # file
      PROVE  Corresponds(flist, f[n], g, mark, file)
  <2> DEFINE P(k) == Corresponds(SubSeq(flist, 1, k), f[k], g, mark, file)
             T == {k \in Nat : k <= n => P(k)}
  <2>1. 0 \in T
    <3>1. SubSeq(flist, 1, 0) = <<>> /\ f[0].lines = <<>> /\ f[0].flag = FALSE
      BY <1>1, FirstLines
    <3>2. Entries(<<>>, g) = {} /\ Entries(<<>>, file) = {}
      BY DEF Entries
    <3>3. Corresponds(<<>>, f[0], g, mark, file)
      BY <3>1, <3>2 DEF Corresponds, Unique, GetDesc, Open
    <3> QED
      BY <3>1, <3>3
  <2>2. ASSUME NEW k \in Nat, k \in T PROVE k + 1 \in T
    <3> SUFFICES ASSUME k + 1 <= n PROVE P(k + 1)
      OBVIOUS
    <3> PICK p : p = SubSeq(flist, 1, k)
      OBVIOUS
    <3>1. k + 1 \in 1 .. n /\ (k + 1) - 1 = k /\ k \in 0 .. n /\ P(k)
      BY <1>2, <2>2
    <3>2. /\ p \in Seq(BbsOf(mark)) /\ flist[k + 1] \in BbsOf(mark)
          /\ SubSeq(flist, 1, k + 1) = Append(p, flist[k + 1])
      BY <3>1, FirstLines
    <3>3. f[k] \in KeptLines(mark) /\ f[k + 1] = CopyLine(f[k], flist[k + 1], file)
      BY <1>1, <3>1
    <3> QED
      BY <1>4, <3>1, <3>2, <3>3, CopyCorresponds
  <2>3. \A k \in Nat : k \in T
    <3> HIDE DEF T
    <3> QED
      BY <2>1, <2>2, NatInduct
  <2>4. P(n)
    BY <1>2, <2>3
  <2> QED
    BY <2>4, FirstLines
<1>5. Entries(f[n].lines, file) = {}
  <2> DEFINE T == {k \in Nat : k <= n => Entries(f[k].lines, file) = {}}
  <2>1. 0 \in T
    BY <1>1 DEF Entries
  <2>2. ASSUME NEW k \in Nat, k \in T PROVE k + 1 \in T
    <3> SUFFICES ASSUME k + 1 <= n PROVE Entries(f[k + 1].lines, file) = {}
      OBVIOUS
    <3>1. k + 1 \in 1 .. n /\ (k + 1) - 1 = k /\ k \in 0 .. n /\ Entries(f[k].lines, file) = {}
      BY <1>2, <2>2
    <3>2. flist[k + 1] \in BbsOf(mark) /\ f[k].lines \in Seq(BbsOf(mark))
          /\ f[k + 1] = CopyLine(f[k], flist[k + 1], file)
      BY <1>1, <3>1 DEF KeptLines
    <3>3. CASE f[k + 1].lines = f[k].lines
      BY <3>1, <3>3
    <3>4. CASE f[k + 1].lines = Append(f[k].lines, flist[k + 1]) /\ flist[k + 1].word # file
      BY <3>1, <3>2, <3>4, EntriesAppend DEF IsEntry
    <3>5. \/ f[k + 1].lines = f[k].lines
          \/ f[k + 1].lines = Append(f[k].lines, flist[k + 1]) /\ flist[k + 1].word # file
      BY <3>2 DEF CopyLine
    <3> QED
      BY <3>3, <3>4, <3>5
  <2>3. \A k \in Nat : k \in T
    <3> HIDE DEF T
    <3> QED
      BY <2>1, <2>2, NatInduct
  <2>4. n \in T
    <3> HIDE DEF T
    <3> QED
      BY <1>2, <2>3
  <2> QED
    BY <1>2, <2>4
<1> QED
  BY <1>1, <1>3, <1>4, <1>5 DEF Corresponds

-----------------------------------------------------------------------------
(* add_description. *)

Continuations(mark, words) == [k \in 1 .. Len(words) |-> Continuation(mark, words[k])]

LEMMA ContinuationsAppend ==
  ASSUME NEW mark \in Marks, NEW words \in Seq(Texts), NEW t \in Texts
  PROVE  /\ Continuations(mark, words) \in Seq(BbsOf(mark))
         /\ Continuations(mark, <<>>) = <<>>
         /\ Continuations(mark, Append(words, t)) =
              Append(Continuations(mark, words), Continuation(mark, t))
<1> PICK n : n = Len(words)
  OBVIOUS
<1> PICK u : u = Append(words, t)
  OBVIOUS
<1>1. /\ n \in Nat /\ Len(u) = n + 1 /\ u[n + 1] = t
      /\ \A k \in 1 .. n : u[k] = words[k] /\ words[k] \in Texts
  OBVIOUS
<1>2. Continuations(mark, words) \in Seq(BbsOf(mark)) /\ Len(Continuations(mark, words)) = n
  <2>1. \A k \in 1 .. n : Continuation(mark, words[k]) \in BbsOf(mark)
    BY <1>1, LineIsOf
  <2> QED
    BY <1>1, <2>1 DEF Continuations
<1>3. Continuations(mark, <<>>) = <<>>
  BY DEF Continuations
<1>4. Continuations(mark, u) = Append(Continuations(mark, words), Continuation(mark, t))
  <2> PICK c : c = Continuations(mark, words)
    OBVIOUS
  <2>1. c = [k \in 1 .. n |-> Continuation(mark, words[k])] /\ Len(c) = n
    BY <1>2 DEF Continuations
  <2>2. Append(c, Continuation(mark, t)) =
          [k \in 1 .. n + 1 |-> IF k \in 1 .. n THEN c[k] ELSE Continuation(mark, t)]
    BY <1>1, <1>2, <2>1
  <2>3. Continuations(mark, u) = [k \in 1 .. n + 1 |-> Continuation(mark, u[k])]
    BY <1>1 DEF Continuations
  <2>4. \A k \in 1 .. n + 1 :
          Continuation(mark, u[k]) = IF k \in 1 .. n THEN c[k] ELSE Continuation(mark, t)
    BY <1>1, <2>1
  <2> QED
    BY <2>2, <2>3, <2>4
<1> QED
  BY <1>2, <1>3, <1>4

LEMMA LineConcat ==
  ASSUME NEW mark, NEW d \in Seq(BbsOf(mark)), NEW u \in Seq(BbsOf(mark)), NEW line \in BbsOf(mark)
  PROVE  d \o Append(u, line) = Append(d \o u, line)
<1> PICK E : E = BbsOf(mark)
  OBVIOUS
<1> QED
  OBVIOUS

(* Lines that continue the last description. *)
Longer(s, mark, words) == s \o Continuations(mark, words)

LEMMA Continued ==
  ASSUME NEW mark \in Marks, NEW s \in Seq(BbsOf(mark)), NEW words \in Seq(Texts), NEW g
  PROVE  /\ Longer(s, mark, words) \in Seq(BbsOf(mark))
         /\ Entries(Longer(s, mark, words), g) = Entries(s, g)
         /\ Open(s, g) => GetDesc(Longer(s, mark, words), g) = GetDesc(s, g) \o words
         /\ ~Open(s, g) => GetDesc(Longer(s, mark, words), g) = GetDesc(s, g)
<1> DEFINE q(u) == Longer(s, mark, u)
           Good(u) == /\ q(u) \in Seq(BbsOf(mark)) /\ Entries(q(u), g) = Entries(s, g)
                      /\ Open(s, g) <=> Open(q(u), g)
                      /\ Open(s, g) => GetDesc(q(u), g) = GetDesc(s, g) \o u
                      /\ ~Open(s, g) => GetDesc(q(u), g) = GetDesc(s, g)
           T == {u \in Seq(Texts) : Good(u)}
<1>0. GetDesc(s, g) \in Seq(Texts) /\ Len(s) \in Nat
  BY LineText, GetDescType
<1>1. <<>> \in T
  <2>1. Continuations(mark, <<>>) = <<>>
    BY DEF Continuations
  <2>2. q(<<>>) = s
    BY <2>1 DEF Longer
  <2>3. GetDesc(s, g) \o <<>> = GetDesc(s, g) /\ <<>> \in Seq(Texts)
    BY <1>0
  <2> HIDE DEF q
  <2> QED
    BY <2>2, <2>3
<1>2. ASSUME NEW u \in Seq(Texts), NEW t \in Texts, u \in T PROVE Append(u, t) \in T
  <2> PICK p : p = q(u)
    OBVIOUS
  <2> PICK line : line = Continuation(mark, t)
    OBVIOUS
  <2>1. q(Append(u, t)) = Append(p, line)
    <3>1. Continuations(mark, Append(u, t)) = Append(Continuations(mark, u), line)
          /\ Continuations(mark, u) \in Seq(BbsOf(mark))
      BY ContinuationsAppend
    <3> PICK c : c = Continuations(mark, u)
      OBVIOUS
    <3>2. line \in BbsOf(mark)
      BY LineIsOf
    <3>3. s \o Append(c, line) = Append(s \o c, line)
      BY <3>1, <3>2, LineConcat
    <3> QED
      BY <3>1, <3>3 DEF Longer
  <2>2. line \in BbsOf(mark) /\ line.mark # "word" /\ line.text = t
    BY LineIsOf
  <2>3. /\ p \in Seq(BbsOf(mark)) /\ Entries(p, g) = Entries(s, g)
        /\ Open(s, g) <=> Open(p, g)
        /\ Open(s, g) => GetDesc(p, g) = GetDesc(s, g) \o u
        /\ ~Open(s, g) => GetDesc(p, g) = GetDesc(s, g)
    BY <1>2
  <2> PICK r : r = Append(p, line)
    OBVIOUS
  <2> SUFFICES /\ r \in Seq(BbsOf(mark)) /\ Entries(r, g) = Entries(s, g)
               /\ Open(s, g) <=> Open(r, g)
               /\ Open(s, g) => GetDesc(r, g) = GetDesc(s, g) \o Append(u, t)
               /\ ~Open(s, g) => GetDesc(r, g) = GetDesc(s, g)
    <3>1. Append(u, t) \in Seq(Texts)
      OBVIOUS
    <3> QED
      BY <2>1, <3>1
  <2> HIDE DEF T, Good, q
  <2>4. r \in Seq(BbsOf(mark)) /\ Entries(r, g) = Entries(s, g)
    <3>1. ~IsEntry(line, g)
      BY <2>2 DEF IsEntry
    <3> QED
      BY <2>2, <2>3, <3>1, EntriesAppend
  <2>5. CASE Open(s, g)
    <3>1. GetDesc(r, g) = Append(GetDesc(p, g), t) /\ Open(r, g)
      BY <2>2, <2>3, <2>5, DescAppend
    <3> PICK d : d = GetDesc(s, g)
      OBVIOUS
    <3>2. Append(d \o u, t) = d \o Append(u, t)
      <4>1. d \in Seq(Texts)
        BY <1>0
      <4> QED
        BY <4>1, ConcatAppend
    <3> QED
      BY <2>3, <2>4, <2>5, <3>1, <3>2
  <2>6. CASE ~Open(s, g)
    <3>1. GetDesc(r, g) = GetDesc(p, g) /\ ~Open(r, g)
      BY <2>2, <2>3, <2>6, DescAppend
    <3> QED
      BY <2>3, <2>4, <2>6, <3>1
  <2> QED
    BY <2>5, <2>6
<1>3. \A u \in Seq(Texts) : u \in T
  <2> HIDE DEF T
  <2> QED
    BY <1>1, <1>2, SeqInduct
<1>4. words \in T
  <2> HIDE DEF T
  <2> QED
    BY <1>3
<1> QED
  BY <1>4

(* An entry and its lines at the end of the list. *)
LEMMA EntryAdded ==
  ASSUME NEW mark \in Marks, NEW flist \in Seq(BbsOf(mark)), NEW file \in Files,
         NEW line \in BbsOf(mark), line.mark = "word", line.word = file,
         NEW rest \in Seq(Texts)
  PROVE  /\ Longer(Append(flist, line), mark, rest) \in Seq(BbsOf(mark))
         /\ \A g : g # file =>
              /\ Entries(Longer(Append(flist, line), mark, rest), g) = Entries(flist, g)
              /\ GetDesc(Longer(Append(flist, line), mark, rest), g) = GetDesc(flist, g)
         /\ Entries(flist, file) = {} =>
              /\ Entries(Longer(Append(flist, line), mark, rest), file) # {}
              /\ Unique(Longer(Append(flist, line), mark, rest), file)
              /\ GetDesc(Longer(Append(flist, line), mark, rest), file) = <<line.text>> \o rest
<1>1. \A g : IsEntry(line, g) <=> g = file
  BY DEF IsEntry
<1>2. Append(flist, line) \in Seq(BbsOf(mark))
  OBVIOUS
<1>3. ASSUME NEW base \in Seq(BbsOf(mark))
      PROVE  /\ Longer(base, mark, rest) \in Seq(BbsOf(mark))
             /\ \A g : /\ Entries(Longer(base, mark, rest), g) = Entries(base, g)
                       /\ Open(base, g) =>
                            GetDesc(Longer(base, mark, rest), g) = GetDesc(base, g) \o rest
                       /\ ~Open(base, g) =>
                            GetDesc(Longer(base, mark, rest), g) = GetDesc(base, g)
  <2>1. Longer(base, mark, rest) \in Seq(BbsOf(mark))
    BY Continued, Zenon
  <2>2. ASSUME NEW g
        PROVE  /\ Entries(Longer(base, mark, rest), g) = Entries(base, g)
               /\ Open(base, g) =>
                    GetDesc(Longer(base, mark, rest), g) = GetDesc(base, g) \o rest
               /\ ~Open(base, g) =>
                    GetDesc(Longer(base, mark, rest), g) = GetDesc(base, g)
    BY Continued
  <2> QED
    BY <2>1, <2>2
<1> PICK base : base = Append(flist, line)
  OBVIOUS
<1> PICK out : out = Longer(base, mark, rest)
  OBVIOUS
<1>7. base \in Seq(BbsOf(mark))
  BY <1>2
<1>4. /\ out \in Seq(BbsOf(mark))
      /\ \A g : /\ Entries(out, g) = Entries(base, g)
                /\ Open(base, g) => GetDesc(out, g) = GetDesc(base, g) \o rest
                /\ ~Open(base, g) => GetDesc(out, g) = GetDesc(base, g)
  BY <1>3, <1>7, Zenon
<1>5. ASSUME NEW g, g # file
      PROVE  Entries(out, g) = Entries(flist, g) /\ GetDesc(out, g) = GetDesc(flist, g)
  <2>1. Entries(base, g) = Entries(flist, g)
    BY <1>1, <1>5, EntriesAppend
  <2>2. GetDesc(base, g) = GetDesc(flist, g) /\ ~Open(base, g)
    BY <1>1, <1>5, DescAppend
  <2> QED
    BY <1>4, <2>1, <2>2, Zenon
<1>6. ASSUME Entries(flist, file) = {}
      PROVE  /\ Entries(out, file) # {} /\ Unique(out, file)
             /\ GetDesc(out, file) = <<line.text>> \o rest
  <2>1. Entries(base, file) = {Len(flist) + 1}
    BY <1>1, <1>6, EntriesAppend
  <2>2. GetDesc(base, file) = <<line.text>> /\ Open(base, file)
    BY <1>1, <1>6, DescAppend
  <2>3. Entries(out, file) = {Len(flist) + 1} /\ GetDesc(out, file) = <<line.text>> \o rest
    BY <1>4, <2>1, <2>2, Zenon
  <2> QED
    BY <2>3 DEF Unique
<1> QED
  BY <1>4, <1>5, <1>6

(* add_description (add_desc.c) leaves what files.bbs says of other files. *)
(* After removeDesc, the file has one entry, and what GetDescFormBbsFile   *)
(* reads of it is the description, or the description after an empty line. *)
THEOREM AddDescriptionRight ==
  ASSUME NEW mark \in Marks, NEW flist \in Seq(BbsOf(mark)), NEW file \in Files,
         NEW desc \in Seq(Texts)
  PROVE  /\ AddDescription(flist, file, desc, mark) \in Seq(BbsOf(mark))
         /\ \A g : g # file =>
              /\ Entries(AddDescription(flist, file, desc, mark), g) = Entries(flist, g)
              /\ GetDesc(AddDescription(flist, file, desc, mark), g) = GetDesc(flist, g)
         /\ desc # <<>> /\ Entries(flist, file) = {} =>
              /\ Entries(AddDescription(flist, file, desc, mark), file) # {}
              /\ Unique(AddDescription(flist, file, desc, mark), file)
              /\ \/ GetDesc(AddDescription(flist, file, desc, mark), file) = desc
                 \/ /\ desc[1] # NoText
                    /\ GetDesc(AddDescription(flist, file, desc, mark), file) = <<NoText>> \o desc
<1>1. CASE desc = <<>>
  BY <1>1 DEF AddDescription
<1>2. CASE desc # <<>>
  <2> DEFINE onNewLine == file \in LongNames /\ desc[1] # NoText
             first == IF onNewLine THEN NoText ELSE desc[1]
             others == IF onNewLine THEN desc ELSE Tail(desc)
  <2>1. AddDescription(flist, file, desc, mark)
          = Longer(Append(flist, Entry(file, first)), mark, others)
    BY <1>2 DEF AddDescription, Continuations, Longer
  <2>2. first \in Texts /\ others \in Seq(Texts) /\ desc[1] \in Texts
    <3>1. NoText \in Texts
      BY DescriptionsAssumption
    <3>2. desc[1] \in Texts /\ Tail(desc) \in Seq(Texts)
      BY <1>2
    <3> QED
      BY <3>1, <3>2
  <2>3. <<first>> \o others = IF onNewLine THEN <<NoText>> \o desc ELSE desc
    <3>1. <<desc[1]>> \o Tail(desc) = desc
      BY <1>2
    <3> QED
      BY <3>1
  <2>4. onNewLine => desc[1] # NoText
    OBVIOUS
  <2> HIDE DEF first, others, onNewLine
  <2> PICK line : line = Entry(file, first)
    OBVIOUS
  <2>5. line \in BbsOf(mark) /\ line.mark = "word" /\ line.word = file /\ line.text = first
    BY <2>2, LineIsOf
  <2> PICK rest : rest = others
    OBVIOUS
  <2> DEFINE out == Longer(Append(flist, line), mark, rest)
  <2>6. /\ out \in Seq(BbsOf(mark))
        /\ \A g : g # file => Entries(out, g) = Entries(flist, g) /\ GetDesc(out, g) = GetDesc(flist, g)
        /\ Entries(flist, file) = {} =>
             /\ Entries(out, file) # {} /\ Unique(out, file)
             /\ GetDesc(out, file) = <<first>> \o rest
    <3>1. rest \in Seq(Texts)
      BY <2>2
    <3>2. /\ out \in Seq(BbsOf(mark))
          /\ \A g : g # line.word =>
               Entries(out, g) = Entries(flist, g) /\ GetDesc(out, g) = GetDesc(flist, g)
          /\ Entries(flist, line.word) = {} =>
               /\ Entries(out, line.word) # {} /\ Unique(out, line.word)
               /\ GetDesc(out, line.word) = <<line.text>> \o rest
      <4> HIDE DEF out
      <4> QED
        BY <2>5, <3>1, EntryAdded, SMTT(60) DEF out
    <3> HIDE DEF out
    <3> QED
      BY <2>5, <3>2
  <2> HIDE DEF out
  <2>7. AddDescription(flist, file, desc, mark) = out
    BY <2>1 DEF out
  <2> QED
    BY <2>3, <2>4, <2>6, <2>7
<1> QED
  BY <1>1, <1>2

-----------------------------------------------------------------------------
(* The names without a file. *)

NoteName(names, line, present) ==
  IF line.mark = "word" /\ line.word \notin present THEN Append(names, line.word) ELSE names

IsNoting(it, flist, present) ==
  it = [S \in SUBSET DOMAIN flist |->
          IF S = {} THEN <<>> ELSE NoteName(it[S \ {Max(S)}], flist[Max(S)], present)]

LEMMA NotingFold ==
  ASSUME NEW mark \in Marks, NEW flist \in Seq(BbsOf(mark)), NEW present
  PROVE  \E f \in [0 .. Len(flist) -> Seq(Files)] :
           /\ f[0] = <<>> /\ MissingNames(flist, present) = f[Len(flist)]
           /\ \A k \in 1 .. Len(flist) : f[k] = NoteName(f[k - 1], flist[k], present)
<1> PICK n : n = Len(flist)
  OBVIOUS
<1> DEFINE X == Seq(Files)
           b == <<>>
           F == [p \in (1 .. n) \X X |-> NoteName(p[2], flist[p[1]], present)]
<1>1. n \in Nat /\ DOMAIN flist = 1 .. n /\ (\A k \in 1 .. n : flist[k] \in BbsOf(mark)) /\ b \in X
  OBVIOUS
<1>2. \A x \in X, k \in 1 .. n : F[<<k, x>>] = NoteName(x, flist[k], present)
  OBVIOUS
<1>3. F \in [(1 .. n) \X X -> X]
  <2>1. ASSUME NEW line \in BbsOf(mark), NEW x \in X PROVE NoteName(x, line, present) \in X
    <3>1. line.mark = "word" => line.word \in Files
      BY LineKinds
    <3> QED
      BY <3>1 DEF NoteName
  <2>2. \A p \in (1 .. n) \X X : NoteName(p[2], flist[p[1]], present) \in X
    BY <1>1, <2>1
  <2> QED
    BY <2>2
<1> HIDE DEF F, b, X
<1>4. PICK it : IsFold(it, n, X, b, F)
  BY <1>1, <1>3, FoldExists
<1>5. ASSUME NEW S \in SUBSET (1 .. n), S # {}
      PROVE  it[S] = NoteName(it[S \ {Max(S)}], flist[Max(S)], present)
  <2>1. Max(S) \in 1 .. n
    BY <1>1, <1>5, MaxIn
  <2>2. it[S \ {Max(S)}] \in X /\ it[S] = F[<<Max(S), it[S \ {Max(S)}]>>]
    BY <1>4, <1>5 DEF IsFold
  <2> QED
    BY <1>2, <2>1, <2>2
<1>6. it[{}] = b /\ it = [S \in SUBSET (1 .. n) |-> it[S]]
  BY <1>4 DEF IsFold
<1>7. IsNoting(it, flist, present)
  BY <1>1, <1>5, <1>6 DEF IsNoting, b
<1> DEFINE run == CHOOSE r : IsNoting(r, flist, present)
<1>8. IsNoting(run, flist, present)
  BY <1>7
<1>9. MissingNames(flist, present) = run[DOMAIN flist]
  BY DEF MissingNames, FoldLeft, MapThenFoldSet, IsNoting, NoteName
<1> HIDE DEF run
<1>10. run[{}] = b
  BY <1>8 DEF IsNoting, b
<1>11. ASSUME NEW k \in 1 .. n, run[1 .. k - 1] \in X
       PROVE  run[1 .. k] = F[<<k, run[1 .. k - 1]>>]
  <2>1. /\ Max(1 .. k) = k /\ (1 .. k) \ {k} = 1 .. k - 1 /\ 1 .. k # {}
        /\ 1 .. k \in SUBSET (1 .. n)
    BY <1>1, MaxUpTo, SMTT(60)
  <2>2. run[1 .. k] = NoteName(run[1 .. k - 1], flist[k], present)
    BY <1>1, <1>8, <2>1 DEF IsNoting
  <2> QED
    BY <1>2, <1>11, <2>2
<1>12. Follows(run, n, X, b, F)
  BY <1>10, <1>11 DEF Follows
<1>13. PICK f : IsPartial(f, n, X, b, F, run)
  BY <1>1, <1>3, <1>12, FoldIs
<1>14. /\ f \in [0 .. n -> X] /\ f[0] = b /\ f[n] = run[1 .. n]
       /\ \A k \in 1 .. n : f[k] = F[<<k, f[k - 1]>>]
  BY <1>13 DEF IsPartial
<1>15. ASSUME NEW k \in 1 .. n PROVE f[k] = NoteName(f[k - 1], flist[k], present)
  <2>1. k - 1 \in 0 .. n
    BY <1>1
  <2> QED
    BY <1>2, <1>14, <2>1
<1> QED
  BY <1>1, <1>9, <1>14, <1>15, ZenonT(60) DEF X, b

NamedIn(s) == {g \in Files : Entries(s, g) # {}}

Noted(c, s, present) == Range(c) = NamedIn(s) \ present

LEMMA NotingStep ==
  ASSUME NEW mark \in Marks, NEW p \in Seq(BbsOf(mark)), NEW line \in BbsOf(mark), NEW present,
         NEW c \in Seq(Files), Noted(c, p, present)
  PROVE  Noted(NoteName(c, line, present), Append(p, line), present)
<1>1. \A g : Entries(Append(p, line), g) # {} <=> Entries(p, g) # {} \/ IsEntry(line, g)
  BY UniqueAppend
<1>2. line.mark = "word" => line.word \in Files
  BY LineKinds
<1>3. CASE line.mark = "word"
  <2>1. NamedIn(Append(p, line)) = NamedIn(p) \cup {line.word}
    BY <1>1, <1>2, <1>3 DEF IsEntry, NamedIn
  <2>2. Range(Append(c, line.word)) = Range(c) \cup {line.word}
    BY <1>2, <1>3, RangeAppend
  <2>3. Range(NoteName(c, line, present)) = IF line.word \notin present THEN Range(c) \cup {line.word}
                                        ELSE Range(c)
    BY <1>3, <2>2 DEF NoteName
  <2> QED
    BY <2>1, <2>3 DEF Noted
<1>4. CASE line.mark # "word"
  <2>1. NamedIn(Append(p, line)) = NamedIn(p)
    BY <1>1, <1>4 DEF IsEntry, NamedIn
  <2>2. NoteName(c, line, present) = c
    BY <1>4 DEF NoteName
  <2> QED
    BY <2>1, <2>2 DEF Noted
<1> QED
  BY <1>3, <1>4

(* The names that printFileArea (filelist.c) collects for removal are      *)
(* those of the files that files.bbs names and that are not in the         *)
(* directory.                                                              *)
THEOREM MissingNamesRight ==
  ASSUME NEW mark \in Marks, NEW flist \in Seq(BbsOf(mark)), NEW present
  PROVE  /\ MissingNames(flist, present) \in Seq(Files)
         /\ Range(MissingNames(flist, present)) = NamedIn(flist) \ present
<1> PICK n : n = Len(flist)
  OBVIOUS
<1>1. PICK f \in [0 .. n -> Seq(Files)] :
        /\ f[0] = <<>> /\ MissingNames(flist, present) = f[n]
        /\ \A k \in 1 .. n : f[k] = NoteName(f[k - 1], flist[k], present)
  BY NotingFold, ZenonT(60)
<1>2. n \in Nat /\ f[n] \in Seq(Files)
  BY <1>1
<1> DEFINE P(k) == Noted(f[k], SubSeq(flist, 1, k), present)
           T == {k \in Nat : k <= n => P(k)}
<1>3. 0 \in T
  <2>1. Noted(<<>>, <<>>, present)
    BY DEF Range, Entries, NamedIn, Noted
  <2>2. f[0] = <<>> /\ SubSeq(flist, 1, 0) = <<>>
    BY <1>1, FirstLines
  <2>3. P(0)
    BY <2>1, <2>2
  <2> QED
    BY <2>3
<1>4. ASSUME NEW k \in Nat, k \in T PROVE k + 1 \in T
  <2> SUFFICES ASSUME k + 1 <= n PROVE P(k + 1)
    OBVIOUS
  <2>1. k + 1 \in 1 .. n /\ (k + 1) - 1 = k /\ k \in 0 .. n /\ P(k)
    BY <1>2, <1>4
  <2> HIDE DEF T
  <2>2. /\ SubSeq(flist, 1, k) \in Seq(BbsOf(mark)) /\ flist[k + 1] \in BbsOf(mark)
        /\ SubSeq(flist, 1, k + 1) = Append(SubSeq(flist, 1, k), flist[k + 1])
    BY <2>1, FirstLines
  <2>3. f[k] \in Seq(Files) /\ f[k + 1] = NoteName(f[k], flist[k + 1], present)
    BY <1>1, <2>1
  <2>4. Noted(NoteName(f[k], flist[k + 1], present), Append(SubSeq(flist, 1, k), flist[k + 1]), present)
    BY <2>1, <2>2, <2>3, NotingStep
  <2> QED
    BY <2>2, <2>3, <2>4
<1>5. \A k \in Nat : k \in T
  <2> HIDE DEF T
  <2> QED
    BY <1>3, <1>4, NatInduct
<1>6. n \in T
  <2> HIDE DEF T
  <2> QED
    BY <1>2, <1>5
<1>7. P(n) /\ SubSeq(flist, 1, n) = flist
  BY <1>2, <1>6, FirstLines
<1>8. Range(f[n]) = NamedIn(flist) \ present
  BY <1>7 DEF Noted
<1> QED
  BY <1>1, <1>2, <1>8

\* What is left of files.bbs, if s, when an entry is removed.
Removed(s, flist, mark, file) ==
  /\ Entries(s, file) = {}
  /\ \A g \in Files \ {file} :
       /\ Entries(s, g) # {} <=> Entries(flist, g) # {}
       /\ Unique(flist, g) => Unique(s, g)
       /\ Safe(flist, g, mark, file) =>
            Written(mark, GetDesc(s, g)) = Written(mark, GetDesc(flist, g))

LEMMA RemovedIs ==
  ASSUME NEW mark \in Marks, NEW flist \in Seq(BbsOf(mark)), NEW file \in Files
  PROVE  Removed(RemoveDesc(flist, file), flist, mark, file)
BY RemoveDescRight, ZenonT(60) DEF Removed

\* What files.bbs is, if s, when desc is added.
Added(s, flist, mark, file, desc) ==
  /\ \A g : g # file => Entries(s, g) = Entries(flist, g) /\ GetDesc(s, g) = GetDesc(flist, g)
  /\ desc # <<>> /\ Entries(flist, file) = {} =>
       /\ Entries(s, file) # {} /\ Unique(s, file)
       /\ \/ GetDesc(s, file) = desc
          \/ desc[1] # NoText /\ GetDesc(s, file) = <<NoText>> \o desc

LEMMA AddedIs ==
  ASSUME NEW mark \in Marks, NEW flist \in Seq(BbsOf(mark)), NEW file \in Files,
         NEW desc \in Seq(Texts)
  PROVE  Added(AddDescription(flist, file, desc, mark), flist, mark, file, desc)
BY AddDescriptionRight DEF Added

-----------------------------------------------------------------------------
(* Sums over finite sets. *)

(* g is the sum of w over each subset of S. *)
IsSum(g, S, w) ==
  /\ g \in [SUBSET S -> Nat] /\ g[{}] = 0
  /\ \A s \in SUBSET S : \A x \in s : g[s] = w[x] + g[s \ {x}]

LEMMA SumOfMore ==
  ASSUME NEW S, NEW w, \A y \in S : w[y] \in Nat, NEW x \in S, NEW h, IsSum(h, S \ {x}, w)
  PROVE  \E g : IsSum(g, S, w)
<1> DEFINE R == S \ {x}
           g == [s \in SUBSET S |-> IF x \in s THEN w[x] + h[s \ {x}] ELSE h[s]]
<1>1. /\ h \in [SUBSET R -> Nat] /\ h[{}] = 0
      /\ \A s \in SUBSET R : \A y \in s : h[s] = w[y] + h[s \ {y}]
  BY DEF IsSum
<1>2. \A s \in SUBSET S : s \ {x} \in SUBSET R /\ (x \notin s => s \in SUBSET R)
  OBVIOUS
<1>3. g \in [SUBSET S -> Nat] /\ g[{}] = 0
  BY <1>1, <1>2
<1>4. ASSUME NEW s \in SUBSET S, NEW y \in s PROVE g[s] = w[y] + g[s \ {y}]
  <2>1. s \ {y} \in SUBSET S /\ y \in S
    BY <1>4
  <2>2. CASE y = x
    <3>1. g[s] = w[x] + h[s \ {x}] /\ g[s \ {x}] = h[s \ {x}]
      BY <2>1, <2>2
    <3> QED
      BY <2>2, <3>1
  <2>3. CASE y # x /\ x \in s
    <3>1. g[s] = w[x] + h[s \ {x}] /\ g[s \ {y}] = w[x] + h[(s \ {y}) \ {x}]
      BY <2>1, <2>3
    <3>2. (s \ {y}) \ {x} = (s \ {x}) \ {y} /\ s \ {x} \in SUBSET R /\ y \in s \ {x}
          /\ (s \ {x}) \ {y} \in SUBSET R
      BY <1>2, <2>3
    <3>3. h[s \ {x}] = w[y] + h[(s \ {x}) \ {y}]
      BY <1>1, <3>2
    <3>4. h[(s \ {x}) \ {y}] \in Nat /\ w[x] \in Nat /\ w[y] \in Nat
      BY <1>1, <2>1, <3>2
    <3> PICK a : a = h[(s \ {x}) \ {y}]
      OBVIOUS
    <3>5. g[s] = w[x] + (w[y] + a) /\ g[s \ {y}] = w[x] + a
      BY <3>1, <3>2, <3>3
    <3> HIDE DEF g
    <3> QED
      BY <3>4, <3>5
  <2>4. CASE x \notin s
    <3>1. g[s] = h[s] /\ g[s \ {y}] = h[s \ {y}]
      BY <2>1, <2>4
    <3> QED
      BY <1>1, <1>2, <2>4, <3>1
  <2> QED
    BY <2>2, <2>3, <2>4
<1> HIDE DEF g
<1>5. IsSum(g, S, w)
  BY <1>3, <1>4 DEF IsSum
<1> QED
  BY <1>5

LEMMA OneLess ==
  ASSUME NEW R, IsFiniteSet(R), NEW x \in R, NEW n \in Nat, Cardinality(R) = n + 1
  PROVE  Cardinality(R \ {x}) = n
<1>1. Cardinality(R \ {x}) = Cardinality(R) - 1
  BY FS_RemoveElement, Zenon
<1> QED
  BY <1>1

LEMMA SumExists ==
  ASSUME NEW S, IsFiniteSet(S), NEW w, \A y \in S : w[y] \in Nat
  PROVE  \E g : IsSum(g, S, w)
<1> DEFINE Summed(R) == \E g : IsSum(g, R, w)
           T == {n \in Nat : \A R \in SUBSET S : Cardinality(R) = n => Summed(R)}
<1>1. 0 \in T
  <2> SUFFICES ASSUME NEW R \in SUBSET S, Cardinality(R) = 0 PROVE Summed(R)
    OBVIOUS
  <2>1. R = {}
    BY FS_Subset, FS_EmptySet
  <2> DEFINE g == [s \in SUBSET R |-> 0]
  <2>2. IsSum(g, R, w)
    BY <2>1 DEF IsSum
  <2> QED
    BY <2>2
<1>2. ASSUME NEW n \in Nat, n \in T PROVE n + 1 \in T
  <2> SUFFICES ASSUME NEW R \in SUBSET S, Cardinality(R) = n + 1 PROVE Summed(R)
    OBVIOUS
  <2>1. IsFiniteSet(R) /\ R # {}
    BY FS_Subset, FS_EmptySet
  <2>2. PICK x : x \in R
    BY <2>1
  <2>3. Cardinality(R \ {x}) = n /\ R \ {x} \in SUBSET S
    BY <2>1, <2>2, OneLess
  <2>4. PICK h : IsSum(h, R \ {x}, w)
    BY <1>2, <2>3
  <2> HIDE DEF T
  <2>5. \A y \in R : w[y] \in Nat
    OBVIOUS
  <2> QED
    BY <2>2, <2>4, <2>5, SumOfMore
<1>3. \A n \in Nat : n \in T
  <2> HIDE DEF T
  <2> QED
    BY <1>1, <1>2, NatInduct
<1>4. Cardinality(S) \in T
  <2> HIDE DEF T
  <2> QED
    BY <1>3, FS_CardinalityType
<1> QED
  BY <1>4

(* The recursion by which SumFunction is defined. *)
IsAdding(it, R, v) ==
  it = [s \in SUBSET R |-> IF s = {} THEN 0
                           ELSE v[CHOOSE x \in s : TRUE] + it[s \ {CHOOSE x \in s : TRUE}]]

LEMMA AddingIs ==
  ASSUME NEW S, IsFiniteSet(S), NEW w, NEW g, IsSum(g, S, w), NEW it, IsAdding(it, S, w)
  PROVE  it[S] = g[S]
<1> DEFINE T == {n \in Nat : \A s \in SUBSET S : Cardinality(s) = n => it[s] = g[s]}
<1>1. 0 \in T
  <2> SUFFICES ASSUME NEW s \in SUBSET S, Cardinality(s) = 0 PROVE it[s] = g[s]
    OBVIOUS
  <2>1. s = {}
    BY FS_Subset, FS_EmptySet
  <2> QED
    BY <2>1 DEF IsSum, IsAdding
<1>2. ASSUME NEW n \in Nat, n \in T PROVE n + 1 \in T
  <2> SUFFICES ASSUME NEW s \in SUBSET S, Cardinality(s) = n + 1 PROVE it[s] = g[s]
    OBVIOUS
  <2>1. IsFiniteSet(s) /\ s # {}
    BY FS_Subset, FS_EmptySet
  <2> PICK x : x = CHOOSE y \in s : TRUE
    OBVIOUS
  <2>2. x \in s
    BY <2>1
  <2>3. Cardinality(s \ {x}) = n /\ s \ {x} \in SUBSET S
    BY <2>1, <2>2, OneLess
  <2>4. it[s \ {x}] = g[s \ {x}]
    BY <1>2, <2>3
  <2> HIDE DEF T
  <2>5. it[s] = w[x] + it[s \ {x}]
    BY <2>1 DEF IsAdding
  <2>6. g[s] = w[x] + g[s \ {x}]
    BY <2>2 DEF IsSum
  <2> QED
    BY <2>4, <2>5, <2>6
<1>3. \A n \in Nat : n \in T
  <2> HIDE DEF T
  <2> QED
    BY <1>1, <1>2, NatInduct
<1>4. Cardinality(S) \in T
  <2> HIDE DEF T
  <2> QED
    BY <1>3, FS_CardinalityType
<1> QED
  BY <1>4

On(w, R) == [x \in R |-> w[x]]

LEMMA SumFunctionIs ==
  ASSUME NEW v
  PROVE  SumFunction(v) = (CHOOSE i : IsAdding(i, DOMAIN v, v))[DOMAIN v]
BY DEF SumFunction, SumFunctionOnSet, FoldFunctionOnSet, MapThenFoldSet, IsAdding

LEMMA SumIs ==
  ASSUME NEW S, IsFiniteSet(S), NEW w, NEW g, IsSum(g, S, w), NEW R \in SUBSET S
  PROVE  SumFunction(On(w, R)) = g[R]
<1> PICK v : v = On(w, R)
  OBVIOUS
<1>0. v = [x \in R |-> w[x]]
  BY DEF On
<1> DEFINE h == [s \in SUBSET R |-> g[s]]
<1>1. /\ g \in [SUBSET S -> Nat] /\ g[{}] = 0
      /\ \A s \in SUBSET S : \A x \in s : g[s] = w[x] + g[s \ {x}]
  BY DEF IsSum
<1>2. IsSum(h, R, v)
  <2>1. h \in [SUBSET R -> Nat] /\ h[{}] = 0
    BY <1>1
  <2>2. ASSUME NEW s \in SUBSET R, NEW x \in s PROVE h[s] = v[x] + h[s \ {x}]
    <3>1. s \in SUBSET S /\ s \ {x} \in SUBSET R /\ v[x] = w[x]
      BY <1>0, <2>2
    <3>2. h[s] = g[s] /\ h[s \ {x}] = g[s \ {x}]
      BY <3>1
    <3> QED
      BY <1>1, <3>1, <3>2
  <2> HIDE DEF h
  <2> QED
    BY <2>1, <2>2 DEF IsSum
<1>3. IsFiniteSet(R)
  BY FS_Subset
<1>4. h[R] = g[R]
  OBVIOUS
<1> HIDE DEF h
<1> DEFINE ch(s) == CHOOSE x \in s : TRUE
<1>5. IsAdding(h, R, v)
  <2>1. ASSUME NEW s \in SUBSET R, s # {} PROVE h[s] = v[ch(s)] + h[s \ {ch(s)}]
    <3>1. ch(s) \in s
      BY <2>1
    <3> HIDE DEF ch
    <3> QED
      BY <1>2, <3>1 DEF IsSum
  <2>2. h[{}] = 0 /\ h \in [SUBSET R -> Nat]
    BY <1>2 DEF IsSum
  <2> QED
    BY <2>1, <2>2 DEF IsAdding
<1> DEFINE it == CHOOSE i : IsAdding(i, R, v)
<1>6. IsAdding(it, R, v)
  BY <1>5
<1>8. DOMAIN v = R
  BY <1>0
<1>7. SumFunction(v) = it[R]
  BY <1>8, SumFunctionIs
<1> HIDE DEF it
<1>9. it[R] = h[R]
  BY <1>2, <1>3, <1>6, AddingIs
<1> QED
  BY <1>4, <1>7, <1>9

LEMMA OneMoreTime ==
  ASSUME NEW c \in Nat, NEW a \in Nat, NEW m \in Nat
  PROVE  c + (a + c * m) = a + c * (m + 1)
<1>1. c * (m + 1) = c * m + c
  OBVIOUS
<1> PICK p \in Int : p = c * m
  OBVIOUS
<1> QED
  BY <1>1

Raised(v, w, c, S) == \A x \in S : w[x] \in Nat /\ v[x] = IF w[x] = 0 THEN c ELSE w[x]

Exceeds(g, h, w, c, S) ==
  \A s \in SUBSET S : g[s] = h[s] + c * Cardinality({x \in s : w[x] = 0})

(* The sum of v, which has c where w has 0. *)
LEMMA SumWithEmpty ==
  ASSUME NEW S, IsFiniteSet(S), NEW v, NEW w, NEW c \in Nat,
         Raised(v, w, c, S),
         NEW g, IsSum(g, S, v), NEW h, IsSum(h, S, w)
  PROVE  Exceeds(g, h, w, c, S)
<1> DEFINE None(s) == {x \in s : w[x] = 0}
           Good(s) == g[s] = h[s] + c * Cardinality(None(s))
           T == {n \in Nat : \A s \in SUBSET S : Cardinality(s) = n => Good(s)}
<1>0. /\ g \in [SUBSET S -> Nat] /\ g[{}] = 0
      /\ \A s \in SUBSET S : \A x \in s : g[s] = v[x] + g[s \ {x}]
      /\ h \in [SUBSET S -> Nat] /\ h[{}] = 0
      /\ \A s \in SUBSET S : \A x \in s : h[s] = w[x] + h[s \ {x}]
  BY DEF IsSum
<1>5. \A x \in S : w[x] \in Nat /\ v[x] = IF w[x] = 0 THEN c ELSE w[x]
  BY DEF Raised
<1>1. 0 \in T
  <2> SUFFICES ASSUME NEW s \in SUBSET S, Cardinality(s) = 0 PROVE Good(s)
    OBVIOUS
  <2>1. s = {}
    BY FS_Subset, FS_EmptySet
  <2>2. None(s) = {} /\ Cardinality({}) = 0
    BY <2>1, FS_EmptySet
  <2>3. c * 0 = 0
    OBVIOUS
  <2> QED
    BY <1>0, <2>1, <2>2, <2>3
<1>2. ASSUME NEW n \in Nat, n \in T PROVE n + 1 \in T
  <2> SUFFICES ASSUME NEW s \in SUBSET S, Cardinality(s) = n + 1 PROVE Good(s)
    OBVIOUS
  <2>1. IsFiniteSet(s) /\ s # {}
    BY FS_Subset, FS_EmptySet
  <2>2. PICK x : x \in s
    BY <2>1
  <2> PICK r : r = s \ {x}
    OBVIOUS
  <2>3. Cardinality(r) = n /\ r \in SUBSET S
    BY <2>1, <2>2, OneLess
  <2> PICK a : a = h[r]
    OBVIOUS
  <2> PICK m : m = Cardinality(None(r))
    OBVIOUS
  <2>4. g[r] = a + c * m
    BY <1>2, <2>3
  <2> HIDE DEF T, Good
  <2>5. IsFiniteSet(None(r)) /\ m \in Nat /\ a \in Nat
    <3>1. IsFiniteSet(r) /\ None(r) \subseteq r
      BY <2>1, FS_Subset
    <3>2. IsFiniteSet(None(r))
      BY <3>1, FS_Subset
    <3> HIDE DEF None
    <3> QED
      BY <1>0, <2>3, <3>2, FS_CardinalityType
  <2>6. g[s] = v[x] + g[r] /\ h[s] = w[x] + a /\ w[x] \in Nat
    BY <1>0, <1>5, <2>2
  <2>7. CASE w[x] = 0
    <3>1. None(s) = None(r) \cup {x} /\ x \notin None(r)
      BY <2>2, <2>7
    <3> HIDE DEF None
    <3>2. Cardinality(None(s)) = m + 1
      <4> PICK q : q = None(r)
        OBVIOUS
      <4>1. IsFiniteSet(q) /\ x \notin q /\ Cardinality(q) = m
        BY <2>5, <3>1
      <4>2. Cardinality(q \cup {x}) = m + 1
        BY <4>1, FS_AddElement, ZenonT(30)
      <4> QED
        BY <3>1, <4>2
    <3>3. v[x] = c /\ h[s] = a
      BY <1>5, <2>2, <2>5, <2>6, <2>7
    <3>4. c + (a + c * m) = a + c * (m + 1)
      BY <2>5, OneMoreTime
    <3> QED
      BY <2>4, <2>6, <3>2, <3>3, <3>4 DEF Good
  <2>8. CASE w[x] # 0
    <3>1. None(s) = None(r)
      BY <2>2, <2>8
    <3> HIDE DEF None
    <3>2. v[x] = w[x]
      BY <1>5, <2>2, <2>8
    <3> PICK p \in Int : p = c * m
      BY <2>5
    <3>3. w[x] + (a + p) = (w[x] + a) + p
      BY <2>5, <2>6
    <3> QED
      BY <2>4, <2>6, <3>1, <3>2, <3>3 DEF Good
  <2> QED
    BY <2>7, <2>8
<1>3. \A n \in Nat : n \in T
  <2> HIDE DEF T
  <2> QED
    BY <1>1, <1>2, NatInduct
<1>4. ASSUME NEW s \in SUBSET S PROVE Good(s)
  <2>1. Cardinality(s) \in Nat
    BY FS_Subset, FS_CardinalityType
  <2>2. Cardinality(s) \in T
    <3> HIDE DEF T
    <3> QED
      BY <1>3, <2>1
  <2> QED
    BY <2>2
<1> QED
  BY <1>4 DEF Exceeds

-----------------------------------------------------------------------------
(* What buildAccessList makes of the tickets. *)

LEMMA NoMultiple ==
  ASSUME NEW W \in Nat \ {0}, NEW p \in Int, NEW q \in Int, NEW r \in 0 .. W - 1,
         NEW s \in 0 .. W - 1, W * p + r = W * q + s
  PROVE  r = s
<1>1. CASE p >= q + 1
  <2>1. W * (p - q - 1) >= 0 /\ W * p = W * (p - q - 1) + W * q + W
    BY <1>1
  <2> QED
    BY <2>1
<1>2. CASE q >= p + 1
  <2>1. W * (q - p - 1) >= 0 /\ W * q = W * (q - p - 1) + W * p + W
    BY <1>2
  <2> QED
    BY <2>1
<1>3. CASE p = q
  BY <1>3
<1> QED
  BY <1>1, <1>2, <1>3

LEMMA ModIs ==
  ASSUME NEW a \in Nat, NEW W \in Nat \ {0}
  PROVE  a % W \in 0 .. W - 1 /\ a % W \in Nat /\ \E q \in Nat : a = W * q + (a % W)
<1> PICK q : q = a \div W
  OBVIOUS
<1>1. a % W \in 0 .. W - 1 /\ q \in Nat /\ a = W * q + (a % W)
  OBVIOUS
<1>2. a % W \in Nat
  BY <1>1
<1>3. \E p \in Nat : a = W * p + (a % W)
  BY <1>1, Zenon
<1> QED
  BY <1>1, <1>2, <1>3, Zenon

LEMMA ModNat ==
  ASSUME NEW a \in Nat, NEW b \in Nat, NEW W \in Nat \ {0}
  PROVE  a % W \in Nat /\ ((a % W) + b) % W = (a + b) % W
<1>1. PICK q \in Nat : a = W * q + (a % W)
  BY ModIs
<1>2. a % W \in 0 .. W - 1 /\ a % W \in Nat
  BY ModIs
<1> PICK r : r = a % W
  OBVIOUS
<1>3. r + b \in Nat /\ a + b \in Nat
  BY <1>2
<1>4. PICK q2 \in Nat : r + b = W * q2 + ((r + b) % W)
  BY <1>3, ModIs
<1>5. PICK q3 \in Nat : a + b = W * q3 + ((a + b) % W)
  BY <1>3, ModIs
<1>6. (r + b) % W \in 0 .. W - 1 /\ (a + b) % W \in 0 .. W - 1
  BY <1>3, ModIs
<1> PICK u : u = (r + b) % W
  OBVIOUS
<1> PICK v : v = (a + b) % W
  OBVIOUS
<1>7. W * (q + q2) + u = W * q3 + v
  <2>1. a = W * q + r /\ r + b = W * q2 + u /\ a + b = W * q3 + v /\ r \in Int /\ u \in Int /\ v \in Int
    BY <1>1, <1>2, <1>4, <1>5, <1>6
  <2>2. W * (q + q2) = W * q + W * q2
    OBVIOUS
  <2> PICK x \in Int : x = W * q
    OBVIOUS
  <2> PICK y \in Int : y = W * q2
    OBVIOUS
  <2> PICK z \in Int : z = W * q3
    OBVIOUS
  <2> QED
    BY <2>1, <2>2
<1>8. u = v
  <2>1. u \in 0 .. W - 1 /\ v \in 0 .. W - 1 /\ q + q2 \in Int /\ q3 \in Int
    BY <1>6
  <2> QED
    BY <1>7, <2>1, NoMultiple
<1> QED
  BY <1>2, <1>8

Block == [area : Range(Areas), begin : Nat, count : Nat, size : Nat]

Ticket(entries, k) == tickets[entries[k]]

(* One ticket of buildAccessList. *)
NextBlock(aList, k, entries) ==
  LET t == tickets[entries[k]]
      new == aList = <<>> \/ Last(aList).area # t.area
      current == IF new THEN Append(aList, [area |-> t.area, begin |-> k,
                                            count |-> 0, size |-> 0])
                 ELSE aList
  IN  IF new /\ t.area \notin known THEN aList
      ELSE [current EXCEPT ![Len(current)] =
              [area |-> @.area, begin |-> @.begin, count |-> @.count + 1,
               size |-> (@.size + TicSize(entries[k])) % Word]]

FirstOf(a, k, size) == [area |-> a, begin |-> k, count |-> 1, size |-> size % Word]
OneMoreOf(b, size) ==
  [area |-> b.area, begin |-> b.begin, count |-> b.count + 1, size |-> (b.size + size) % Word]

Replaced(l, b, v) == [Append(l, b) EXCEPT ![Len(l) + 1] = v]

LEMMA LastReplaced ==
  ASSUME NEW E, NEW l \in Seq(E), NEW b \in E, NEW v \in E
  PROVE  Replaced(l, b, v) = Append(l, v)
<1> DEFINE c == [Append(l, b) EXCEPT ![Len(l) + 1] = v]
           d == Append(l, v)
<1>1. c \in Seq(E) /\ d \in Seq(E) /\ Len(c) = Len(l) + 1 /\ Len(d) = Len(l) + 1
  OBVIOUS
<1>2. ASSUME NEW k \in 1 .. Len(l) + 1 PROVE c[k] = d[k]
  <2>1. CASE k = Len(l) + 1
    BY <2>1
  <2>2. CASE k \in 1 .. Len(l)
    <3> PICK m : m = Append(l, b)
      OBVIOUS
    <3>3. m[k] = l[k] /\ k # Len(l) + 1 /\ k \in DOMAIN m
      BY <2>2
    <3>4. c = [m EXCEPT ![Len(l) + 1] = v]
      OBVIOUS
    <3>1. c[k] = l[k]
      <4> HIDE DEF c
      <4> QED
        BY <3>3, <3>4
    <3>2. d[k] = l[k]
      BY <2>2
    <3> QED
      BY <3>1, <3>2
  <2> QED
    BY <2>1, <2>2
<1> HIDE DEF c, d
<1>3. c = d
  BY <1>1, <1>2
<1> QED
  BY <1>3 DEF c, d, Replaced

IsNew(l, a) == l = <<>> \/ l[Len(l)].area # a

LEMMA NextBlockIs ==
  ASSUME NEW l \in Seq(Block), NEW entries, NEW k \in Nat,
         NEW t, t = Ticket(entries, k), t \in TicketType, NEW a, a = t.area,
         NEW sz, sz = TicSize(entries[k]), sz \in Nat, Word \in Nat \ {0}
  PROVE  /\ IsNew(l, a) /\ a \notin known => NextBlock(l, k, entries) = l
         /\ IsNew(l, a) /\ a \in known => NextBlock(l, k, entries) = Append(l, FirstOf(a, k, sz))
         /\ ~IsNew(l, a) =>
              /\ l # <<>> /\ l[Len(l)].area = a
              /\ NextBlock(l, k, entries) = [l EXCEPT ![Len(l)] = OneMoreOf(l[Len(l)], sz)]
         /\ FirstOf(a, k, sz) \in Block
         /\ NextBlock(l, k, entries) \in Seq(Block)
<1> DEFINE new == l = <<>> \/ l[Len(l)].area # t.area
<1>0. IsNew(l, a) <=> new
  BY DEF IsNew
<1>1. sz \in Nat /\ t.area \in Range(Areas)
  BY DEF TicketType
<1>2. FirstOf(t.area, k, sz) \in Block
  <2>1. sz % Word \in Nat
    BY <1>1, ModNat
  <2> QED
    BY <1>1, <2>1 DEF FirstOf, Block
<1>3. ASSUME NEW b \in Block PROVE OneMoreOf(b, sz) \in Block
  <2>1. b.area \in Range(Areas) /\ b.begin \in Nat /\ b.count \in Nat /\ b.size \in Nat
    BY DEF Block
  <2>2. b.size + sz \in Nat
    BY <1>1, <2>1
  <2>3. (b.size + sz) % Word \in Nat
    BY <2>2, ModNat
  <2> QED
    BY <2>1, <2>3, SMTT(60) DEF OneMoreOf, Block
<1>4. CASE new /\ t.area \notin known
  <2>1. NextBlock(l, k, entries) = l
    BY <1>4 DEF NextBlock, Ticket, Last
  <2> QED
    BY <1>0, <1>2, <1>4, <2>1
<1>5. CASE new /\ t.area \in known
  <2> PICK b : b = [area |-> t.area, begin |-> k, count |-> 0, size |-> 0]
    OBVIOUS
  <2> PICK c : c = Append(l, b)
    OBVIOUS
  <2>1. NextBlock(l, k, entries) = [c EXCEPT ![Len(c)] = OneMoreOf(c[Len(c)], sz)]
    BY <1>5, ZenonT(60) DEF NextBlock, Ticket, Last, OneMoreOf
  <2>2. b \in Block
    BY <1>1 DEF Block
  <2>3. Len(c) = Len(l) + 1 /\ c \in Seq(Block) /\ c[Len(l) + 1] = b /\ Len(l) \in Nat
    BY <2>2
  <2>4. OneMoreOf(b, sz) = FirstOf(t.area, k, sz)
    BY <1>1 DEF FirstOf, OneMoreOf
  <2>5. NextBlock(l, k, entries) = [c EXCEPT ![Len(c)] = FirstOf(t.area, k, sz)]
    <3>1. c[Len(c)] = b
      BY <2>3
    <3>2. OneMoreOf(c[Len(c)], sz) = FirstOf(t.area, k, sz)
      BY <2>4, <3>1
    <3> QED
      BY <2>1, <3>2
  <2>6. [c EXCEPT ![Len(c)] = FirstOf(t.area, k, sz)] = Append(l, FirstOf(t.area, k, sz))
    <3> PICK new1 : new1 = FirstOf(t.area, k, sz)
      OBVIOUS
    <3>1. new1 \in Block
      BY <1>2
    <3>2. Replaced(l, b, new1) = Append(l, new1)
      BY <2>2, <3>1, LastReplaced
    <3> QED
      BY <2>3, <3>2 DEF Replaced
  <2>7. Append(l, FirstOf(t.area, k, sz)) \in Seq(Block)
    BY <1>2
  <2> QED
    BY <1>0, <1>2, <1>5, <2>5, <2>6, <2>7, ZenonT(60)
<1>6. CASE ~new
  <2> PICK b : b = l[Len(l)]
    OBVIOUS
  <2>1. l # <<>> /\ b.area = t.area /\ Len(l) \in 1 .. Len(l) /\ b \in Block
    BY <1>6
  <2>2. NextBlock(l, k, entries) = [l EXCEPT ![Len(l)] =
              [area |-> @.area, begin |-> @.begin, count |-> @.count + 1,
               size |-> (@.size + sz) % Word]]
    BY <1>6 DEF NextBlock, Ticket, Last
  <2>4. NextBlock(l, k, entries) = [l EXCEPT ![Len(l)] = OneMoreOf(b, sz)]
    BY <2>1, <2>2 DEF OneMoreOf
  <2>5. [l EXCEPT ![Len(l)] = OneMoreOf(b, sz)] \in Seq(Block)
    BY <1>3, <2>1
  <2> QED
    BY <1>0, <1>2, <1>6, <2>1, <2>4, <2>5
<1> QED
  BY <1>4, <1>5, <1>6

LEMMA TicketsListed ==
  ASSUME tickets \in Seq(TicketType), NEW entries \in Seq(DOMAIN tickets),
         NEW k \in 1 .. Len(entries)
  PROVE  /\ entries[k] \in DOMAIN tickets /\ Ticket(entries, k) \in TicketType
         /\ TicSize(entries[k]) \in Nat
<1>1. entries[k] \in DOMAIN tickets
  OBVIOUS
<1>2. Ticket(entries, k) \in TicketType
  <2> PICK n : n = entries[k]
    OBVIOUS
  <2>1. tickets[n] \in TicketType
    BY <1>1
  <2> QED
    BY <2>1 DEF Ticket
<1>3. Ticket(entries, k).file \in Files
  BY <1>2 DEF TicketType
<1>4. Size \in [Files -> Nat]
  BY CatalogAssumption
<1>5. TicSize(entries[k]) \in Nat
  <2>1. Size[Ticket(entries, k).file] \in Nat /\ Word - 1 \in Nat
    BY <1>3, <1>4, CatalogAssumption
  <2> QED
    BY <2>1 DEF TicSize, Ticket
<1> QED
  BY <1>1, <1>2, <1>5

IsAccessFold(it, entries) ==
  it = [S \in SUBSET DOMAIN [i \in DOMAIN entries |-> i] |->
          IF S = {} THEN <<>>
          ELSE NextBlock(it[S \ {Max(S)}], [i \in DOMAIN entries |-> i][Max(S)], entries)]

LEMMA AccessFold ==
  ASSUME tickets \in Seq(TicketType), NEW entries \in Seq(DOMAIN tickets)
  PROVE  \E f \in [0 .. Len(entries) -> Seq(Block)] :
           /\ f[0] = <<>> /\ AccessList(entries) = f[Len(entries)]
           /\ \A k \in 1 .. Len(entries) : f[k] = NextBlock(f[k - 1], k, entries)
<1> PICK n : n = Len(entries)
  OBVIOUS
<1> DEFINE X == Seq(Block)
           b == <<>>
           F == [p \in (1 .. n) \X X |-> NextBlock(p[2], p[1], entries)]
<1>1. n \in Nat /\ DOMAIN entries = 1 .. n /\ b \in X
  OBVIOUS
<1>2. \A x \in X, k \in 1 .. n : F[<<k, x>>] = NextBlock(x, k, entries)
  OBVIOUS
<1>3. F \in [(1 .. n) \X X -> X]
  <2>1. ASSUME NEW k \in 1 .. n, NEW x \in X PROVE NextBlock(x, k, entries) \in X
    <3>1. /\ Ticket(entries, k) \in TicketType /\ TicSize(entries[k]) \in Nat
          /\ k \in Nat
      BY TicketsListed, SMTT(60)
    <3>2. Word \in Nat \ {0}
      BY CatalogAssumption
    <3> PICK t : t = Ticket(entries, k)
      OBVIOUS
    <3> PICK a : a = t.area
      OBVIOUS
    <3> PICK sz : sz = TicSize(entries[k])
      OBVIOUS
    <3> QED
      BY <3>1, <3>2, NextBlockIs
  <2>2. \A p \in (1 .. n) \X X : NextBlock(p[2], p[1], entries) \in X
    BY <2>1
  <2> QED
    BY <2>2
<1> HIDE DEF F, b, X
<1>4. PICK it : IsFold(it, n, X, b, F)
  BY <1>1, <1>3, FoldExists
<1>5. ASSUME NEW S \in SUBSET (1 .. n), S # {}
      PROVE  it[S] = NextBlock(it[S \ {Max(S)}], Max(S), entries)
  <2>1. Max(S) \in 1 .. n
    BY <1>1, <1>5, MaxIn
  <2>2. it[S \ {Max(S)}] \in X /\ it[S] = F[<<Max(S), it[S \ {Max(S)}]>>]
    BY <1>4, <1>5 DEF IsFold
  <2> QED
    BY <1>2, <2>1, <2>2
<1>6. it[{}] = b /\ it = [S \in SUBSET (1 .. n) |-> it[S]]
  BY <1>4 DEF IsFold
<1> DEFINE ids == [i \in DOMAIN entries |-> i]
<1>7. DOMAIN ids = 1 .. n /\ \A i \in 1 .. n : ids[i] = i
  BY <1>1
<1>8. IsAccessFold(it, entries)
  <2>1. ASSUME NEW S \in SUBSET (1 .. n), S # {}
        PROVE  it[S] = NextBlock(it[S \ {Max(S)}], ids[Max(S)], entries)
    <3>1. Max(S) \in 1 .. n
      BY <1>1, <2>1, MaxIn
    <3> HIDE DEF ids
    <3> QED
      BY <1>5, <1>7, <2>1, <3>1
  <2> HIDE DEF ids
  <2> PICK ids1 : ids1 = ids
    OBVIOUS
  <2>2. it = [S \in SUBSET (1 .. n) |->
               IF S = {} THEN <<>> ELSE NextBlock(it[S \ {Max(S)}], ids[Max(S)], entries)]
    BY <1>6, <2>1 DEF b
  <2> QED
    BY <1>7, <2>2 DEF IsAccessFold, ids
<1> DEFINE run == CHOOSE r : IsAccessFold(r, entries)
<1>9. IsAccessFold(run, entries)
  BY <1>8
<1>10. AccessList(entries) = run[DOMAIN ids]
  BY DEF AccessList, FoldLeftDomain, FoldLeft, MapThenFoldSet, IsAccessFold, NextBlock
<1> HIDE DEF run, ids
<1>11. run[{}] = b
  BY <1>9 DEF IsAccessFold, b
<1>12. ASSUME NEW k \in 1 .. n, run[1 .. k - 1] \in X
       PROVE  run[1 .. k] = F[<<k, run[1 .. k - 1]>>]
  <2>1. /\ Max(1 .. k) = k /\ (1 .. k) \ {k} = 1 .. k - 1 /\ 1 .. k # {}
        /\ 1 .. k \in SUBSET (1 .. n)
    <3>1. k \in Nat /\ k > 0 /\ 1 .. k \in SUBSET (1 .. n)
      BY <1>1
    <3> QED
      BY <3>1, MaxUpTo
  <2>2. run[1 .. k] = NextBlock(run[1 .. k - 1], k, entries)
    <3>1. run = [S \in SUBSET DOMAIN ids |->
                  IF S = {} THEN <<>> ELSE NextBlock(run[S \ {Max(S)}], ids[Max(S)], entries)]
      BY <1>9 DEF IsAccessFold, ids
    <3>2. run[1 .. k] = NextBlock(run[(1 .. k) \ {Max(1 .. k)}], ids[Max(1 .. k)], entries)
      BY <1>7, <2>1, <3>1
    <3> QED
      BY <1>7, <2>1, <3>2
  <2> QED
    BY <1>2, <1>12, <2>2
<1>13. Follows(run, n, X, b, F)
  BY <1>11, <1>12 DEF Follows
<1>14. PICK f : IsPartial(f, n, X, b, F, run)
  BY <1>1, <1>3, <1>13, FoldIs
<1>15. /\ f \in [0 .. n -> X] /\ f[0] = b /\ f[n] = run[1 .. n]
       /\ \A k \in 1 .. n : f[k] = F[<<k, f[k - 1]>>]
  BY <1>14 DEF IsPartial
<1>16. ASSUME NEW k \in 1 .. n PROVE f[k] = NextBlock(f[k - 1], k, entries)
  <2>1. k - 1 \in 0 .. n
    BY <1>1
  <2> QED
    BY <1>2, <1>15, <2>1
<1>17. AccessList(entries) = f[n]
  BY <1>7, <1>10, <1>15
<1> QED
  BY <1>15, <1>16, <1>17 DEF X, b

AreaOf(entries, i) == Ticket(entries, i).area
Key(a) == Pos(Areas, a)
Sorted(entries) ==
  \A j, k \in 1 .. Len(entries) : j < k => Key(AreaOf(entries, j)) <= Key(AreaOf(entries, k))

LEMMA KeyIs ==
  ASSUME NEW a \in Range(Areas)
  PROVE  Key(a) \in Nat /\ Areas[Key(a)] = a
<1>1. Areas \in Seq(Range(Areas))
  BY CatalogAssumption
<1>2. \E k \in DOMAIN Areas : Areas[k] = a
  BY DEF Range
<1>3. Key(a) \in DOMAIN Areas /\ Areas[Key(a)] = a
  BY <1>2 DEF Key, Pos
<1>4. DOMAIN Areas = 1 .. Len(Areas) /\ Len(Areas) \in Nat
  BY <1>1
<1> QED
  BY <1>3, <1>4

(* The tickets of an area among the first k. *)
InFirst(entries, k, a) == {entries[i] : i \in {j \in 1 .. k : AreaOf(entries, j) = a}}

FileSize == [n \in DOMAIN tickets |-> TicSize(n)]

OneBlock(b, k, entries, g) ==
  /\ b.area \in known /\ b.begin \in 1 .. k /\ b.count \in Nat \ {0} /\ b.begin + b.count - 1 <= k
  /\ \A i \in 1 .. k : AreaOf(entries, i) = b.area <=> b.begin <= i /\ i <= b.begin + b.count - 1
  /\ b.size = g[InFirst(entries, k, b.area)] % Word

Blocks(l, k, entries, g) ==
  /\ \A j \in DOMAIN l : OneBlock(l[j], k, entries, g)
  /\ \A i, j \in DOMAIN l : i < j => Key(l[i].area) < Key(l[j].area)
  /\ \A i \in 1 .. k : AreaOf(entries, i) \in known =>
       \E j \in DOMAIN l : l[j].area = AreaOf(entries, i)

Listing(entries, g) ==
  /\ tickets \in Seq(TicketType) /\ known \subseteq Range(Areas)
  /\ entries \in Seq(DOMAIN tickets) /\ IsInjective(entries) /\ Sorted(entries)
  /\ IsSum(g, DOMAIN tickets, FileSize)

LEMMA OneMoreTicket ==
  ASSUME NEW entries, NEW g, Listing(entries, g), NEW k \in 1 .. Len(entries), NEW a
  PROVE  /\ AreaOf(entries, k) # a => InFirst(entries, k, a) = InFirst(entries, k - 1, a)
         /\ AreaOf(entries, k) = a =>
              /\ InFirst(entries, k, a) = InFirst(entries, k - 1, a) \cup {entries[k]}
              /\ g[InFirst(entries, k, a)]
                   = g[InFirst(entries, k - 1, a)] + TicSize(entries[k])
         /\ InFirst(entries, k - 1, a) \in SUBSET DOMAIN tickets
         /\ g[InFirst(entries, k - 1, a)] \in Nat
<1>1. /\ entries \in Seq(DOMAIN tickets) /\ IsInjective(entries)
      /\ IsSum(g, DOMAIN tickets, FileSize) /\ tickets \in Seq(TicketType)
  BY DEF Listing
<1>2. /\ k \in Nat /\ Len(entries) \in Nat /\ DOMAIN entries = 1 .. Len(entries)
      /\ \A i \in 1 .. Len(entries) : entries[i] \in DOMAIN tickets
  BY <1>1
<1> DEFINE old == {j \in 1 .. k - 1 : AreaOf(entries, j) = a}
           new == {j \in 1 .. k : AreaOf(entries, j) = a}
           D == DOMAIN tickets
<1>3. InFirst(entries, k, a) = {entries[i] : i \in new}
      /\ InFirst(entries, k - 1, a) = {entries[i] : i \in old}
  BY DEF InFirst
<1>4. old \in SUBSET (1 .. Len(entries)) /\ k \notin old
  BY <1>2
<1>5. new = IF AreaOf(entries, k) = a THEN old \cup {k} ELSE old
  BY <1>2
<1> HIDE DEF old, new
<1> PICK s : s = InFirst(entries, k - 1, a)
  OBVIOUS
<1>6. s \in SUBSET D /\ entries[k] \in D
  BY <1>2, <1>3, <1>4
<1>7. g \in [SUBSET D -> Nat] /\ \A u \in SUBSET D : \A x \in u : g[u] = FileSize[x] + g[u \ {x}]
  BY <1>1 DEF IsSum
<1>8. AreaOf(entries, k) # a => InFirst(entries, k, a) = s
  BY <1>3, <1>5
<1>9. ASSUME AreaOf(entries, k) = a
      PROVE  InFirst(entries, k, a) = s \cup {entries[k]}
             /\ g[InFirst(entries, k, a)] = g[s] + TicSize(entries[k])
  <2>1. InFirst(entries, k, a) = s \cup {entries[k]}
    BY <1>3, <1>5, <1>9
  <2>2. entries[k] \notin s
    BY <1>1, <1>2, <1>3, <1>4 DEF IsInjective
  <2>3. (s \cup {entries[k]}) \ {entries[k]} = s /\ s \cup {entries[k]} \in SUBSET D
    BY <1>6, <2>2
  <2>4. FileSize[entries[k]] = TicSize(entries[k])
    BY <1>6 DEF FileSize, Ticket
  <2>5. g[s \cup {entries[k]}] = FileSize[entries[k]] + g[s]
    BY <1>7, <2>3, ZenonT(60)
  <2>6. g[s] \in Nat /\ TicSize(entries[k]) \in Nat
    BY <1>1, <1>6, <1>7, TicketsListed
  <2> QED
    BY <2>1, <2>4, <2>5, <2>6
<1> QED
  BY <1>6, <1>7, <1>8, <1>9

LEMMA BlockKept ==
  ASSUME NEW entries, NEW g, Listing(entries, g), NEW k \in 1 .. Len(entries), NEW b \in Block,
         OneBlock(b, k - 1, entries, g), AreaOf(entries, k) # b.area
  PROVE  OneBlock(b, k, entries, g)
<1>1. InFirst(entries, k, b.area) = InFirst(entries, k - 1, b.area)
  BY OneMoreTicket
<1>2. b.begin \in Nat /\ b.count \in Nat /\ k \in Nat
  BY DEF Block
<1> QED
  BY <1>1, <1>2 DEF OneBlock

LEMMA NextEnd ==
  ASSUME NEW begin \in Nat, NEW count \in Nat, NEW k \in Nat, begin + count - 1 = k - 1
  PROVE  begin + (count + 1) - 1 = k /\ begin <= k
OBVIOUS

LEMMA BlockGrows ==
  ASSUME NEW entries, NEW g, Listing(entries, g), NEW k \in 1 .. Len(entries), NEW b \in Block,
         OneBlock(b, k - 1, entries, g), AreaOf(entries, k) = b.area
  PROVE  OneBlock(OneMoreOf(b, TicSize(entries[k])), k, entries, g)
<1> PICK sz : sz = TicSize(entries[k])
  OBVIOUS
<1> PICK new : new = OneMoreOf(b, sz)
  OBVIOUS
<1> PICK bg : bg = b.begin
  OBVIOUS
<1> PICK ct : ct = b.count
  OBVIOUS
<1>1. /\ new.area = b.area /\ new.begin = bg /\ new.count = ct + 1
      /\ new.size = (b.size + sz) % Word
  BY DEF OneMoreOf
<1>2. /\ bg \in Nat /\ ct \in Nat /\ k \in Nat /\ Len(entries) \in Nat
      /\ tickets \in Seq(TicketType) /\ known \subseteq Range(Areas)
      /\ entries \in Seq(DOMAIN tickets) /\ Sorted(entries)
  BY DEF Block, Listing
<1>3. /\ b.area \in known /\ bg \in 1 .. k - 1 /\ ct \in Nat \ {0}
      /\ bg + ct - 1 <= k - 1
      /\ \A i \in 1 .. k - 1 : AreaOf(entries, i) = b.area <=> bg <= i /\ i <= bg + ct - 1
      /\ b.size = g[InFirst(entries, k - 1, b.area)] % Word
  BY DEF OneBlock
<1>4. AreaOf(entries, bg) = b.area
  <2>1. bg <= bg /\ bg <= bg + ct - 1
    BY <1>2, <1>3, SMTT(60)
  <2> QED
    BY <1>3, <2>1
<1>5. AreaOf(entries, k - 1) = b.area
  <2>1. CASE bg = k - 1
    BY <1>4, <2>1
  <2>2. CASE bg < k - 1
    <3> PICK j : j = k - 1
      OBVIOUS
    <3>1. j \in 1 .. Len(entries) /\ bg \in 1 .. Len(entries) /\ bg < j /\ j < k
      BY <1>2, <1>3, <2>2, SMTT(60)
    <3>2. Key(AreaOf(entries, bg)) <= Key(AreaOf(entries, j))
          /\ Key(AreaOf(entries, j)) <= Key(AreaOf(entries, k))
      BY <1>2, <3>1 DEF Sorted
    <3>3. AreaOf(entries, j) \in Range(Areas) /\ b.area \in Range(Areas)
      BY <1>2, <1>3, <3>1, TicketsListed DEF AreaOf, TicketType
    <3>4. Key(AreaOf(entries, j)) = Key(b.area)
      BY <1>4, <3>2, <3>3, KeyIs
    <3> QED
      BY <3>3, <3>4, KeyIs
  <2> QED
    BY <1>2, <1>3, <2>1, <2>2, SMTT(60)
<1>6. bg + ct - 1 = k - 1
  <2>1. k - 1 \in 1 .. k - 1
    BY <1>2, <1>3
  <2> QED
    BY <1>2, <1>3, <1>5, <2>1, SMTT(60)
<1>7. \A i \in 1 .. k : AreaOf(entries, i) = b.area <=> bg <= i /\ i <= bg + (ct + 1) - 1
  <2>1. bg \in Nat /\ ct \in Nat /\ k \in Nat
    BY <1>2
  <2>2. bg + (ct + 1) - 1 = k /\ bg <= k
    BY <1>6, <2>1, NextEnd
  <2>3. ASSUME NEW i \in 1 .. k - 1
        PROVE  AreaOf(entries, i) = b.area <=> bg <= i /\ i <= k
    <3>1. i <= k - 1 /\ i <= k
      BY <2>1
    <3>2. AreaOf(entries, i) = b.area <=> bg <= i /\ i <= bg + ct - 1
      BY <1>3
    <3> QED
      BY <1>6, <3>1, <3>2
  <2>4. \A i \in 1 .. k : i = k \/ i \in 1 .. k - 1
    BY <2>1
  <2>5. AreaOf(entries, k) = b.area /\ k <= k
    BY <2>1
  <2> QED
    BY <2>2, <2>3, <2>4, <2>5
<1>8. new.size = g[InFirst(entries, k, b.area)] % Word
  <2>1. /\ g[InFirst(entries, k, b.area)] = g[InFirst(entries, k - 1, b.area)] + sz
        /\ g[InFirst(entries, k - 1, b.area)] \in Nat
    BY OneMoreTicket
  <2>2. sz \in Nat /\ Word \in Nat \ {0}
    BY <1>2, TicketsListed, CatalogAssumption
  <2> PICK x : x = g[InFirst(entries, k - 1, b.area)]
    OBVIOUS
  <2>3. ((x % Word) + sz) % Word = (x + sz) % Word
    BY <2>1, <2>2, ModNat
  <2> QED
    BY <1>1, <1>3, <2>1, <2>3
<1>9. new.begin \in 1 .. k /\ new.count \in Nat \ {0} /\ new.begin + new.count - 1 <= k
  <2>1. new.begin = bg /\ new.count = ct + 1
    BY <1>1
  <2>2. bg \in Nat /\ ct \in Nat /\ k \in Nat /\ bg \in 1 .. k - 1 /\ bg + ct - 1 = k - 1
    BY <1>2, <1>3, <1>6
  <2>3. bg \in 1 .. k /\ ct + 1 \in Nat \ {0} /\ bg + (ct + 1) - 1 <= k
    BY <2>2, SMTT(60)
  <2> QED
    BY <2>1, <2>3
<1> QED
  BY <1>1, <1>3, <1>7, <1>8, <1>9 DEF OneBlock

(* Areas in the list come no later than the area of the next ticket, and a *)
(* new area is not among them.                                             *)
LEMMA NewArea ==
  ASSUME NEW entries, NEW g, Listing(entries, g), NEW k \in 1 .. Len(entries),
         NEW l \in Seq(Block), Blocks(l, k - 1, entries, g), NEW a, a = AreaOf(entries, k),
         l = <<>> \/ l[Len(l)].area # a
  PROVE  /\ a \in Range(Areas)
         /\ \A j \in DOMAIN l : l[j].area # a /\ Key(l[j].area) < Key(a)
         /\ a \in known => \A i \in 1 .. k - 1 : AreaOf(entries, i) # a
<1>1. /\ k \in Nat /\ Len(entries) \in Nat /\ tickets \in Seq(TicketType)
      /\ known \subseteq Range(Areas) /\ entries \in Seq(DOMAIN tickets) /\ Sorted(entries)
  BY SMTT(60) DEF Listing
<1>2. /\ \A j \in DOMAIN l : OneBlock(l[j], k - 1, entries, g)
      /\ \A i, j \in DOMAIN l : i < j => Key(l[i].area) < Key(l[j].area)
      /\ \A i \in 1 .. k - 1 : AreaOf(entries, i) \in known =>
           \E j \in DOMAIN l : l[j].area = AreaOf(entries, i)
  BY DEF Blocks
<1>3. a \in Range(Areas)
  BY <1>1, TicketsListed DEF AreaOf, TicketType
<1>4. Len(l) \in Nat /\ DOMAIN l = 1 .. Len(l)
  OBVIOUS
<1>5. ASSUME NEW j \in DOMAIN l
      PROVE  l[j].area \in Range(Areas) /\ Key(l[j].area) <= Key(a)
  <2> PICK b : b = l[j]
    OBVIOUS
  <2>1. b \in Block /\ OneBlock(b, k - 1, entries, g)
    BY <1>2
  <2> PICK i : i = b.begin
    OBVIOUS
  <2>2. /\ b.area \in known /\ i \in 1 .. k - 1 /\ i \in Nat
        /\ AreaOf(entries, i) = b.area
    <3> PICK ct : ct = b.count
      OBVIOUS
    <3>1. /\ i \in 1 .. k - 1 /\ ct \in Nat \ {0} /\ b.area \in known
          /\ \A m \in 1 .. k - 1 : AreaOf(entries, m) = b.area <=> i <= m /\ m <= i + ct - 1
      BY <2>1 DEF OneBlock
    <3>2. i \in Nat /\ i <= i /\ i <= i + ct - 1
      <4>1. i \in 1 .. k - 1 /\ ct \in Nat \ {0} /\ k \in Nat
        BY <1>1, <3>1
      <4> QED
        BY <4>1
    <3> QED
      BY <3>1, <3>2
  <2>3. i \in 1 .. Len(entries) /\ i < k
    BY <1>1, <2>2, SMTT(60)
  <2>4. Key(AreaOf(entries, i)) <= Key(AreaOf(entries, k))
    BY <1>1, <2>3 DEF Sorted
  <2> QED
    BY <1>1, <2>2, <2>4
<1>6. ASSUME NEW j \in DOMAIN l PROVE l[j].area # a /\ Key(l[j].area) < Key(a)
  <2> PICK last : last = Len(l)
    OBVIOUS
  <2>1. l # <<>> /\ last \in DOMAIN l /\ last \in Nat /\ j \in Nat /\ j <= last
    BY <1>4, <1>6
  <2>2. l[last].area \in Range(Areas) /\ Key(l[last].area) <= Key(a) /\ l[last].area # a
    BY <1>5, <2>1
  <2>3. /\ Key(l[last].area) \in Nat /\ Key(a) \in Nat /\ Areas[Key(l[last].area)] = l[last].area
        /\ Areas[Key(a)] = a
    BY <1>3, <2>2, KeyIs
  <2>4. Key(l[last].area) < Key(a)
    BY <2>2, <2>3
  <2>5. l[j].area \in Range(Areas) /\ Key(l[j].area) \in Nat
    BY <1>5, KeyIs
  <2>6. Key(l[j].area) < Key(a)
    <3>1. CASE j = last
      BY <2>4, <3>1
    <3>2. CASE j < last
      <4>1. Key(l[j].area) < Key(l[last].area)
        BY <1>2, <2>1, <3>2
      <4> QED
        BY <2>3, <2>4, <2>5, <4>1
    <3> QED
      BY <2>1, <3>1, <3>2
  <2>7. l[j].area # a
    BY <2>3, <2>6
  <2> QED
    BY <2>6, <2>7
<1>7. ASSUME a \in known, NEW i \in 1 .. k - 1, AreaOf(entries, i) = a PROVE FALSE
  BY <1>2, <1>6, <1>7
<1> QED
  BY <1>3, <1>6, <1>7

LEMMA NewBlock ==
  ASSUME NEW entries, NEW g, Listing(entries, g), NEW k \in 1 .. Len(entries),
         NEW a, a = AreaOf(entries, k), a \in known, \A i \in 1 .. k - 1 : AreaOf(entries, i) # a
  PROVE  OneBlock(FirstOf(a, k, TicSize(entries[k])), k, entries, g)
<1> PICK sz : sz = TicSize(entries[k])
  OBVIOUS
<1> PICK new : new = FirstOf(a, k, sz)
  OBVIOUS
<1>1. new.area = a /\ new.begin = k /\ new.count = 1 /\ new.size = sz % Word
  BY DEF FirstOf
<1>2. /\ k \in Nat /\ k > 0 /\ tickets \in Seq(TicketType) /\ entries \in Seq(DOMAIN tickets)
      /\ IsSum(g, DOMAIN tickets, FileSize)
  BY DEF Listing
<1>3. InFirst(entries, k - 1, a) = {}
  BY DEF InFirst
<1>4. g[InFirst(entries, k, a)] = sz
  <2>1. g[InFirst(entries, k, a)] = g[InFirst(entries, k - 1, a)] + sz
    BY OneMoreTicket
  <2>2. sz \in Nat
    BY <1>2, TicketsListed
  <2>3. g[{}] = 0
    BY <1>2 DEF IsSum
  <2>4. g[InFirst(entries, k - 1, a)] = 0
    BY <1>3, <2>3
  <2> QED
    BY <2>1, <2>2, <2>4
<1>5. \A i \in 1 .. k : AreaOf(entries, i) = a <=> k <= i /\ i <= k + 1 - 1
  <2> SUFFICES ASSUME NEW i \in 1 .. k
               PROVE  AreaOf(entries, i) = a <=> k <= i /\ i <= k + 1 - 1
    OBVIOUS
  <2>1. CASE i = k
    BY <1>2, <2>1
  <2>2. CASE i \in 1 .. k - 1
    BY <1>2, <2>2
  <2> QED
    BY <1>2, <2>1, <2>2
<1>6. k \in 1 .. k /\ 1 \in Nat \ {0} /\ k + 1 - 1 <= k
  BY <1>2
<1> QED
  BY <1>1, <1>4, <1>5, <1>6 DEF OneBlock

LEMMA BlocksStep ==
  ASSUME NEW entries, NEW g, Listing(entries, g), NEW k \in 1 .. Len(entries),
         NEW l \in Seq(Block), Blocks(l, k - 1, entries, g)
  PROVE  Blocks(NextBlock(l, k, entries), k, entries, g)
<1> PICK a : a = AreaOf(entries, k)
  OBVIOUS
<1> PICK sz : sz = TicSize(entries[k])
  OBVIOUS
<1> PICK r : r = NextBlock(l, k, entries)
  OBVIOUS
<1> PICK n : n = Len(l)
  OBVIOUS
<1>1. /\ k \in Nat /\ Len(entries) \in Nat /\ tickets \in Seq(TicketType)
      /\ entries \in Seq(DOMAIN tickets)
  BY DEF Listing
<1>2. /\ \A j \in DOMAIN l : OneBlock(l[j], k - 1, entries, g)
      /\ \A i, j \in DOMAIN l : i < j => Key(l[i].area) < Key(l[j].area)
      /\ \A i \in 1 .. k - 1 : AreaOf(entries, i) \in known =>
           \E j \in DOMAIN l : l[j].area = AreaOf(entries, i)
  BY DEF Blocks
<1>3. n \in Nat /\ DOMAIN l = 1 .. n /\ \A j \in DOMAIN l : l[j] \in Block
  OBVIOUS
<1>4. \A i \in 1 .. k : i \in 1 .. k - 1 \/ i = k
  BY <1>1
<1>5. /\ Ticket(entries, k) \in TicketType /\ sz \in Nat /\ Word \in Nat \ {0}
  BY <1>1, TicketsListed, CatalogAssumption
<1> DEFINE new == IsNew(l, a)
<1>6. /\ new /\ a \notin known => r = l
      /\ new /\ a \in known => r = Append(l, FirstOf(a, k, sz))
      /\ ~new => l # <<>> /\ l[n].area = a /\ r = [l EXCEPT ![n] = OneMoreOf(l[n], sz)]
      /\ FirstOf(a, k, sz) \in Block
  <2> PICK t : t = Ticket(entries, k)
    OBVIOUS
  <2>1. t.area = a /\ TicSize(entries[k]) = sz
    BY DEF AreaOf
  <2>2. t \in TicketType /\ k \in Nat
    BY <1>1, <1>5
  <2>3. /\ IsNew(l, a) /\ a \notin known => NextBlock(l, k, entries) = l
        /\ IsNew(l, a) /\ a \in known => NextBlock(l, k, entries) = Append(l, FirstOf(a, k, sz))
    BY <1>5, <2>1, <2>2, NextBlockIs, SMTT(60)
  <2>4. FirstOf(a, k, sz) \in Block
    BY <1>5, <2>1, <2>2, NextBlockIs
  <2>5. ~IsNew(l, a) =>
          /\ l # <<>> /\ l[Len(l)].area = a
          /\ NextBlock(l, k, entries) = [l EXCEPT ![Len(l)] = OneMoreOf(l[Len(l)], sz)]
    BY <1>5, <2>1, <2>2, NextBlockIs, SMTT(60)
  <2> QED
    BY <2>3, <2>4, <2>5
<1>7. new => /\ \A j \in DOMAIN l : l[j].area # a /\ Key(l[j].area) < Key(a)
             /\ a \in known => \A i \in 1 .. k - 1 : AreaOf(entries, i) # a
  BY NewArea DEF IsNew
<1> HIDE DEF new
<1>8. CASE new /\ a \notin known
  <2>1. \A j \in DOMAIN l : OneBlock(l[j], k, entries, g)
    BY <1>2, <1>3, <1>7, <1>8, BlockKept
  <2>2. \A i \in 1 .. k : AreaOf(entries, i) \in known =>
           \E j \in DOMAIN l : l[j].area = AreaOf(entries, i)
    BY <1>2, <1>4, <1>8
  <2> QED
    BY <1>2, <1>6, <1>8, <2>1, <2>2 DEF Blocks
<1>9. CASE new /\ a \in known
  <2> PICK b : b = FirstOf(a, k, sz)
    OBVIOUS
  <2>1. b \in Block /\ b.area = a /\ r = Append(l, b)
    BY <1>6, <1>9 DEF FirstOf
  <2>2. /\ DOMAIN r = 1 .. n + 1 /\ r[n + 1] = b /\ \A j \in 1 .. n : r[j] = l[j]
    BY <1>3, <2>1
  <2>3. OneBlock(b, k, entries, g)
    BY <1>7, <1>9, NewBlock
  <2>4. \A j \in 1 .. n + 1 : j \in 1 .. n \/ j = n + 1
    BY <1>3
  <2>5. \A j \in DOMAIN r : OneBlock(r[j], k, entries, g)
    <3>1. \A j \in 1 .. n : OneBlock(l[j], k, entries, g)
      BY <1>2, <1>3, <1>7, <1>9, BlockKept
    <3> QED
      BY <2>2, <2>3, <2>4, <3>1
  <2>6. ASSUME NEW i \in DOMAIN r, NEW j \in DOMAIN r, i < j
        PROVE  Key(r[i].area) < Key(r[j].area)
    <3>1. i \in 1 .. n
      BY <1>3, <2>2, <2>6
    <3>2. CASE j = n + 1
      BY <1>3, <1>7, <1>9, <2>1, <2>2, <3>1, <3>2
    <3>3. CASE j \in 1 .. n
      BY <1>2, <1>3, <2>2, <2>6, <3>1, <3>3
    <3> QED
      BY <2>2, <2>4, <3>2, <3>3
  <2>7. ASSUME NEW i \in 1 .. k, AreaOf(entries, i) \in known
        PROVE  \E j \in DOMAIN r : r[j].area = AreaOf(entries, i)
    <3>1. CASE i = k
      <4>1. n + 1 \in DOMAIN r
        BY <1>3, <2>2
      <4> QED
        BY <2>1, <2>2, <3>1, <4>1
    <3>2. CASE i \in 1 .. k - 1
      <4>1. PICK j \in 1 .. n : l[j].area = AreaOf(entries, i)
        BY <1>2, <1>3, <2>7, <3>2
      <4>2. j \in DOMAIN r /\ r[j].area = AreaOf(entries, i)
        BY <1>3, <2>2, <4>1
      <4> QED
        BY <4>2
    <3> QED
      BY <1>4, <3>1, <3>2
  <2> QED
    BY <2>5, <2>6, <2>7 DEF Blocks
<1>10. CASE ~new
  <2> PICK b : b = OneMoreOf(l[n], sz)
    OBVIOUS
  <2>1. l # <<>> /\ l[n].area = a /\ n \in DOMAIN l /\ b.area = a /\ r = [l EXCEPT ![n] = b]
    BY <1>3, <1>6, <1>10 DEF OneMoreOf
  <2>2. DOMAIN r = 1 .. n /\ r[n] = b /\ \A j \in 1 .. n : j # n => r[j] = l[j]
    BY <1>3, <2>1
  <2>3. OneBlock(b, k, entries, g)
    BY <1>2, <1>3, <2>1, BlockGrows
  <2>4. ASSUME NEW j \in DOMAIN r PROVE OneBlock(r[j], k, entries, g)
    <3>1. CASE j = n
      BY <2>2, <2>3, <3>1
    <3>2. CASE j # n
      <4>1. j \in 1 .. n /\ j < n
        BY <1>3, <2>2, <3>2
      <4>2. Key(l[j].area) < Key(l[n].area)
        BY <1>2, <1>3, <2>1, <4>1
      <4>3. l[j].area # a
        <5>1. l[n].area \in Range(Areas)
          BY <1>3, <2>1 DEF Block
        <5>2. Key(l[n].area) \in Nat
          BY <5>1, KeyIs
        <5> QED
          BY <2>1, <4>2, <5>2
      <4> QED
        BY <1>2, <1>3, <2>2, <3>2, <4>1, <4>3, BlockKept
    <3> QED
      BY <3>1, <3>2
  <2>5. \A j \in 1 .. n : r[j].area = l[j].area
    BY <2>1, <2>2
  <2>6. ASSUME NEW i \in 1 .. k, AreaOf(entries, i) \in known
        PROVE  \E j \in 1 .. n : l[j].area = AreaOf(entries, i)
    BY <1>2, <1>3, <1>4, <2>1, <2>6
  <2> QED
    BY <1>2, <1>3, <2>2, <2>4, <2>5, <2>6, ZenonT(60) DEF Blocks
<1> QED
  BY <1>8, <1>9, <1>10

LEMMA AccessListRight ==
  ASSUME NEW entries, NEW g, Listing(entries, g)
  PROVE  /\ AccessList(entries) \in Seq(Block)
         /\ Blocks(AccessList(entries), Len(entries), entries, g)
<1> PICK n : n = Len(entries)
  OBVIOUS
<1>1. tickets \in Seq(TicketType) /\ entries \in Seq(DOMAIN tickets) /\ n \in Nat
  BY DEF Listing
<1>2. PICK f \in [0 .. n -> Seq(Block)] :
        /\ f[0] = <<>> /\ AccessList(entries) = f[n]
        /\ \A k \in 1 .. n : f[k] = NextBlock(f[k - 1], k, entries)
  BY <1>1, AccessFold
<1> DEFINE T == {k \in Nat : k <= n => Blocks(f[k], k, entries, g)}
<1>3. 0 \in T
  <2>1. Blocks(<<>>, 0, entries, g)
    BY DEF Blocks
  <2> QED
    BY <1>2, <2>1
<1>4. ASSUME NEW k \in Nat, k \in T PROVE k + 1 \in T
  <2> SUFFICES ASSUME k + 1 <= n PROVE Blocks(f[k + 1], k + 1, entries, g)
    OBVIOUS
  <2>1. k + 1 \in 1 .. n /\ (k + 1) - 1 = k /\ k \in 0 .. n /\ Blocks(f[k], k, entries, g)
    BY <1>1, <1>4
  <2> HIDE DEF T
  <2>2. f[k + 1] = NextBlock(f[k], k + 1, entries) /\ f[k] \in Seq(Block)
    BY <1>2, <2>1
  <2> QED
    BY <2>1, <2>2, BlocksStep
<1>5. \A k \in Nat : k \in T
  <2> HIDE DEF T
  <2> QED
    BY <1>3, <1>4, NatInduct
<1>6. n \in T
  <2> HIDE DEF T
  <2> QED
    BY <1>1, <1>5
<1> QED
  BY <1>1, <1>2, <1>6, SMTT(60)

-----------------------------------------------------------------------------
(* What reportNewFiles makes of the list: a part for each area that the    *)
(* definition matches, the sum of their sizes, and the number of tickets.  *)

PutMatch(parts, a, d) == IF IsAreaMatched(a.area, d) THEN Append(parts, a) ELSE parts

MatchedIn(l, d) ==
  LET Match(parts, a) == IF IsAreaMatched(a.area, d) THEN Append(parts, a) ELSE parts
  IN  FoldLeft(Match, <<>>, l)
SizeIn(l) == FoldLeft(LAMBDA bs, a : IncBigSize(bs, a.size), ZeroSize, l)
NumberIn(l) == FoldLeft(LAMBDA n, a : n + a.count, 0, l)

IsMatchFold(it, l, d) ==
  it = [S \in SUBSET DOMAIN l |->
          IF S = {} THEN <<>> ELSE PutMatch(it[S \ {Max(S)}], l[Max(S)], d)]

IsSizeFold(it, l) ==
  it = [S \in SUBSET DOMAIN l |->
          IF S = {} THEN ZeroSize ELSE IncBigSize(it[S \ {Max(S)}], l[Max(S)].size)]

IsNumberFold(it, l) ==
  it = [S \in SUBSET DOMAIN l |->
          IF S = {} THEN 0 ELSE it[S \ {Max(S)}] + l[Max(S)].count]

LEMMA MatchFold ==
  ASSUME NEW l \in Seq(Block), NEW d
  PROVE  \E f \in [0 .. Len(l) -> Seq(Block)] :
           /\ f[0] = <<>> /\ MatchedIn(l, d) = f[Len(l)]
           /\ \A k \in 1 .. Len(l) : f[k] = PutMatch(f[k - 1], l[k], d)
<1> PICK n : n = Len(l)
  OBVIOUS
<1> DEFINE X == Seq(Block)
           b == <<>>
           F == [p \in (1 .. n) \X X |-> PutMatch(p[2], l[p[1]], d)]
<1>1. n \in Nat /\ DOMAIN l = 1 .. n /\ (\A k \in 1 .. n : l[k] \in Block) /\ b \in X
  OBVIOUS
<1>2. \A x \in X, k \in 1 .. n : F[<<k, x>>] = PutMatch(x, l[k], d)
  OBVIOUS
<1>3. F \in [(1 .. n) \X X -> X]
  <2>1. ASSUME NEW a \in Block, NEW x \in X PROVE PutMatch(x, a, d) \in X
    BY DEF PutMatch
  <2>2. \A p \in (1 .. n) \X X : PutMatch(p[2], l[p[1]], d) \in X
    BY <1>1, <2>1
  <2> QED
    BY <2>2
<1> HIDE DEF F, b, X
<1>4. PICK it : IsFold(it, n, X, b, F)
  BY <1>1, <1>3, FoldExists
<1>5. ASSUME NEW S \in SUBSET (1 .. n), S # {}
      PROVE  it[S] = PutMatch(it[S \ {Max(S)}], l[Max(S)], d)
  <2>1. Max(S) \in 1 .. n
    BY <1>1, <1>5, MaxIn
  <2>2. it[S \ {Max(S)}] \in X /\ it[S] = F[<<Max(S), it[S \ {Max(S)}]>>]
    BY <1>4, <1>5 DEF IsFold
  <2> QED
    BY <1>2, <2>1, <2>2
<1>6. it[{}] = b /\ it = [S \in SUBSET (1 .. n) |-> it[S]]
  BY <1>4 DEF IsFold
<1>7. IsMatchFold(it, l, d)
  BY <1>1, <1>5, <1>6 DEF IsMatchFold, b
<1> DEFINE run == CHOOSE r : IsMatchFold(r, l, d)
<1>8. IsMatchFold(run, l, d)
  BY <1>7
<1>9. MatchedIn(l, d) = run[DOMAIN l]
  BY DEF MatchedIn, FoldLeft, MapThenFoldSet, IsMatchFold, PutMatch
<1> HIDE DEF run
<1>10. run[{}] = b
  BY <1>8 DEF IsMatchFold, b
<1>11. ASSUME NEW k \in 1 .. n, run[1 .. k - 1] \in X
       PROVE  run[1 .. k] = F[<<k, run[1 .. k - 1]>>]
  <2>1. /\ Max(1 .. k) = k /\ (1 .. k) \ {k} = 1 .. k - 1 /\ 1 .. k # {}
        /\ 1 .. k \in SUBSET (1 .. n)
    <3>1. k \in Nat /\ k > 0 /\ 1 .. k \in SUBSET (1 .. n)
      BY <1>1
    <3> QED
      BY <3>1, MaxUpTo
  <2>2. run[1 .. k] = PutMatch(run[1 .. k - 1], l[k], d)
    BY <1>1, <1>8, <2>1 DEF IsMatchFold
  <2> QED
    BY <1>2, <1>11, <2>2
<1>12. Follows(run, n, X, b, F)
  BY <1>10, <1>11 DEF Follows
<1>13. PICK f : IsPartial(f, n, X, b, F, run)
  BY <1>1, <1>3, <1>12, FoldIs
<1>14. /\ f \in [0 .. n -> X] /\ f[0] = b /\ f[n] = run[1 .. n]
       /\ \A k \in 1 .. n : f[k] = F[<<k, f[k - 1]>>]
  BY <1>13 DEF IsPartial
<1>15. ASSUME NEW k \in 1 .. n PROVE f[k] = PutMatch(f[k - 1], l[k], d)
  <2>1. k - 1 \in 0 .. n
    BY <1>1
  <2> QED
    BY <1>2, <1>14, <2>1
<1> QED
  BY <1>1, <1>9, <1>14, <1>15, ZenonT(60) DEF X, b

LEMMA SizeFold ==
  ASSUME NEW l \in Seq(Block)
  PROVE  \E f \in [0 .. Len(l) -> SizeType] :
           /\ f[0] = ZeroSize /\ SizeIn(l) = f[Len(l)]
           /\ \A k \in 1 .. Len(l) : f[k] = IncBigSize(f[k - 1], l[k].size)
<1> PICK n : n = Len(l)
  OBVIOUS
<1> DEFINE X == SizeType
           b == ZeroSize
           F == [p \in (1 .. n) \X X |-> IncBigSize(p[2], l[p[1]].size)]
<1>1. n \in Nat /\ DOMAIN l = 1 .. n /\ (\A k \in 1 .. n : l[k] \in Block) /\ b \in X
  BY DEF ZeroSize, SizeType, Digit, Unit
<1>2. \A x \in X, k \in 1 .. n : F[<<k, x>>] = IncBigSize(x, l[k].size)
  OBVIOUS
<1>3. F \in [(1 .. n) \X X -> X]
  <2>1. ASSUME NEW a \in Block, NEW x \in X PROVE IncBigSize(x, a.size) \in X
    <3>1. a.size \in Nat
      BY DEF Block
    <3> QED
      BY <3>1, TotalIsExact
  <2>2. \A p \in (1 .. n) \X X : IncBigSize(p[2], l[p[1]].size) \in X
    BY <1>1, <2>1
  <2> QED
    BY <2>2
<1> HIDE DEF F, b, X
<1>4. PICK it : IsFold(it, n, X, b, F)
  BY <1>1, <1>3, FoldExists
<1>5. ASSUME NEW S \in SUBSET (1 .. n), S # {}
      PROVE  it[S] = IncBigSize(it[S \ {Max(S)}], l[Max(S)].size)
  <2>1. Max(S) \in 1 .. n
    BY <1>1, <1>5, MaxIn
  <2>2. it[S \ {Max(S)}] \in X /\ it[S] = F[<<Max(S), it[S \ {Max(S)}]>>]
    BY <1>4, <1>5 DEF IsFold
  <2> QED
    BY <1>2, <2>1, <2>2
<1>6. it[{}] = b /\ it = [S \in SUBSET (1 .. n) |-> it[S]]
  BY <1>4 DEF IsFold
<1>7. IsSizeFold(it, l)
  BY <1>1, <1>5, <1>6 DEF IsSizeFold, b
<1> DEFINE run == CHOOSE r : IsSizeFold(r, l)
<1>8. IsSizeFold(run, l)
  BY <1>7
<1>9. SizeIn(l) = run[DOMAIN l]
  BY DEF SizeIn, FoldLeft, MapThenFoldSet, IsSizeFold
<1> HIDE DEF run
<1>10. run[{}] = b
  BY <1>8 DEF IsSizeFold, b
<1>11. ASSUME NEW k \in 1 .. n, run[1 .. k - 1] \in X
       PROVE  run[1 .. k] = F[<<k, run[1 .. k - 1]>>]
  <2>1. /\ Max(1 .. k) = k /\ (1 .. k) \ {k} = 1 .. k - 1 /\ 1 .. k # {}
        /\ 1 .. k \in SUBSET (1 .. n)
    <3>1. k \in Nat /\ k > 0 /\ 1 .. k \in SUBSET (1 .. n)
      BY <1>1
    <3> QED
      BY <3>1, MaxUpTo
  <2>2. run[1 .. k] = IncBigSize(run[1 .. k - 1], l[k].size)
    BY <1>1, <1>8, <2>1 DEF IsSizeFold
  <2> QED
    BY <1>2, <1>11, <2>2
<1>12. Follows(run, n, X, b, F)
  BY <1>10, <1>11 DEF Follows
<1>13. PICK f : IsPartial(f, n, X, b, F, run)
  BY <1>1, <1>3, <1>12, FoldIs
<1>14. /\ f \in [0 .. n -> X] /\ f[0] = b /\ f[n] = run[1 .. n]
       /\ \A k \in 1 .. n : f[k] = F[<<k, f[k - 1]>>]
  BY <1>13 DEF IsPartial
<1>15. ASSUME NEW k \in 1 .. n PROVE f[k] = IncBigSize(f[k - 1], l[k].size)
  <2>1. k - 1 \in 0 .. n
    BY <1>1
  <2> QED
    BY <1>2, <1>14, <2>1
<1> QED
  BY <1>1, <1>9, <1>14, <1>15, ZenonT(60) DEF X, b

LEMMA NumberFold ==
  ASSUME NEW l \in Seq(Block)
  PROVE  \E f \in [0 .. Len(l) -> Nat] :
           /\ f[0] = 0 /\ NumberIn(l) = f[Len(l)]
           /\ \A k \in 1 .. Len(l) : f[k] = f[k - 1] + l[k].count
<1> PICK n : n = Len(l)
  OBVIOUS
<1> DEFINE X == Nat
           b == 0
           F == [p \in (1 .. n) \X X |-> p[2] + l[p[1]].count]
<1>1. n \in Nat /\ DOMAIN l = 1 .. n /\ (\A k \in 1 .. n : l[k] \in Block) /\ b \in X
  OBVIOUS
<1>2. \A x \in X, k \in 1 .. n : F[<<k, x>>] = x + l[k].count
  OBVIOUS
<1>3. F \in [(1 .. n) \X X -> X]
  <2>1. ASSUME NEW a \in Block, NEW x \in X PROVE x + a.count \in X
    BY DEF Block
  <2>2. \A p \in (1 .. n) \X X : p[2] + l[p[1]].count \in X
    BY <1>1, <2>1
  <2> QED
    BY <2>2
<1> HIDE DEF F, b, X
<1>4. PICK it : IsFold(it, n, X, b, F)
  BY <1>1, <1>3, FoldExists
<1>5. ASSUME NEW S \in SUBSET (1 .. n), S # {}
      PROVE  it[S] = it[S \ {Max(S)}] + l[Max(S)].count
  <2>1. Max(S) \in 1 .. n
    BY <1>1, <1>5, MaxIn
  <2>2. it[S \ {Max(S)}] \in X /\ it[S] = F[<<Max(S), it[S \ {Max(S)}]>>]
    BY <1>4, <1>5 DEF IsFold
  <2> QED
    BY <1>2, <2>1, <2>2
<1>6. it[{}] = b /\ it = [S \in SUBSET (1 .. n) |-> it[S]]
  BY <1>4 DEF IsFold
<1>7. IsNumberFold(it, l)
  BY <1>1, <1>5, <1>6 DEF IsNumberFold, b
<1> DEFINE run == CHOOSE r : IsNumberFold(r, l)
<1>8. IsNumberFold(run, l)
  BY <1>7
<1>9. NumberIn(l) = run[DOMAIN l]
  BY DEF NumberIn, FoldLeft, MapThenFoldSet, IsNumberFold
<1> HIDE DEF run
<1>10. run[{}] = b
  BY <1>8 DEF IsNumberFold, b
<1>11. ASSUME NEW k \in 1 .. n, run[1 .. k - 1] \in X
       PROVE  run[1 .. k] = F[<<k, run[1 .. k - 1]>>]
  <2>1. /\ Max(1 .. k) = k /\ (1 .. k) \ {k} = 1 .. k - 1 /\ 1 .. k # {}
        /\ 1 .. k \in SUBSET (1 .. n)
    <3>1. k \in Nat /\ k > 0 /\ 1 .. k \in SUBSET (1 .. n)
      BY <1>1
    <3> QED
      BY <3>1, MaxUpTo
  <2>2. run[1 .. k] = run[1 .. k - 1] + l[k].count
    BY <1>1, <1>8, <2>1 DEF IsNumberFold
  <2> QED
    BY <1>2, <1>11, <2>2
<1>12. Follows(run, n, X, b, F)
  BY <1>10, <1>11 DEF Follows
<1>13. PICK f : IsPartial(f, n, X, b, F, run)
  BY <1>1, <1>3, <1>12, FoldIs
<1>14. /\ f \in [0 .. n -> X] /\ f[0] = b /\ f[n] = run[1 .. n]
       /\ \A k \in 1 .. n : f[k] = F[<<k, f[k - 1]>>]
  BY <1>13 DEF IsPartial
<1>15. ASSUME NEW k \in 1 .. n PROVE f[k] = f[k - 1] + l[k].count
  <2>1. k - 1 \in 0 .. n
    BY <1>1
  <2> QED
    BY <1>2, <1>14, <2>1
<1> QED
  BY <1>1, <1>9, <1>14, <1>15 DEF X, b

Increasing(l) == \A i, j \in DOMAIN l : i < j => Key(l[i].area) < Key(l[j].area)

Matching(l, k, d, m) ==
  /\ \A i \in DOMAIN m : \E j \in 1 .. k : m[i] = l[j] /\ IsAreaMatched(l[j].area, d)
  /\ \A j \in 1 .. k : IsAreaMatched(l[j].area, d) => \E i \in DOMAIN m : m[i] = l[j]
  /\ Increasing(m)

LEMMA MatchStep ==
  ASSUME NEW l \in Seq(Block), Increasing(l), NEW d, NEW k \in 1 .. Len(l),
         NEW m \in Seq(Block), Matching(l, k - 1, d, m)
  PROVE  Matching(l, k, d, PutMatch(m, l[k], d))
<1> PICK a : a = l[k]
  OBVIOUS
<1> PICK n : n = Len(m)
  OBVIOUS
<1>1. /\ \A i \in DOMAIN m : \E j \in 1 .. k - 1 : m[i] = l[j] /\ IsAreaMatched(l[j].area, d)
      /\ \A j \in 1 .. k - 1 : IsAreaMatched(l[j].area, d) => \E i \in DOMAIN m : m[i] = l[j]
      /\ \A i, j \in DOMAIN m : i < j => Key(m[i].area) < Key(m[j].area)
  BY DEF Matching, Increasing
<1>2. /\ n \in Nat /\ DOMAIN m = 1 .. n /\ a \in Block /\ DOMAIN l = 1 .. Len(l) /\ Len(l) \in Nat
      /\ k \in Nat
  OBVIOUS
<1>3. /\ \A j \in 1 .. k : j \in 1 .. k - 1 \/ j = k
      /\ \A j \in 1 .. k - 1 : j \in 1 .. k /\ j \in DOMAIN l /\ j < k
  BY <1>2
<1>4. CASE IsAreaMatched(a.area, d)
  <2> PICK r : r = PutMatch(m, a, d)
    OBVIOUS
  <2>1. r = Append(m, a)
    BY <1>4 DEF PutMatch
  <2>2. DOMAIN r = 1 .. n + 1 /\ r[n + 1] = a /\ (\A i \in 1 .. n : r[i] = m[i])
    BY <1>2, <2>1
  <2>3. \A i \in 1 .. n + 1 : i \in 1 .. n \/ i = n + 1
    BY <1>2
  <2>4. ASSUME NEW i \in DOMAIN r
        PROVE  \E j \in 1 .. k : r[i] = l[j] /\ IsAreaMatched(l[j].area, d)
    <3>1. CASE i = n + 1
      <4>1. k \in 1 .. k
        BY <1>2
      <4> QED
        BY <1>4, <2>2, <3>1, <4>1
    <3>2. CASE i \in 1 .. n
      BY <1>1, <1>2, <1>3, <2>2, <3>2
    <3> QED
      BY <2>2, <2>3, <3>1, <3>2
  <2>5. ASSUME NEW j \in 1 .. k, IsAreaMatched(l[j].area, d)
        PROVE  \E i \in DOMAIN r : r[i] = l[j]
    <3>1. CASE j = k
      <4>1. n + 1 \in DOMAIN r
        BY <1>2, <2>2
      <4> QED
        BY <2>2, <3>1, <4>1
    <3>2. CASE j \in 1 .. k - 1
      <4>1. PICK i \in 1 .. n : m[i] = l[j]
        BY <1>1, <1>2, <2>5, <3>2
      <4>2. i \in DOMAIN r /\ r[i] = l[j]
        BY <1>2, <2>2, <4>1
      <4> QED
        BY <4>2
    <3> QED
      BY <1>3, <3>1, <3>2
  <2>6. ASSUME NEW i \in DOMAIN r, NEW j \in DOMAIN r, i < j
        PROVE  Key(r[i].area) < Key(r[j].area)
    <3>1. i \in 1 .. n
      BY <1>2, <2>2, <2>6
    <3>2. CASE j = n + 1
      <4>1. PICK h \in 1 .. k - 1 : m[i] = l[h]
        BY <1>1, <1>2, <3>1
      <4>2. Key(l[h].area) < Key(l[k].area)
        BY <1>2, <1>3 DEF Increasing
      <4> QED
        BY <2>2, <3>1, <3>2, <4>1, <4>2
    <3>3. CASE j \in 1 .. n
      BY <1>1, <1>2, <2>2, <2>6, <3>1, <3>3
    <3> QED
      BY <2>2, <2>3, <3>2, <3>3
  <2> QED
    BY <2>4, <2>5, <2>6 DEF Matching, Increasing
<1>5. CASE ~IsAreaMatched(a.area, d)
  <2>1. PutMatch(m, a, d) = m
    BY <1>5 DEF PutMatch
  <2>2. \A i \in DOMAIN m : \E j \in 1 .. k : m[i] = l[j] /\ IsAreaMatched(l[j].area, d)
    BY <1>1, <1>3
  <2>3. \A j \in 1 .. k : IsAreaMatched(l[j].area, d) => \E i \in DOMAIN m : m[i] = l[j]
    BY <1>1, <1>3, <1>5
  <2> QED
    BY <1>1, <2>1, <2>2, <2>3 DEF Matching, Increasing
<1> QED
  BY <1>4, <1>5

LEMMA MatchedRight ==
  ASSUME NEW l \in Seq(Block), Increasing(l), NEW d
  PROVE  MatchedIn(l, d) \in Seq(Block) /\ Matching(l, Len(l), d, MatchedIn(l, d))
<1> PICK n : n = Len(l)
  OBVIOUS
<1>1. n \in Nat
  OBVIOUS
<1>2. PICK f \in [0 .. n -> Seq(Block)] :
        /\ f[0] = <<>> /\ MatchedIn(l, d) = f[n]
        /\ \A k \in 1 .. n : f[k] = PutMatch(f[k - 1], l[k], d)
  BY MatchFold
<1> DEFINE T == {k \in Nat : k <= n => Matching(l, k, d, f[k])}
<1>3. 0 \in T
  <2>1. Matching(l, 0, d, <<>>)
    BY DEF Matching, Increasing
  <2> QED
    BY <1>2, <2>1
<1>4. ASSUME NEW k \in Nat, k \in T PROVE k + 1 \in T
  <2> SUFFICES ASSUME k + 1 <= n PROVE Matching(l, k + 1, d, f[k + 1])
    OBVIOUS
  <2>1. k + 1 \in 1 .. n /\ (k + 1) - 1 = k /\ k \in 0 .. n /\ Matching(l, k, d, f[k])
    BY <1>1, <1>4
  <2> HIDE DEF T
  <2>2. f[k + 1] = PutMatch(f[k], l[k + 1], d) /\ f[k] \in Seq(Block)
    BY <1>2, <2>1
  <2> QED
    BY <2>1, <2>2, MatchStep
<1>5. \A k \in Nat : k \in T
  <2> HIDE DEF T
  <2> QED
    BY <1>3, <1>4, NatInduct
<1>6. n \in T
  <2> HIDE DEF T
  <2> QED
    BY <1>1, <1>5
<1>7. f[n] \in Seq(Block)
  BY <1>1, <1>2
<1> QED
  BY <1>1, <1>2, <1>6, <1>7

InAreaOf(s, tk, a) == {n \in Range(s) : tk[n].area = a}
EmptyOf(s, tk, a) == {n \in InAreaOf(s, tk, a) : Size[tk[n].file] = 0}
SumOf(s, tk, a) ==
  (SumFunction([n \in InAreaOf(s, tk, a) |-> Size[tk[n].file]])
     + (Word - 1) * Cardinality(EmptyOf(s, tk, a))) % Word
AreasOf(s, tk, kn, d) == {a \in kn : IsAreaMatched(a, d) /\ InAreaOf(s, tk, a) # {}}

LEMMA AllInFirst ==
  ASSUME NEW entries, NEW g, Listing(entries, g), NEW a
  PROVE  /\ InFirst(entries, Len(entries), a) = InAreaOf(entries, tickets, a)
         /\ InAreaOf(entries, tickets, a) \in SUBSET DOMAIN tickets
         /\ g[InAreaOf(entries, tickets, a)] \in Nat
         /\ SumOf(entries, tickets, a) = g[InAreaOf(entries, tickets, a)] % Word
         /\ SumOf(entries, tickets, a) \in Nat
         /\ IsFiniteSet(InAreaOf(entries, tickets, a))
<1>1. /\ entries \in Seq(DOMAIN tickets) /\ IsSum(g, DOMAIN tickets, FileSize)
      /\ tickets \in Seq(TicketType)
  BY DEF Listing
<1>2. /\ DOMAIN entries = 1 .. Len(entries) /\ Len(entries) \in Nat
      /\ \A i \in 1 .. Len(entries) : entries[i] \in DOMAIN tickets
  BY <1>1
<1> PICK A : A = InAreaOf(entries, tickets, a)
  OBVIOUS
<1>3. InFirst(entries, Len(entries), a) = A
  BY <1>2 DEF InFirst, InAreaOf, AreaOf, Ticket, Range
<1>4. A \in SUBSET DOMAIN tickets
  BY <1>2 DEF InAreaOf, Range
<1>5. IsFiniteSet(DOMAIN tickets)
  <2>1. DOMAIN tickets = 1 .. Len(tickets) /\ Len(tickets) \in Nat
    BY <1>1
  <2>2. IsFiniteSet(1 .. Len(tickets))
    BY <2>1, FS_Interval
  <2> QED
    BY <2>1, <2>2
<1>6. IsFiniteSet(A)
  BY <1>4, <1>5, FS_Subset
<1> PICK v : v = [n \in A |-> Size[tickets[n].file]]
  OBVIOUS
<1> PICK w : w = [n \in DOMAIN tickets |-> Size[tickets[n].file]]
  OBVIOUS
<1>7. v = On(w, A)
  BY <1>4 DEF On
<1>12. \A n \in DOMAIN tickets : w[n] \in Nat /\ FileSize[n] = IF w[n] = 0 THEN Word - 1 ELSE w[n]
  <2> SUFFICES ASSUME NEW n \in DOMAIN tickets
               PROVE  w[n] \in Nat /\ FileSize[n] = IF w[n] = 0 THEN Word - 1 ELSE w[n]
    OBVIOUS
  <2>1. tickets[n] \in TicketType
    BY <1>1
  <2>2. tickets[n].file \in Files
    BY <2>1 DEF TicketType
  <2>3. w[n] = Size[tickets[n].file] /\ w[n] \in Nat
    BY <2>2, CatalogAssumption
  <2>4. FileSize[n] = TicSize(n)
    BY DEF FileSize
  <2> QED
    BY <2>3, <2>4 DEF TicSize
<1>13. PICK h : IsSum(h, DOMAIN tickets, w)
  BY <1>5, <1>12, SumExists
<1>8. SumFunction(v) = h[A]
  <2>1. SumFunction(On(w, A)) = h[A]
    BY <1>4, <1>5, <1>13, SumIs
  <2> QED
    BY <1>7, <2>1
<1> PICK E : E = EmptyOf(entries, tickets, a)
  OBVIOUS
<1>14. E = {n \in A : w[n] = 0}
  BY <1>4 DEF EmptyOf
<1>15. g[A] = h[A] + (Word - 1) * Cardinality(E)
  <2> PICK c : c = Word - 1
    OBVIOUS
  <2>1. c \in Nat
    BY CatalogAssumption
  <2>2. \A n \in DOMAIN tickets : w[n] \in Nat /\ FileSize[n] = IF w[n] = 0 THEN c ELSE w[n]
    BY <1>12
  <2>3. \A B \in SUBSET DOMAIN tickets : g[B] = h[B] + c * Cardinality({n \in B : w[n] = 0})
    <3> PICK D : D = DOMAIN tickets
      OBVIOUS
    <3> PICK v2 : v2 = FileSize
      OBVIOUS
    <3>1. IsFiniteSet(D) /\ IsSum(g, D, v2) /\ IsSum(h, D, w)
      BY <1>1, <1>5, <1>13
    <3>2. Raised(v2, w, c, D)
      BY <2>2 DEF Raised
    <3>3. Exceeds(g, h, w, c, D)
      BY <2>1, <3>1, <3>2, SumWithEmpty
    <3> QED
      BY <3>3 DEF Exceeds
  <2> QED
    BY <1>4, <1>14, <2>3
<1>9. SumOf(entries, tickets, a) = g[A] % Word
  BY <1>8, <1>15 DEF SumOf
<1>10. g[A] \in Nat
  BY <1>1, <1>4 DEF IsSum
<1>11. g[A] % Word \in Nat
  BY <1>10, CatalogAssumption, ModIs
<1> QED
  BY <1>3, <1>4, <1>6, <1>9, <1>10, <1>11

LEMMA SubSeqIs ==
  ASSUME NEW E, NEW q \in Seq(E), NEW b \in Nat \ {0}, NEW e \in Nat, e <= Len(q), NEW ct \in Nat,
         b + ct = e + 1
  PROVE  /\ DOMAIN SubSeq(q, b, e) = 1 .. ct
         /\ \A i \in 1 .. ct : SubSeq(q, b, e)[i] = q[b + i - 1]
<1>1. e - b + 1 = ct
  OBVIOUS
<1>2. Len(q) \in Nat /\ DOMAIN q = 1 .. Len(q)
  OBVIOUS
<1>3. DOMAIN SubSeq(q, b, e) = 1 .. ct
  BY <1>1, <1>2
<1>4. ASSUME NEW i \in 1 .. ct PROVE SubSeq(q, b, e)[i] = q[b + i - 1]
  BY <1>1, <1>2
<1> QED
  BY <1>3, <1>4

Between(entries, n, bg, e) == {entries[i] : i \in {j \in 1 .. n : bg <= j /\ j <= e}}

\* Sequence s lists the ct elements of A, and there are some.
Lists(s, A, ct) ==
  Range(s) = A /\ IsInjective(s) /\ Cardinality(Range(s)) = ct /\ Range(s) # {}

LEMMA PartOfSeq ==
  ASSUME NEW D, NEW entries \in Seq(D), IsInjective(entries), NEW n, n = Len(entries),
         NEW bg \in Nat \ {0}, NEW ct \in Nat \ {0}, NEW e \in Nat, bg + ct = e + 1, e <= n,
         NEW s, s = SubSeq(entries, bg, e)
  PROVE  Lists(s, Between(entries, n, bg, e), ct)
<1>2. n \in Nat /\ DOMAIN entries = 1 .. n
  OBVIOUS
<1>5. DOMAIN s = 1 .. ct /\ \A i \in 1 .. ct : s[i] = entries[bg + i - 1]
  BY SubSeqIs
<1>6. \A i \in 1 .. ct : bg + i - 1 \in 1 .. n /\ bg <= bg + i - 1 /\ bg + i - 1 <= e
  BY <1>2
<1>7. \A j \in 1 .. n : bg <= j /\ j <= e => j - bg + 1 \in 1 .. ct /\ bg + (j - bg + 1) - 1 = j
  BY <1>2
<1> DEFINE A == {entries[i] : i \in {j \in 1 .. n : bg <= j /\ j <= e}}
<1>4. Range(s) = {s[i] : i \in 1 .. ct}
  BY <1>5 DEF Range
<1>8. Range(s) = A
  <2>2. ASSUME NEW x \in A PROVE x \in Range(s)
    <3>1. PICK j \in 1 .. n : bg <= j /\ j <= e /\ x = entries[j]
      BY <2>2
    <3>2. j - bg + 1 \in 1 .. ct /\ bg + (j - bg + 1) - 1 = j
      BY <1>7, <3>1
    <3>3. s[j - bg + 1] = x
      BY <1>5, <3>1, <3>2
    <3> QED
      BY <1>4, <3>2, <3>3
  <2>3. ASSUME NEW i \in 1 .. ct PROVE s[i] \in A
    BY <1>5, <1>6
  <2> HIDE DEF A
  <2> QED
    BY <1>4, <2>2, <2>3
<1> HIDE DEF A
<1>9. IsInjective(s)
  <2> SUFFICES ASSUME NEW i \in DOMAIN s, NEW j \in DOMAIN s, s[i] = s[j] PROVE i = j
    BY DEF IsInjective
  <2>1. i \in 1 .. ct /\ j \in 1 .. ct /\ entries[bg + i - 1] = entries[bg + j - 1]
    BY <1>5
  <2>2. bg + i - 1 = bg + j - 1
    BY <1>2, <1>6, <2>1 DEF IsInjective
  <2> QED
    BY <2>1, <2>2
<1>10. ct = Cardinality(Range(s))
  <2> PICK R : R = Range(s)
    OBVIOUS
  <2>2. s \in [1 .. ct -> R] /\ \A x \in R : \E i \in 1 .. ct : s[i] = x
    <3>1. \A i \in 1 .. ct : s[i] \in R
      BY <1>4
    <3>2. s = [i \in 1 .. ct |-> s[i]]
      <4>1. s \in Seq(D)
        OBVIOUS
      <4> QED
        BY <1>5, <4>1, SMTT(60)
    <3> QED
      BY <1>4, <3>1, <3>2
  <2>3. s \in Injection(1 .. ct, R)
    BY <1>9, <2>2 DEF Injection
  <2>5. s \in Surjection(1 .. ct, R)
    BY <2>2 DEF Surjection
  <2>6. ExistsBijection(1 .. ct, R)
    BY <2>3, <2>5 DEF ExistsBijection, Bijection
  <2>4. IsFiniteSet(1 .. ct) /\ Cardinality(1 .. ct) = ct
    <3>1. 1 \in Int /\ ct \in Int /\ ~(1 > ct) /\ ct - 1 + 1 = ct
      OBVIOUS
    <3>2. IsFiniteSet(1 .. ct) /\ Cardinality(1 .. ct) = IF 1 > ct THEN 0 ELSE ct - 1 + 1
      BY <3>1, FS_Interval
    <3> QED
      BY <3>1, <3>2
  <2> QED
    BY <2>4, <2>6, FS_Bijection
<1>11. Range(s) # {}
  <2>1. 1 \in 1 .. ct
    OBVIOUS
  <2> QED
    BY <1>4, <2>1
<1> QED
  BY <1>8, <1>9, <1>10, <1>11 DEF A, Between, Lists

LEMMA PartFields ==
  ASSUME NEW a, NEW s, NEW z, NEW p, p = [area |-> a, tickets |-> s, size |-> z]
  PROVE  p.area = a /\ p.tickets = s /\ p.size = z
OBVIOUS

\* What part p says of area a, with z bytes in q tickets A.
PartSays(p, a, A, z) ==
  /\ p.area = a /\ Range(p.tickets) = A /\ IsInjective(p.tickets) /\ Bytes(p.size) = z

LEMMA PartIs ==
  ASSUME NEW entries, NEW b, NEW A, NEW z,
         Range(SubSeq(entries, b.begin, b.begin + b.count - 1)) = A,
         IsInjective(SubSeq(entries, b.begin, b.begin + b.count - 1)),
         Bytes(IncBigSize(ZeroSize, b.size)) = z
  PROVE  PartSays(Part(entries, b), b.area, A, z)
<1>1. /\ Part(entries, b).area = b.area
      /\ Part(entries, b).tickets = SubSeq(entries, b.begin, b.begin + b.count - 1)
      /\ Part(entries, b).size = IncBigSize(ZeroSize, b.size)
  BY DEF Part
<1> QED
  BY <1>1 DEF PartSays

LEMMA TicketsOfPart ==
  ASSUME NEW D, NEW entries \in Seq(D), NEW n, n = Len(entries), IsInjective(entries),
         NEW bg \in 1 .. n, NEW ct \in Nat \ {0}, NEW e, e = bg + ct - 1, e <= n
  PROVE  Lists(SubSeq(entries, bg, e), Between(entries, n, bg, e), ct)
<1> PICK s : s = SubSeq(entries, bg, e)
  OBVIOUS
<1>1. bg \in Nat \ {0} /\ e \in Nat /\ bg + ct = e + 1
  OBVIOUS
<1>2. e <= n /\ entries \in Seq(D) /\ IsInjective(entries) /\ n = Len(entries)
  OBVIOUS
<1>3. Lists(s, Between(entries, n, bg, e), ct)
  BY <1>1, <1>2, PartOfSeq, Zenon
<1> QED
  BY <1>3

LEMMA PartRight ==
  ASSUME NEW entries, NEW g, Listing(entries, g), NEW b \in Block,
         OneBlock(b, Len(entries), entries, g)
  PROVE  /\ PartSays(Part(entries, b), b.area, InAreaOf(entries, tickets, b.area),
                     SumOf(entries, tickets, b.area))
         /\ b.size = SumOf(entries, tickets, b.area)
         /\ b.count = Cardinality(InAreaOf(entries, tickets, b.area))
         /\ InAreaOf(entries, tickets, b.area) # {} /\ b.area \in known
<1> PICK n : n = Len(entries)
  OBVIOUS
<1> PICK e : e = b.begin + b.count - 1
  OBVIOUS
<1> PICK A : A = InAreaOf(entries, tickets, b.area)
  OBVIOUS
<1>1. /\ b.area \in known /\ b.begin \in 1 .. n /\ b.count \in Nat \ {0} /\ e <= n
      /\ \A i \in 1 .. n : AreaOf(entries, i) = b.area <=> b.begin <= i /\ i <= e
      /\ b.size = g[InFirst(entries, n, b.area)] % Word
  BY DEF OneBlock
<1>2. entries \in Seq(DOMAIN tickets) /\ IsInjective(entries) /\ n \in Nat
  BY DEF Listing
<1>3. b.size = SumOf(entries, tickets, b.area) /\ b.size \in Nat
  BY <1>1, AllInFirst
<1>4. A = {entries[i] : i \in {j \in 1 .. n : b.begin <= j /\ j <= e}}
  <2>1. A = {entries[i] : i \in {j \in 1 .. n : AreaOf(entries, j) = b.area}}
    BY AllInFirst DEF InFirst
  <2>2. {j \in 1 .. n : AreaOf(entries, j) = b.area} = {j \in 1 .. n : b.begin <= j /\ j <= e}
    BY <1>1
  <2> QED
    BY <2>1, <2>2
<1>5. A = Between(entries, n, b.begin, e)
  BY <1>4 DEF Between
<1>6. Lists(SubSeq(entries, b.begin, e), Between(entries, n, b.begin, e), b.count)
  BY <1>1, <1>2, TicketsOfPart, Zenon
<1>7. Bytes(IncBigSize(ZeroSize, b.size)) = b.size
  <2>1. ZeroSize \in SizeType /\ Bytes(ZeroSize) = 0
    BY DEF ZeroSize, SizeType, Digit, Unit, Bytes
  <2>2. Bytes(IncBigSize(ZeroSize, b.size)) = Bytes(ZeroSize) + b.size
    BY <1>3, <2>1, TotalIsExact
  <2> QED
    BY <1>3, <2>1, <2>2
<1>8. PartSays(Part(entries, b), b.area, A, b.size)
  BY <1>5, <1>6, <1>7, PartIs DEF Lists
<1> QED
  BY <1>1, <1>3, <1>5, <1>6, <1>8 DEF Lists

-----------------------------------------------------------------------------
(* The totals of a message. *)

FirstAreas(m, k) == {m[i].area : i \in 1 .. k}

LEMMA NewFirst ==
  ASSUME NEW m \in Seq(Block), Increasing(m), NEW k \in 1 .. Len(m)
  PROVE  /\ FirstAreas(m, k) = FirstAreas(m, k - 1) \cup {m[k].area}
         /\ m[k].area \notin FirstAreas(m, k - 1)
         /\ FirstAreas(m, k) \in SUBSET Range(Areas)
         /\ FirstAreas(m, k - 1) = FirstAreas(m, k) \ {m[k].area}
<1>1. /\ k \in Nat /\ DOMAIN m = 1 .. Len(m) /\ Len(m) \in Nat
      /\ \A i \in 1 .. k : (i \in 1 .. k - 1 \/ i = k) /\ i \in DOMAIN m
      /\ \A i \in 1 .. k - 1 : i \in 1 .. k /\ i < k
  OBVIOUS
<1>2. \A i \in DOMAIN m : m[i] \in Block /\ m[i].area \in Range(Areas) /\ Key(m[i].area) \in Nat
  <2>1. \A b \in Block : b.area \in Range(Areas) /\ Key(b.area) \in Nat
    BY KeyIs DEF Block
  <2> QED
    BY <1>1, <2>1
<1>3. FirstAreas(m, k) = FirstAreas(m, k - 1) \cup {m[k].area}
  <2>1. k \in 1 .. k
    BY <1>1
  <2> QED
    BY <1>1, <2>1 DEF FirstAreas
<1>4. ASSUME NEW i \in 1 .. k - 1 PROVE m[i].area # m[k].area
  <2>1. i \in DOMAIN m /\ k \in DOMAIN m /\ i < k
    BY <1>1
  <2>2. Key(m[i].area) < Key(m[k].area)
    BY <2>1 DEF Increasing
  <2> QED
    BY <1>2, <2>1, <2>2
<1>5. m[k].area \notin FirstAreas(m, k - 1)
  BY <1>4 DEF FirstAreas
<1>6. FirstAreas(m, k) \in SUBSET Range(Areas)
  BY <1>1, <1>2 DEF FirstAreas
<1> QED
  BY <1>3, <1>5, <1>6

LEMMA CountAreas ==
  ASSUME NEW m \in Seq(Block), Increasing(m)
  PROVE  /\ IsFiniteSet(FirstAreas(m, Len(m)))
         /\ Cardinality(FirstAreas(m, Len(m))) = Len(m)
<1> PICK n : n = Len(m)
  OBVIOUS
<1> DEFINE T == {k \in Nat : k <= n => /\ IsFiniteSet(FirstAreas(m, k))
                                       /\ Cardinality(FirstAreas(m, k)) = k}
<1>1. n \in Nat
  OBVIOUS
<1>2. 0 \in T
  <2>1. FirstAreas(m, 0) = {}
    BY DEF FirstAreas
  <2> QED
    BY <2>1, FS_EmptySet
<1>3. ASSUME NEW k \in Nat, k \in T PROVE k + 1 \in T
  <2> SUFFICES ASSUME k + 1 <= n
               PROVE  /\ IsFiniteSet(FirstAreas(m, k + 1))
                      /\ Cardinality(FirstAreas(m, k + 1)) = k + 1
    OBVIOUS
  <2>1. /\ k + 1 \in 1 .. n /\ (k + 1) - 1 = k
        /\ IsFiniteSet(FirstAreas(m, k)) /\ Cardinality(FirstAreas(m, k)) = k
    BY <1>1, <1>3
  <2> HIDE DEF T
  <2>2. /\ FirstAreas(m, k + 1) = FirstAreas(m, k) \cup {m[k + 1].area}
        /\ m[k + 1].area \notin FirstAreas(m, k)
    BY <2>1, NewFirst
  <2> PICK R : R = FirstAreas(m, k)
    OBVIOUS
  <2> PICK a : a = m[k + 1].area
    OBVIOUS
  <2>3. IsFiniteSet(R \cup {a}) /\ Cardinality(R \cup {a}) = Cardinality(R) + 1
    BY <2>1, <2>2, FS_AddElement
  <2> QED
    BY <2>1, <2>2, <2>3
<1>4. \A k \in Nat : k \in T
  <2> HIDE DEF T
  <2> QED
    BY <1>2, <1>3, NatInduct
<1>5. n \in T
  <2> HIDE DEF T
  <2> QED
    BY <1>1, <1>4
<1> QED
  BY <1>1, <1>5

Sizes(m, w) == \A i \in DOMAIN m : m[i].size = w[m[i].area]

LEMMA TotalSize ==
  ASSUME NEW m \in Seq(Block), Increasing(m), NEW w, NEW G, IsSum(G, Range(Areas), w),
         Sizes(m, w)
  PROVE  Bytes(SizeIn(m)) = G[FirstAreas(m, Len(m))]
<1> PICK n : n = Len(m)
  OBVIOUS
<1>1. n \in Nat /\ DOMAIN m = 1 .. n
  OBVIOUS
<1>2. PICK f \in [0 .. n -> SizeType] :
        /\ f[0] = ZeroSize /\ SizeIn(m) = f[n]
        /\ \A k \in 1 .. n : f[k] = IncBigSize(f[k - 1], m[k].size)
  BY SizeFold
<1>3. /\ G \in [SUBSET Range(Areas) -> Nat] /\ G[{}] = 0
      /\ \A s \in SUBSET Range(Areas) : \A x \in s : G[s] = w[x] + G[s \ {x}]
  BY DEF IsSum
<1> DEFINE T == {k \in Nat : k <= n => Bytes(f[k]) = G[FirstAreas(m, k)]}
<1>4. 0 \in T
  <2>1. FirstAreas(m, 0) = {}
    BY DEF FirstAreas
  <2>2. Bytes(ZeroSize) = 0
    BY DEF ZeroSize, Bytes
  <2> QED
    BY <1>2, <1>3, <2>1, <2>2
<1>5. ASSUME NEW k \in Nat, k \in T PROVE k + 1 \in T
  <2> SUFFICES ASSUME k + 1 <= n PROVE Bytes(f[k + 1]) = G[FirstAreas(m, k + 1)]
    OBVIOUS
  <2>1. /\ k + 1 \in 1 .. n /\ (k + 1) - 1 = k /\ k \in 0 .. n
        /\ Bytes(f[k]) = G[FirstAreas(m, k)]
    BY <1>1, <1>5
  <2> HIDE DEF T
  <2> PICK b : b = m[k + 1]
    OBVIOUS
  <2>2. /\ b.area \in FirstAreas(m, k + 1) /\ FirstAreas(m, k + 1) \in SUBSET Range(Areas)
        /\ FirstAreas(m, k) = FirstAreas(m, k + 1) \ {b.area}
    BY <2>1, NewFirst
  <2>3. G[FirstAreas(m, k + 1)] = w[b.area] + G[FirstAreas(m, k)]
    BY <1>3, <2>2
  <2>4. b \in Block /\ b.size = w[b.area] /\ b.size \in Nat
    <3>1. b \in Block /\ b.size = w[b.area]
      BY <1>1, <2>1 DEF Sizes
    <3>2. b.size \in Nat
      BY <3>1 DEF Block
    <3> QED
      BY <3>1, <3>2
  <2>5. f[k + 1] = IncBigSize(f[k], b.size) /\ f[k] \in SizeType
    BY <1>2, <2>1
  <2>6. Bytes(IncBigSize(f[k], b.size)) = Bytes(f[k]) + b.size
    BY <2>4, <2>5, TotalIsExact
  <2>7. G[FirstAreas(m, k)] \in Nat
    <3>1. FirstAreas(m, k) \in SUBSET Range(Areas)
      BY <2>2
    <3> QED
      BY <1>3, <3>1
  <2> QED
    BY <2>1, <2>3, <2>4, <2>5, <2>6, <2>7
<1>6. \A k \in Nat : k \in T
  <2> HIDE DEF T
  <2> QED
    BY <1>4, <1>5, NatInduct
<1>7. n \in T
  <2> HIDE DEF T
  <2> QED
    BY <1>1, <1>6
<1> QED
  BY <1>1, <1>2, <1>7

\* The tickets of s in the areas of the first k blocks.
FirstTickets(s, m, k) == UNION {InAreaOf(s, tickets, m[i].area) : i \in 1 .. k}

LEMMA FiniteJoin ==
  ASSUME NEW R, NEW S, IsFiniteSet(R), IsFiniteSet(S), R \cap S = {}
  PROVE  IsFiniteSet(R \cup S) /\ Cardinality(R \cup S) = Cardinality(R) + Cardinality(S)
<1>1. /\ IsFiniteSet(R \cup S)
      /\ Cardinality(R \cup S) = Cardinality(R) + Cardinality(S) - Cardinality(R \cap S)
  BY FS_Union
<1>2. Cardinality(R \cap S) = 0 /\ Cardinality(R) \in Nat /\ Cardinality(S) \in Nat
  BY FS_EmptySet, FS_CardinalityType
<1> QED
  BY <1>1, <1>2

LEMMA TotalNumber ==
  ASSUME NEW s, NEW m \in Seq(Block), Increasing(m),
         \A i \in DOMAIN m : /\ IsFiniteSet(InAreaOf(s, tickets, m[i].area))
                             /\ m[i].count = Cardinality(InAreaOf(s, tickets, m[i].area))
  PROVE  NumberIn(m) = Cardinality(FirstTickets(s, m, Len(m)))
<1> PICK n : n = Len(m)
  OBVIOUS
<1>1. n \in Nat /\ DOMAIN m = 1 .. n
  OBVIOUS
<1>2. PICK f \in [0 .. n -> Nat] :
        /\ f[0] = 0 /\ NumberIn(m) = f[n]
        /\ \A k \in 1 .. n : f[k] = f[k - 1] + m[k].count
  BY NumberFold
<1> DEFINE T == {k \in Nat : k <= n => /\ IsFiniteSet(FirstTickets(s, m, k))
                                       /\ f[k] = Cardinality(FirstTickets(s, m, k))}
<1>3. 0 \in T
  <2>1. FirstTickets(s, m, 0) = {}
    BY DEF FirstTickets
  <2> QED
    BY <1>2, <2>1, FS_EmptySet
<1>4. ASSUME NEW k \in Nat, k \in T PROVE k + 1 \in T
  <2> SUFFICES ASSUME k + 1 <= n
               PROVE  /\ IsFiniteSet(FirstTickets(s, m, k + 1))
                      /\ f[k + 1] = Cardinality(FirstTickets(s, m, k + 1))
    OBVIOUS
  <2>1. /\ k + 1 \in 1 .. n /\ (k + 1) - 1 = k /\ k \in 0 .. n
        /\ IsFiniteSet(FirstTickets(s, m, k)) /\ f[k] = Cardinality(FirstTickets(s, m, k))
    BY <1>1, <1>4
  <2> HIDE DEF T
  <2> PICK a : a = m[k + 1].area
    OBVIOUS
  <2> PICK R : R = FirstTickets(s, m, k)
    OBVIOUS
  <2> PICK A : A = InAreaOf(s, tickets, a)
    OBVIOUS
  <2>2. FirstTickets(s, m, k + 1) = R \cup A
    <3>1. \A i \in 1 .. k + 1 : i \in 1 .. k \/ i = k + 1
      OBVIOUS
    <3>2. \A i \in 1 .. k : i \in 1 .. k + 1
      OBVIOUS
    <3>3. k + 1 \in 1 .. k + 1
      OBVIOUS
    <3> QED
      BY <3>1, <3>2, <3>3 DEF FirstTickets
  <2>3. R \cap A = {}
    <3>1. a \notin FirstAreas(m, k)
      BY <2>1, NewFirst
    <3>2. \A i \in 1 .. k : m[i].area # a
      BY <3>1 DEF FirstAreas
    <3> QED
      BY <3>2 DEF FirstTickets, InAreaOf
  <2>4. IsFiniteSet(A) /\ m[k + 1].count = Cardinality(A)
    BY <1>1, <2>1
  <2>5. IsFiniteSet(R \cup A) /\ Cardinality(R \cup A) = Cardinality(R) + Cardinality(A)
    BY <2>1, <2>3, <2>4, FiniteJoin
  <2>6. f[k + 1] = f[k] + m[k + 1].count
    BY <1>2, <2>1
  <2> QED
    BY <2>1, <2>2, <2>4, <2>5, <2>6
<1>5. \A k \in Nat : k \in T
  <2> HIDE DEF T
  <2> QED
    BY <1>3, <1>4, NatInduct
<1>6. n \in T
  <2> HIDE DEF T
  <2> QED
    BY <1>1, <1>5
<1> QED
  BY <1>1, <1>2, <1>6

-----------------------------------------------------------------------------
(* The message. *)

\* What a message m about the tickets s has to say, when tickets tk are
\* known and areas kn are configured, for a definition d.
PostedOK(m, s, tk, kn, d) ==
  LET areas == AreasOf(s, tk, kn, d) IN
  /\ {m.parts[k].area : k \in DOMAIN m.parts} = areas
  /\ Len(m.parts) = Cardinality(areas)
  /\ \A k \in DOMAIN m.parts :
       PartSays(m.parts[k], m.parts[k].area, InAreaOf(s, tk, m.parts[k].area),
                SumOf(s, tk, m.parts[k].area))
  /\ Bytes(m.size) = SumFunction([a \in areas |-> SumOf(s, tk, a)])
  /\ m.number = Cardinality(UNION {InAreaOf(s, tk, a) : a \in areas})

LEMMA AreasFinite == IsFiniteSet(Range(Areas))
<1>1. Areas \in Seq(Range(Areas))
  BY CatalogAssumption
<1> PICK n : n = Len(Areas)
  OBVIOUS
<1>2. n \in Nat /\ DOMAIN Areas = 1 .. n
  BY <1>1
<1>3. IsFiniteSet(1 .. n)
  BY <1>2, FS_Interval
<1>4. Areas \in Surjection(1 .. n, Range(Areas))
  <2>1. Areas \in [1 .. n -> Range(Areas)]
    BY <1>1, <1>2
  <2> QED
    BY <1>2, <2>1 DEF Surjection, Range
<1> QED
  BY <1>3, <1>4, FS_Surjection

LEMMA MessageIs ==
  ASSUME NEW entries, NEW d, NEW m, m = MatchedIn(AccessList(entries), d)
  PROVE  /\ MessageOf(entries, d).parts = [k \in DOMAIN m |-> Part(entries, m[k])]
         /\ MessageOf(entries, d).size = SizeIn(m)
         /\ MessageOf(entries, d).number = NumberIn(m)
BY ZenonT(60) DEF MessageOf, MatchedIn, SizeIn, NumberIn

LEMMA MatchedBlocks ==
  ASSUME NEW entries, NEW g, Listing(entries, g), NEW d,
         NEW m, m = MatchedIn(AccessList(entries), d)
  PROVE  /\ m \in Seq(Block) /\ Increasing(m)
         /\ FirstAreas(m, Len(m)) = AreasOf(entries, tickets, known, d)
         /\ \A i \in DOMAIN m : OneBlock(m[i], Len(entries), entries, g)
<1> PICK l : l = AccessList(entries)
  OBVIOUS
<1> PICK n : n = Len(entries)
  OBVIOUS
<1>1. l \in Seq(Block) /\ Blocks(l, n, entries, g)
  BY AccessListRight
<1>2. /\ \A j \in DOMAIN l : OneBlock(l[j], n, entries, g)
      /\ Increasing(l)
      /\ \A i \in 1 .. n : AreaOf(entries, i) \in known =>
           \E j \in DOMAIN l : l[j].area = AreaOf(entries, i)
  BY <1>1 DEF Blocks, Increasing
<1>3. m \in Seq(Block) /\ Matching(l, Len(l), d, m)
  BY <1>1, <1>2, MatchedRight
<1>4. /\ DOMAIN l = 1 .. Len(l) /\ DOMAIN m = 1 .. Len(m)
      /\ Increasing(m)
      /\ \A i \in DOMAIN m : \E j \in DOMAIN l : m[i] = l[j] /\ IsAreaMatched(l[j].area, d)
      /\ \A j \in DOMAIN l : IsAreaMatched(l[j].area, d) => \E i \in DOMAIN m : m[i] = l[j]
  <2>1. DOMAIN l = 1 .. Len(l) /\ DOMAIN m = 1 .. Len(m)
    BY <1>1, <1>3
  <2>2. Matching(l, Len(l), d, m)
    BY <1>3
  <2> QED
    BY <2>1, <2>2, ZenonT(60) DEF Matching
<1>5. \A i \in DOMAIN m : OneBlock(m[i], n, entries, g) /\ IsAreaMatched(m[i].area, d)
  BY <1>2, <1>4
<1>6. ASSUME NEW i \in DOMAIN m PROVE m[i].area \in AreasOf(entries, tickets, known, d)
  <2> PICK b : b = m[i]
    OBVIOUS
  <2>1. b \in Block /\ OneBlock(b, n, entries, g) /\ IsAreaMatched(b.area, d)
    BY <1>3, <1>5
  <2>2. b.area \in known /\ InAreaOf(entries, tickets, b.area) # {}
    BY <2>1, PartRight
  <2> QED
    BY <2>1, <2>2 DEF AreasOf
<1>7. ASSUME NEW a \in AreasOf(entries, tickets, known, d)
      PROVE  \E i \in DOMAIN m : m[i].area = a
  <2>1. a \in known /\ IsAreaMatched(a, d) /\ InAreaOf(entries, tickets, a) # {}
    BY DEF AreasOf
  <2>2. PICK i \in DOMAIN entries : tickets[entries[i]].area = a
    BY <2>1 DEF InAreaOf, Range
  <2>3. i \in 1 .. n /\ AreaOf(entries, i) = a
    <3>1. entries \in Seq(DOMAIN tickets)
      BY DEF Listing
    <3>2. DOMAIN entries = 1 .. n
      BY <3>1
    <3> QED
      BY <2>2, <3>2 DEF AreaOf, Ticket
  <2>4. PICK j \in DOMAIN l : l[j].area = a
    BY <1>2, <2>1, <2>3
  <2>5. PICK k \in DOMAIN m : m[k] = l[j]
    BY <1>4, <2>1, <2>4
  <2> QED
    BY <2>4, <2>5
<1>8. FirstAreas(m, Len(m)) = AreasOf(entries, tickets, known, d)
  <2>1. FirstAreas(m, Len(m)) = {m[i].area : i \in DOMAIN m}
    BY <1>4 DEF FirstAreas
  <2>2. \A a \in {m[i].area : i \in DOMAIN m} : a \in AreasOf(entries, tickets, known, d)
    BY <1>6, Zenon
  <2>3. \A a \in AreasOf(entries, tickets, known, d) : a \in {m[i].area : i \in DOMAIN m}
    BY <1>7, Zenon
  <2> QED
    BY <2>1, <2>2, <2>3, Zenon
<1> QED
  BY <1>3, <1>4, <1>5, <1>8

(* What reportNewFiles (report.c) makes of the sorted tickets for a        *)
(* definition is a message with one part for each configured area that     *)
(* matches and has tickets, with its tickets once each and the sums of     *)
(* their sizes, Word - 1 for that of an empty file; the tickets it marks   *)
(* are the ones in the message.                                            *)
THEOREM MessageRight ==
  ASSUME NEW entries, NEW g, Listing(entries, g), NEW d
  PROVE  /\ PostedOK(MessageOf(entries, d), entries, tickets, known, d)
         /\ InMessage(MessageOf(entries, d)) =
              UNION {InAreaOf(entries, tickets, a) : a \in AreasOf(entries, tickets, known, d)}
<1> PICK m : m = MatchedIn(AccessList(entries), d)
  OBVIOUS
<1> PICK M : M = MessageOf(entries, d)
  OBVIOUS
<1> PICK R : R = AreasOf(entries, tickets, known, d)
  OBVIOUS
<1> PICK n : n = Len(m)
  OBVIOUS
<1>1. /\ m \in Seq(Block) /\ Increasing(m) /\ FirstAreas(m, n) = R
      /\ \A i \in DOMAIN m : OneBlock(m[i], Len(entries), entries, g)
  BY MatchedBlocks
<1>2. DOMAIN m = 1 .. n /\ n \in Nat
  BY <1>1
<1>3. /\ M.parts = [k \in DOMAIN m |-> Part(entries, m[k])]
      /\ M.size = SizeIn(m) /\ M.number = NumberIn(m)
  BY MessageIs
<1>4. ASSUME NEW i \in DOMAIN m
      PROVE  /\ PartSays(Part(entries, m[i]), m[i].area, InAreaOf(entries, tickets, m[i].area),
                         SumOf(entries, tickets, m[i].area))
             /\ m[i].size = SumOf(entries, tickets, m[i].area)
             /\ m[i].count = Cardinality(InAreaOf(entries, tickets, m[i].area))
             /\ m[i].area \in Range(Areas)
  <2> PICK b : b = m[i]
    OBVIOUS
  <2>1. b \in Block /\ OneBlock(b, Len(entries), entries, g)
    BY <1>1
  <2>2. b.area \in Range(Areas)
    BY <2>1 DEF Block
  <2> QED
    BY <2>1, <2>2, PartRight
<1>5. \A i \in DOMAIN m : M.parts[i] = Part(entries, m[i]) /\ M.parts[i].area = m[i].area
  BY <1>3, <1>4 DEF PartSays
<1>6. DOMAIN M.parts = 1 .. n /\ Len(M.parts) = n
  BY <1>2, <1>3
<1>7. {M.parts[k].area : k \in DOMAIN M.parts} = R
  BY <1>1, <1>2, <1>5, <1>6 DEF FirstAreas
<1>8. Len(M.parts) = Cardinality(R)
  BY <1>1, <1>6, CountAreas
<1>9. \A k \in DOMAIN M.parts :
        PartSays(M.parts[k], M.parts[k].area, InAreaOf(entries, tickets, M.parts[k].area),
                 SumOf(entries, tickets, M.parts[k].area))
  BY <1>2, <1>4, <1>5, <1>6
<1> PICK w : w = [a \in Range(Areas) |-> SumOf(entries, tickets, a)]
  OBVIOUS
<1>10. Bytes(M.size) = SumFunction([a \in R |-> SumOf(entries, tickets, a)])
  <2>1. \A a \in Range(Areas) : w[a] \in Nat
    BY AllInFirst
  <2>2. PICK G : IsSum(G, Range(Areas), w)
    BY <2>1, AreasFinite, SumExists
  <2>3. Sizes(m, w)
    BY <1>4 DEF Sizes
  <2>4. Bytes(SizeIn(m)) = G[FirstAreas(m, Len(m))]
    BY <1>1, <2>2, <2>3, TotalSize
  <2>5. R \in SUBSET Range(Areas)
    BY <1>1, <1>2, <1>4 DEF FirstAreas
  <2>6. SumFunction(On(w, R)) = G[R]
    BY <2>2, <2>5, AreasFinite, SumIs
  <2>7. On(w, R) = [a \in R |-> SumOf(entries, tickets, a)]
    BY <2>5 DEF On
  <2> QED
    BY <1>1, <1>3, <2>4, <2>6, <2>7
<1>11. M.number = Cardinality(UNION {InAreaOf(entries, tickets, a) : a \in R})
  <2>1. \A i \in DOMAIN m : /\ IsFiniteSet(InAreaOf(entries, tickets, m[i].area))
                            /\ m[i].count = Cardinality(InAreaOf(entries, tickets, m[i].area))
    BY <1>4, AllInFirst
  <2>2. NumberIn(m) = Cardinality(FirstTickets(entries, m, Len(m)))
    BY <1>1, <2>1, TotalNumber
  <2>3. FirstTickets(entries, m, n) = UNION {InAreaOf(entries, tickets, a) : a \in FirstAreas(m, n)}
    BY DEF FirstTickets, FirstAreas
  <2> QED
    BY <1>1, <1>3, <2>2, <2>3
<1>12. InMessage(M) = UNION {InAreaOf(entries, tickets, a) : a \in R}
  <2>1. \A k \in DOMAIN M.parts :
          Range(M.parts[k].tickets) = InAreaOf(entries, tickets, M.parts[k].area)
    BY <1>9 DEF PartSays
  <2> QED
    BY <1>7, <2>1 DEF InMessage
<1> QED
  BY <1>7, <1>8, <1>9, <1>10, <1>11, <1>12 DEF PostedOK

-----------------------------------------------------------------------------
(* Types. *)

StoringSteps == {"save", "fill", "copy", "move", "add"}
ListingSteps == {"list", "tidy", "tidied", "listed"}
PostingSteps == {"post", "posted"}
Steps == {"idle", "main", "toss", "stored", "end"} \cup StoringSteps \cup ListingSteps
           \cup PostingSteps

BbsLine == BbsOf(setup.mark)
ListType == [entries : SUBSET [file : Files, desc : Seq(Texts)], size : SizeType]

ConfigOK ==
  /\ setup \in Setups /\ known \subseteq Range(Areas) /\ Home \in known
  /\ lock \in BOOLEAN /\ faults \in 0 .. MaxFaults

TextsOK ==
  /\ dir \subseteq Files \ {Tmp} /\ bbs \in Seq(BbsLine) /\ tmp \in [exists : BOOLEAN, lines : Seq(BbsLine)]
  /\ told \in [Files -> Seq(Texts)]

SpoolOK ==
  /\ tickets \in Seq(TicketType) /\ Len(tickets) <= setup.limit /\ inbox \subseteq DOMAIN tickets
  /\ report \in [1 .. setup.limit -> {"none", "empty", "saved", "gone"}]
  /\ posted \in [1 .. setup.limit -> [DOMAIN Defs -> 0 .. 2]]
  /\ unwritten \subseteq DOMAIN tickets

RunsOK ==
  /\ pc \in [Runs -> Steps] /\ cmds \in [Runs -> SUBSET Commands]
  /\ gone \in [Runs -> Seq(Files)]
  /\ DOMAIN now = Runs /\ DOMAIN todo = Runs /\ DOMAIN tree = Runs /\ DOMAIN list = Runs
  /\ DOMAIN snap = Runs /\ DOMAIN def = Runs /\ DOMAIN marked = Runs /\ DOMAIN message = Runs

Types == ConfigOK /\ TextsOK /\ SpoolOK /\ RunsOK

(* What a run holds is typed, and belongs to the step it is at. *)
RunOK(r) ==
  /\ now[r] \in {0} \cup DOMAIN tickets
  /\ snap[r] \in Seq(DOMAIN tickets) /\ marked[r] \subseteq Range(snap[r])
  /\ list[r] \in ListType
  /\ DOMAIN tree[r] \subseteq Files /\ \A f \in DOMAIN tree[r] : tree[r][f] \in Seq(Texts)
  /\ pc[r] \in StoringSteps => now[r] # 0
  /\ pc[r] \in {"copy", "move", "add"} => HasDir(now[r])
  /\ now[r] # 0 => pc[r] \in StoringSteps \cup {"stored"}
  /\ todo[r] # {} => pc[r] \in {"toss", "list", "stored"} \cup StoringSteps
  /\ pc[r] = "list" => todo[r] \subseteq dir \cup {Tmp}
  /\ pc[r] = "tidied" => gone[r] # <<>>
  /\ snap[r] # <<>> => pc[r] \in PostingSteps
  /\ pc[r] = "post" => def[r] \in 1 .. Len(Defs) + 1
  /\ pc[r] = "posted" => def[r] \in DOMAIN Defs
  /\ pc[r] \in {"idle", "end", "post", "posted"} => cmds[r] = {}
  /\ pc[r] \notin ListingSteps => list[r] = NoList

(* What the variables hold, and what each run holds at its step.           *)
TInv == Types /\ \A r \in Runs : RunOK(r)

LEMMA SetupIs ==
  ASSUME setup \in Setups
  PROVE  /\ setup.lock \in {"none", "file", "advisory"} /\ setup.spool \in BOOLEAN
         /\ setup.mark \in Marks /\ setup.limit \in Nat
         /\ setup.commands \subseteq SUBSET Commands
         /\ setup.tickets \subseteq TicketType /\ setup.hatches \subseteq HatchType
         /\ \A t \in setup.tickets : ~t.again
         /\ Defs \in Seq(DefType) /\ Len(Defs) \in Nat \ {0} /\ DOMAIN Defs = 1 .. Len(Defs)
<1>1. setup.defs \in Seq(DefType)
  BY CatalogAssumption
<1>2. DefaultDef \in DefType
  BY DEF DefaultDef, DefType
<1>3. Defs \in Seq(DefType) /\ Defs # <<>>
  BY <1>1, <1>2 DEF Defs
<1>4. Len(Defs) \in Nat \ {0} /\ DOMAIN Defs = 1 .. Len(Defs)
  BY <1>3
<1> QED
  BY <1>3, <1>4, CatalogAssumption

LEMMA LinesAre ==
  ASSUME setup \in Setups
  PROVE  /\ \A line \in BbsLine : line.text \in Texts
         /\ BbsLine \subseteq LineType
<1>1. setup.mark \in Marks
  BY SetupIs
<1>2. ASSUME NEW line \in BbsLine PROVE line.text \in Texts /\ line \in LineType
  <2>1. line \in BbsOf(setup.mark)
    BY DEF BbsLine
  <2>2. /\ line.text \in Texts
        /\ \/ line.word \in Files /\ line = Entry(line.word, line.text)
           \/ line = Continuation(setup.mark, line.text)
    BY <1>1, <2>1, LineKinds
  <2>3. FirstWord[line.text] \in Files \cup {NoName}
    BY <2>2, DescriptionsAssumption
  <2> QED
    BY <1>1, <2>2, <2>3 DEF LineType, Entry, Continuation
<1> QED
  BY <1>2

LEMMA NoListType == NoList \in ListType /\ NoTmp.exists = FALSE /\ NoTmp.lines = <<>>
BY DEF NoList, ListType, ZeroSize, SizeType, Digit, Unit, NoTmp

LEMMA TypeCorrectNow ==
  ASSUME TInv
  PROVE  TypeOK
<1>1. setup \in Setups
  BY DEF TInv, Types, ConfigOK
<1>2. bbs \in Seq(LineType) /\ tmp.lines \in Seq(LineType)
  <2>1. bbs \in Seq(BbsLine) /\ tmp.lines \in Seq(BbsLine)
    BY DEF TInv, Types, TextsOK
  <2>2. BbsLine \subseteq LineType
    BY <1>1, LinesAre
  <2> QED
    BY <2>1, <2>2
<1>3. \A n \in 1 .. setup.limit : posted[n] \in [DOMAIN Defs -> 0 .. 2]
  BY DEF TInv, Types, SpoolOK
<1>4. ASSUME NEW r \in Runs
      PROVE  /\ cmds[r] \subseteq Commands /\ now[r] \in {0} \cup DOMAIN tickets
             /\ \A f \in DOMAIN tree[r] : f \in Files /\ tree[r][f] \in DescType
             /\ gone[r] \in Seq(Files) /\ list[r].size \in SizeType
             /\ snap[r] \in Seq(DOMAIN tickets) /\ marked[r] \subseteq Range(snap[r])
             /\ pc[r] = "idle" => now[r] = 0 /\ todo[r] = {} /\ snap[r] = <<>> /\ cmds[r] = {}
  <2>1. RunOK(r)
    BY DEF TInv
  <2>2. cmds[r] \subseteq Commands /\ gone[r] \in Seq(Files)
    BY DEF TInv, Types, RunsOK
  <2>3. list[r].size \in SizeType
    BY <2>1 DEF RunOK, ListType
  <2>4. pc[r] = "idle" => now[r] = 0 /\ todo[r] = {} /\ snap[r] = <<>> /\ cmds[r] = {}
    BY <2>1 DEF RunOK, StoringSteps, PostingSteps
  <2> QED
    BY <2>1, <2>2, <2>3, <2>4 DEF RunOK, DescType
<1>5. told \in [Files -> DescType]
  BY DEF TInv, Types, TextsOK, DescType
<1> QED
  BY <1>1, <1>2, <1>3, <1>4, <1>5 DEF TInv, Types, ConfigOK, TextsOK, SpoolOK, TypeOK

\* What run q has is as before.
Same(q) ==
  /\ pc'[q] = pc[q] /\ cmds'[q] = cmds[q] /\ now'[q] = now[q] /\ todo'[q] = todo[q]
  /\ tree'[q] = tree[q] /\ list'[q] = list[q] /\ gone'[q] = gone[q] /\ snap'[q] = snap[q]
  /\ def'[q] = def[q] /\ marked'[q] = marked[q] /\ message'[q] = message[q]

Others(r) == \A q \in Runs \ {r} : Same(q)

StepOf(r) == Step(r) \/ Crash(r) \/ \E commands \in setup.commands : Start(r, commands)

(* A step of a run changes nothing that another run has. *)
LEMMA OthersSame ==
  ASSUME RunsOK, NEW r \in Runs, StepOf(r)
  PROVE  Others(r)
<1> USE DEF Others, Same, Goto, tossing, listing, posting, vars
<1>1. /\ DOMAIN pc = Runs /\ DOMAIN cmds = Runs /\ DOMAIN gone = Runs
      /\ DOMAIN now = Runs /\ DOMAIN todo = Runs /\ DOMAIN tree = Runs /\ DOMAIN list = Runs
      /\ DOMAIN snap = Runs /\ DOMAIN def = Runs /\ DOMAIN marked = Runs /\ DOMAIN message = Runs
  BY DEF RunsOK
<1>2. CASE Toss(r)
  BY <1>1, <1>2 DEF Toss
<1>3. CASE EndToss(r)
  BY <1>1, <1>3 DEF EndToss
<1>4. CASE (\E n \in todo[r] : TossOne(r, n))
  BY <1>1, <1>4 DEF TossOne, Put
<1>5. CASE (\E f \in Files, h \in setup.hatches : Hatch(r, f, h))
  BY <1>1, <1>5 DEF Hatch, Put
<1>6. CASE Save(r)
  BY <1>1, <1>6 DEF Save
<1>7. CASE Fill(r)
  BY <1>1, <1>7 DEF Fill
<1>8. CASE Copy(r)
  BY <1>1, <1>8 DEF Copy, CopyOf
<1>9. CASE Move(r)
  BY <1>1, <1>9 DEF Move, MoveOver
<1>10. CASE Add(r)
  BY <1>1, <1>10 DEF Add
<1>11. CASE Stored(r)
  BY <1>1, <1>11 DEF Stored
<1>12. CASE FileList(r)
  BY <1>1, <1>12 DEF FileList
<1>13. CASE (\E f \in todo[r] : ListOne(r, f))
  BY <1>1, <1>13 DEF ListOne
<1>14. CASE Collect(r)
  BY <1>1, <1>14 DEF Collect
<1>15. CASE TidyCopy(r)
  BY <1>1, <1>15 DEF TidyCopy, CopyOf
<1>16. CASE TidyMove(r)
  BY <1>1, <1>16 DEF TidyMove, MoveOver
<1>17. CASE Listed(r)
  BY <1>1, <1>17 DEF Listed
<1>18. CASE EndList(r)
  BY <1>1, <1>18 DEF EndList
<1>19. CASE Announce(r)
  BY <1>1, <1>19 DEF Announce
<1>20. CASE Post(r)
  BY <1>1, <1>20 DEF Post
<1>21. CASE NextDef(r)
  BY <1>1, <1>21 DEF NextDef
<1>22. CASE Free(r)
  BY <1>1, <1>22 DEF Free
<1>23. CASE End(r)
  BY <1>1, <1>23 DEF End
<1>24. CASE Crash(r)
  BY <1>1, <1>24 DEF Crash
<1>25. CASE (\E commands \in setup.commands : Start(r, commands))
  BY <1>1, <1>25 DEF Start
<1> QED
  BY <1>2, <1>3, <1>4, <1>5, <1>6, <1>7, <1>8, <1>9, <1>10, <1>11, <1>12, <1>13, <1>14, <1>15, <1>16, <1>17, <1>18, <1>19, <1>20, <1>21, <1>22, <1>23, <1>24, <1>25 DEF StepOf, Step

\* The tickets are the same as before, or there is one more.
Grown ==
  /\ setup' = setup /\ tickets' \in Seq(TicketType) /\ Len(tickets) <= Len(tickets')
  /\ \A n \in DOMAIN tickets : tickets'[n] = tickets[n]

LEMMA SeqOfMore ==
  ASSUME NEW D, NEW E, D \subseteq E
  PROVE  Seq(D) \subseteq Seq(E)
<1> SUFFICES ASSUME NEW s \in Seq(D) PROVE s \in Seq(E)
  OBVIOUS
<1>1. Len(s) \in Nat /\ s = [k \in 1 .. Len(s) |-> s[k]] /\ \A k \in 1 .. Len(s) : s[k] \in E
  OBVIOUS
<1> QED
  BY <1>1

LEMMA GrownIs ==
  ASSUME TInv, Grown
  PROVE  DOMAIN tickets = 1 .. Len(tickets) /\ Len(tickets) \in Nat
         /\ DOMAIN tickets' = 1 .. Len(tickets') /\ Len(tickets') \in Nat
         /\ DOMAIN tickets \subseteq DOMAIN tickets'
         /\ Seq(DOMAIN tickets) \subseteq Seq(DOMAIN tickets')
<1>1. tickets \in Seq(TicketType) /\ tickets' \in Seq(TicketType) /\ Len(tickets) <= Len(tickets')
  BY DEF TInv, Types, SpoolOK, Grown
<1>2. DOMAIN tickets = 1 .. Len(tickets) /\ Len(tickets) \in Nat
      /\ DOMAIN tickets' = 1 .. Len(tickets') /\ Len(tickets') \in Nat
  BY <1>1
<1>3. DOMAIN tickets \subseteq DOMAIN tickets'
  BY <1>1, <1>2
<1> QED
  BY <1>2, <1>3, SeqOfMore

LEMMA NotMoved ==
  ASSUME TInv, Grown, dir \subseteq dir', NEW q \in Runs, Same(q)
  PROVE  RunOK(q)'
<1>1. RunOK(q)
  BY DEF TInv
<1>2. /\ DOMAIN tickets \subseteq DOMAIN tickets' /\ Seq(DOMAIN tickets) \subseteq Seq(DOMAIN tickets')
      /\ \A n \in DOMAIN tickets : tickets'[n] = tickets[n]
  BY GrownIs DEF Grown
<1>3. Defs' = Defs /\ setup' = setup
  BY DEF Grown, Defs
<1>4. pc[q] \in {"copy", "move", "add"} => now[q] \in DOMAIN tickets
  BY <1>1 DEF RunOK, StoringSteps
<1> QED
  BY <1>1, <1>2, <1>3, <1>4 DEF RunOK, Same, HasDir

(* So it is enough to look at the run that takes a step. *)
LEMMA OneMoved ==
  ASSUME TInv, Grown, dir \subseteq dir', NEW r \in Runs, StepOf(r), Types', RunOK(r)'
  PROVE  TInv'
<1>1. Others(r)
  BY OthersSame DEF TInv, Types
<1>2. ASSUME NEW q \in Runs PROVE RunOK(q)'
  BY <1>1, NotMoved DEF Others
<1> QED
  BY <1>2 DEF TInv

LEMMA TicketTexts ==
  ASSUME NEW t \in TicketType
  PROVE  /\ Described(t) \in Seq(Texts) /\ t.file \in Files /\ t.file # Tmp
         /\ t.area \in Range(Areas) /\ t.again \in BOOLEAN
<1>1. /\ t.desc \in Seq(Texts) /\ t.ldesc \in Seq(Texts) /\ t.diz \in Seq(Texts)
      /\ t.file \in Files /\ t.file # Tmp /\ t.area \in Range(Areas) /\ t.again \in BOOLEAN
  BY DEF TicketType
<1>2. Described(t) \in Seq(Texts)
  BY <1>1 DEF Described
<1> QED
  BY <1>1, <1>2

LEMMA ParseType ==
  ASSUME NEW L, NEW s \in Seq(L), \A line \in L : line.text \in Texts
  PROVE  /\ DOMAIN ParseBBS(s) = NamedIn(s) /\ NamedIn(s) \subseteq Files
         /\ \A f \in DOMAIN ParseBBS(s) : /\ ParseBBS(s)[f] \in Seq(Texts)
                                          /\ Unique(s, f) => ParseBBS(s)[f] = GetDesc(s, f)
<1>1. DOMAIN ParseBBS(s) = NamedIn(s) /\ NamedIn(s) \subseteq Files
  BY DEF ParseBBS, NamedIn
<1>2. ASSUME NEW f \in NamedIn(s)
      PROVE  /\ ParseBBS(s)[f] \in Seq(Texts)
             /\ Unique(s, f) => ParseBBS(s)[f] = GetDesc(s, f)
  <2> PICK E : E = Entries(s, f)
    OBVIOUS
  <2>1. E # {} /\ Len(s) \in Nat
    BY DEF NamedIn
  <2>2. E \in SUBSET (1 .. Len(s))
    BY DEF Entries
  <2>3. Max(E) \in E
    BY <2>1, <2>2, MaxIn
  <2>4. ParseBBS(s)[f] = DescAt(s, Max(E))
    BY DEF ParseBBS, NamedIn
  <2>5. DescAt(s, Max(E)) \in Seq(Texts)
    <3>1. PICK k \in 1 .. Len(s) : k = Max(E)
      BY <2>2, <2>3
    <3>2. \A line \in L : line.text \in Texts
      OBVIOUS
    <3>3. DescAt(s, k) \in Seq(Texts)
      BY <3>2, TextsOfDesc
    <3> QED
      BY <3>1, <3>3
  <2>6. Unique(s, f) => Max(E) = Min(E)
    <3>1. Min(E) \in E
      BY <2>1, FirstEntry
    <3> QED
      BY <2>3, <3>1 DEF Unique
  <2>7. GetDesc(s, f) = DescAt(s, Min(E))
    BY <2>1 DEF GetDesc
  <2> QED
    BY <2>4, <2>5, <2>6, <2>7
<1> QED
  BY <1>1, <1>2

LEMMA ReportInfoType ==
  ASSUME SpoolOK, NEW entries \in IF setup.spool THEN ReportInfo ELSE {<<>>}
  PROVE  /\ entries \in Seq(DOMAIN tickets) /\ IsInjective(entries)
         /\ Range(entries) \subseteq Saved
         /\ \A j, k \in DOMAIN entries : j < k => ~Before(entries[k], entries[j])
         /\ ~(setup.spool /\ Saved # {}) => entries = <<>>
<1>1. CASE entries = <<>>
  BY <1>1 DEF IsInjective, Range
<1>2. CASE setup.spool /\ entries \in ReportInfo
  <2>1. /\ entries \in [1 .. Cardinality(Saved) -> Saved] /\ IsInjective(entries)
        /\ \A j, k \in DOMAIN entries : j < k => ~Before(entries[k], entries[j])
    BY <1>2 DEF ReportInfo
  <2>2. Saved \in SUBSET DOMAIN tickets
    BY DEF Saved
  <2>3. IsFiniteSet(Saved)
    <3>1. DOMAIN tickets = 1 .. Len(tickets) /\ Len(tickets) \in Nat
      BY DEF SpoolOK
    <3>2. IsFiniteSet(DOMAIN tickets)
      BY <3>1, FS_Interval
    <3> QED
      BY <2>2, <3>2, FS_Subset
  <2>4. Cardinality(Saved) \in Nat /\ (Saved = {} => Cardinality(Saved) = 0)
    BY <2>3, FS_CardinalityType, FS_EmptySet
  <2> PICK n : n = Cardinality(Saved)
    OBVIOUS
  <2>5. entries \in Seq(DOMAIN tickets) /\ Range(entries) \subseteq Saved
    BY <2>1, <2>2, <2>4 DEF Range
  <2>6. Saved = {} => entries = <<>>
    BY <2>1, <2>4
  <2> QED
    BY <1>2, <2>1, <2>5, <2>6
<1> QED
  BY <1>1, <1>2

LEMMA TossTypes ==
  ASSUME TInv, NEW r \in Runs, Toss(r)
  PROVE  TInv'
<1> USE DEF world, texts, spools, tossing, listing, posting, Goto, Toss
<1>1. ConfigOK /\ TextsOK /\ SpoolOK /\ RunsOK /\ RunOK(r)
  BY DEF TInv, Types
<1>2. setup' = setup /\ tickets' = tickets /\ Grown /\ dir \subseteq dir'
  BY <1>1 DEF Grown, SpoolOK
<1>3. ConfigOK'
  BY <1>1 DEF ConfigOK
<1>4. TextsOK'
  BY <1>1, <1>2 DEF TextsOK, BbsLine
<1>5. SpoolOK'
  BY <1>1 DEF SpoolOK, Defs
<1>6. RunsOK'
  BY <1>1 DEF RunsOK, Steps, StoringSteps, ListingSteps, PostingSteps
<1>7. RunOK(r)'
  BY <1>1 DEF RunsOK, RunOK, Defs, HasDir, StoringSteps, ListingSteps, PostingSteps
<1>8. StepOf(r)
  BY DEF StepOf, Step
<1> QED
  BY <1>2, <1>3, <1>4, <1>5, <1>6, <1>7, <1>8, OneMoved DEF Types

LEMMA EndTossTypes ==
  ASSUME TInv, NEW r \in Runs, EndToss(r)
  PROVE  TInv'
<1> USE DEF world, texts, spools, tossing, listing, posting, Goto, EndToss, After
<1>1. ConfigOK /\ TextsOK /\ SpoolOK /\ RunsOK /\ RunOK(r)
  BY DEF TInv, Types
<1>2. setup' = setup /\ tickets' = tickets /\ Grown /\ dir \subseteq dir'
  BY <1>1 DEF Grown, SpoolOK
<1>3. ConfigOK'
  BY <1>1 DEF ConfigOK
<1>4. TextsOK'
  BY <1>1, <1>2 DEF TextsOK, BbsLine
<1>5. SpoolOK'
  BY <1>1 DEF SpoolOK, Defs
<1>6. RunsOK'
  BY <1>1 DEF RunsOK, Steps, StoringSteps, ListingSteps, PostingSteps
<1>7. RunOK(r)'
  BY <1>1 DEF RunsOK, RunOK, Defs, HasDir, StoringSteps, ListingSteps, PostingSteps
<1>8. StepOf(r)
  BY DEF StepOf, Step
<1> QED
  BY <1>2, <1>3, <1>4, <1>5, <1>6, <1>7, <1>8, OneMoved DEF Types

LEMMA TossOneTypes ==
  ASSUME TInv, NEW r \in Runs, NEW n \in todo[r], TossOne(r, n)
  PROVE  TInv'
<1> USE DEF world, texts, spools, tossing, listing, posting, Goto, TossOne, Put
<1>1. ConfigOK /\ TextsOK /\ SpoolOK /\ RunsOK /\ RunOK(r)
  BY DEF TInv, Types
<1>2. setup' = setup /\ tickets' = tickets /\ Grown /\ dir \subseteq dir'
  BY <1>1 DEF Grown, SpoolOK
<1>3. ConfigOK'
  BY <1>1 DEF ConfigOK
<1>4. TextsOK'
  <2>1. n \in inbox => tickets[n] \in TicketType
    BY <1>1 DEF SpoolOK
  <2>2. n \in inbox => tickets[n].file \in Files \ {Tmp}
    BY <2>1 DEF TicketType
  <2>3. dir' \subseteq Files \ {Tmp}
    BY <1>1, <1>2, <2>2 DEF TextsOK
  <2> QED
    BY <1>1, <1>2, <2>3 DEF TextsOK, BbsLine
<1>5. SpoolOK'
  BY <1>1 DEF SpoolOK, Defs
<1>6. RunsOK'
  BY <1>1 DEF RunsOK, Steps, StoringSteps, ListingSteps, PostingSteps
<1>7. RunOK(r)'
  <2>1. /\ todo'[r] = todo[r] \ {n} /\ cmds' = cmds /\ tree' = tree /\ list' = list /\ gone' = gone
        /\ snap' = snap /\ def' = def /\ marked' = marked /\ pc[r] = "toss"
    BY <1>1 DEF RunsOK
  <2>2. CASE n \in inbox
    <3>1. /\ now'[r] = n /\ pc'[r] \in {"save", "copy", "stored"}
          /\ pc'[r] = "copy" => tickets[n].area = Home
      BY <1>1, <1>2, <2>2 DEF RunsOK
    <3>2. n \in DOMAIN tickets /\ n # 0
      BY <1>1, <2>2 DEF SpoolOK
    <3> HIDE DEF TossOne, Put
    <3> QED
      BY <1>1, <1>2, <2>1, <3>1, <3>2 DEF RunOK, Defs, HasDir, StoringSteps, ListingSteps, PostingSteps
  <2>3. CASE n \notin inbox
    <3>1. now' = now /\ pc' = pc
      BY <2>3
    <3> HIDE DEF TossOne, Put
    <3> QED
      BY <1>1, <1>2, <2>1, <3>1 DEF RunOK, Defs, HasDir, StoringSteps, ListingSteps, PostingSteps
  <2> QED
    BY <2>2, <2>3
<1>8. StepOf(r)
  BY DEF StepOf, Step
<1> QED
  BY <1>2, <1>3, <1>4, <1>5, <1>6, <1>7, <1>8, OneMoved DEF Types

LEMMA SaveTypes ==
  ASSUME TInv, NEW r \in Runs, Save(r)
  PROVE  TInv'
<1> USE DEF world, texts, spools, tossing, listing, posting, Goto, Save
<1>1. ConfigOK /\ TextsOK /\ SpoolOK /\ RunsOK /\ RunOK(r)
  BY DEF TInv, Types
<1>2. setup' = setup /\ tickets' = tickets /\ Grown /\ dir \subseteq dir'
  BY <1>1 DEF Grown, SpoolOK
<1>3. ConfigOK'
  <2>1. faults < MaxFaults => faults + 1 \in 0 .. MaxFaults
    BY <1>1, CatalogAssumption DEF ConfigOK
  <2> QED
    BY <1>1, <2>1 DEF ConfigOK
<1>4. TextsOK'
  BY <1>1, <1>2 DEF TextsOK, BbsLine
<1>5. SpoolOK'
  BY <1>1 DEF SpoolOK, Defs
<1>6. RunsOK'
  BY <1>1, ZenonT(60) DEF RunsOK, Steps, StoringSteps, ListingSteps, PostingSteps
<1>7. RunOK(r)'
  BY <1>1 DEF RunsOK, RunOK, Defs, HasDir, StoringSteps, ListingSteps, PostingSteps
<1>8. StepOf(r)
  BY DEF StepOf, Step
<1> QED
  BY <1>2, <1>3, <1>4, <1>5, <1>6, <1>7, <1>8, OneMoved DEF Types

LEMMA FillTypes ==
  ASSUME TInv, NEW r \in Runs, Fill(r)
  PROVE  TInv'
<1> USE DEF world, texts, spools, tossing, listing, posting, Goto, Fill
<1>1. ConfigOK /\ TextsOK /\ SpoolOK /\ RunsOK /\ RunOK(r)
  BY DEF TInv, Types
<1>2. setup' = setup /\ tickets' = tickets /\ Grown /\ dir \subseteq dir'
  BY <1>1 DEF Grown, SpoolOK
<1>3. ConfigOK'
  BY <1>1 DEF ConfigOK
<1>4. TextsOK'
  BY <1>1, <1>2 DEF TextsOK, BbsLine
<1>5. SpoolOK'
  BY <1>1 DEF SpoolOK, Defs
<1>6. RunsOK'
  BY <1>1 DEF RunsOK, Steps, StoringSteps, ListingSteps, PostingSteps
<1>7. RunOK(r)'
  BY <1>1 DEF RunsOK, RunOK, Defs, HasDir, StoringSteps, ListingSteps, PostingSteps
<1>8. StepOf(r)
  BY DEF StepOf, Step
<1> QED
  BY <1>2, <1>3, <1>4, <1>5, <1>6, <1>7, <1>8, OneMoved DEF Types

LEMMA CopyTypes ==
  ASSUME TInv, NEW r \in Runs, Copy(r)
  PROVE  TInv'
<1> USE DEF world, texts, spools, tossing, listing, posting, Goto, Copy, CopyOf
<1>1. ConfigOK /\ TextsOK /\ SpoolOK /\ RunsOK /\ RunOK(r)
  BY DEF TInv, Types
<1>2. setup' = setup /\ tickets' = tickets /\ Grown /\ dir \subseteq dir'
  BY <1>1 DEF Grown, SpoolOK
<1>3. ConfigOK'
  BY <1>1 DEF ConfigOK
<1>4. TextsOK'
  <2>1. setup.mark \in Marks /\ tickets[now[r]].file \in Files
    <3>1. now[r] \in DOMAIN tickets
      BY <1>1 DEF RunOK, StoringSteps
    <3>2. tickets[now[r]] \in TicketType
      BY <1>1, <3>1 DEF SpoolOK
    <3> QED
      BY <1>1, <3>2, SetupIs DEF ConfigOK, TicketType
  <2>2. RemoveDesc(bbs, tickets[now[r]].file) \in Seq(BbsLine)
    <3>1. bbs \in Seq(BbsOf(setup.mark))
      BY <1>1 DEF TextsOK, BbsLine
    <3> QED
      BY <2>1, <3>1, RemoveDescRight DEF BbsLine
  <2> QED
    BY <1>1, <1>2, <2>2 DEF TextsOK, BbsLine
<1>5. SpoolOK'
  BY <1>1 DEF SpoolOK, Defs
<1>6. RunsOK'
  BY <1>1 DEF RunsOK, Steps, StoringSteps, ListingSteps, PostingSteps
<1>7. RunOK(r)'
  BY <1>1 DEF RunsOK, RunOK, Defs, HasDir, StoringSteps, ListingSteps, PostingSteps
<1>8. StepOf(r)
  BY DEF StepOf, Step
<1> QED
  BY <1>2, <1>3, <1>4, <1>5, <1>6, <1>7, <1>8, OneMoved DEF Types

LEMMA MoveTypes ==
  ASSUME TInv, NEW r \in Runs, Move(r)
  PROVE  TInv'
<1> USE DEF world, texts, spools, tossing, listing, posting, Goto, Move, MoveOver
<1>1. ConfigOK /\ TextsOK /\ SpoolOK /\ RunsOK /\ RunOK(r)
  BY DEF TInv, Types
<1>2. setup' = setup /\ tickets' = tickets /\ Grown /\ dir \subseteq dir'
  BY <1>1 DEF Grown, SpoolOK
<1>3. ConfigOK'
  BY <1>1 DEF ConfigOK
<1>4. TextsOK'
  <2>1. NoTmp \in [exists : BOOLEAN, lines : Seq(BbsLine)]
    BY DEF NoTmp
  <2>2. tmp.lines \in Seq(BbsLine)
    BY <1>1 DEF TextsOK
  <2> QED
    BY <1>1, <1>2, <2>1, <2>2 DEF TextsOK, BbsLine
<1>5. SpoolOK'
  BY <1>1 DEF SpoolOK, Defs
<1>6. RunsOK'
  BY <1>1 DEF RunsOK, Steps, StoringSteps, ListingSteps, PostingSteps
<1>7. RunOK(r)'
  BY <1>1 DEF RunsOK, RunOK, Defs, HasDir, StoringSteps, ListingSteps, PostingSteps
<1>8. StepOf(r)
  BY DEF StepOf, Step
<1> QED
  BY <1>2, <1>3, <1>4, <1>5, <1>6, <1>7, <1>8, OneMoved DEF Types

LEMMA AddTypes ==
  ASSUME TInv, NEW r \in Runs, Add(r)
  PROVE  TInv'
<1> USE DEF world, texts, spools, tossing, listing, posting, Goto, Add
<1>1. ConfigOK /\ TextsOK /\ SpoolOK /\ RunsOK /\ RunOK(r)
  BY DEF TInv, Types
<1>2. setup' = setup /\ tickets' = tickets /\ Grown /\ dir \subseteq dir'
  BY <1>1 DEF Grown, SpoolOK
<1>3. ConfigOK'
  BY <1>1 DEF ConfigOK
<1>4. TextsOK'
  <2> PICK t : t = tickets[now[r]]
    OBVIOUS
  <2>1. t \in TicketType
    <3>1. now[r] \in DOMAIN tickets
      BY <1>1 DEF RunOK, StoringSteps
    <3> QED
      BY <1>1, <3>1 DEF SpoolOK
  <2>2. Described(t) \in Seq(Texts) /\ t.file \in Files
    BY <2>1, TicketTexts
  <2>3. setup.mark \in Marks /\ bbs \in Seq(BbsOf(setup.mark))
    BY <1>1, SetupIs DEF ConfigOK, TextsOK, BbsLine
  <2>4. bbs' \in Seq(BbsLine)
    <3>1. bbs' = AddDescription(bbs, t.file, Described(t), setup.mark)
      OBVIOUS
    <3> QED
      BY <2>2, <2>3, <3>1, AddDescriptionRight DEF BbsLine
  <2>5. told' \in [Files -> Seq(Texts)]
    BY <1>1, <2>2 DEF TextsOK
  <2> QED
    BY <1>1, <1>2, <2>4, <2>5 DEF TextsOK, BbsLine
<1>5. SpoolOK'
  BY <1>1 DEF SpoolOK, Defs
<1>6. RunsOK'
  BY <1>1 DEF RunsOK, Steps, StoringSteps, ListingSteps, PostingSteps
<1>7. RunOK(r)'
  BY <1>1 DEF RunsOK, RunOK, Defs, HasDir, StoringSteps, ListingSteps, PostingSteps
<1>8. StepOf(r)
  BY DEF StepOf, Step
<1> QED
  BY <1>2, <1>3, <1>4, <1>5, <1>6, <1>7, <1>8, OneMoved DEF Types

LEMMA StoredTypes ==
  ASSUME TInv, NEW r \in Runs, Stored(r)
  PROVE  TInv'
<1> USE DEF world, texts, spools, tossing, listing, posting, Goto, Stored, After
<1>1. ConfigOK /\ TextsOK /\ SpoolOK /\ RunsOK /\ RunOK(r)
  BY DEF TInv, Types
<1>2. setup' = setup /\ tickets' = tickets /\ Grown /\ dir \subseteq dir'
  BY <1>1 DEF Grown, SpoolOK
<1>3. ConfigOK'
  BY <1>1 DEF ConfigOK
<1>4. TextsOK'
  BY <1>1, <1>2 DEF TextsOK, BbsLine
<1>5. SpoolOK'
  BY <1>1 DEF SpoolOK, Defs
<1>6. RunsOK'
  BY <1>1 DEF RunsOK, Steps, StoringSteps, ListingSteps, PostingSteps
<1>7. RunOK(r)'
  BY <1>1 DEF RunsOK, RunOK, Defs, HasDir, StoringSteps, ListingSteps, PostingSteps
<1>8. StepOf(r)
  BY DEF StepOf, Step
<1> QED
  BY <1>2, <1>3, <1>4, <1>5, <1>6, <1>7, <1>8, OneMoved DEF Types

LEMMA FileListTypes ==
  ASSUME TInv, NEW r \in Runs, FileList(r)
  PROVE  TInv'
<1> USE DEF world, texts, spools, tossing, listing, posting, Goto, FileList
<1>1. ConfigOK /\ TextsOK /\ SpoolOK /\ RunsOK /\ RunOK(r)
  BY DEF TInv, Types
<1>2. setup' = setup /\ tickets' = tickets /\ Grown /\ dir \subseteq dir'
  BY <1>1 DEF Grown, SpoolOK
<1>3. ConfigOK'
  BY <1>1 DEF ConfigOK
<1>4. TextsOK'
  BY <1>1, <1>2 DEF TextsOK, BbsLine
<1>5. SpoolOK'
  BY <1>1 DEF SpoolOK, Defs
<1>6. RunsOK'
  BY <1>1 DEF RunsOK, Steps, StoringSteps, ListingSteps, PostingSteps
<1>7. RunOK(r)'
  <2>1. /\ todo'[r] = Present /\ tree'[r] = ParseBBS(bbs) /\ pc'[r] = "list" /\ list' = list
        /\ gone' = gone /\ snap' = snap /\ def' = def /\ marked' = marked /\ now' = now
        /\ dir' = dir /\ pc[r] = "main"
    BY <1>1 DEF RunsOK
  <2>2. /\ DOMAIN ParseBBS(bbs) \subseteq Files
        /\ \A f \in DOMAIN ParseBBS(bbs) : ParseBBS(bbs)[f] \in Seq(Texts)
    BY <1>1, ParseType, LinesAre DEF ConfigOK, TextsOK
  <2>3. Present \subseteq dir \cup {Tmp}
    BY DEF Present
  <2> HIDE DEF FileList
  <2> QED
    BY <1>1, <1>2, <2>1, <2>2, <2>3 DEF RunOK, Defs, HasDir, StoringSteps, ListingSteps, PostingSteps
<1>8. StepOf(r)
  BY DEF StepOf, Step
<1> QED
  BY <1>2, <1>3, <1>4, <1>5, <1>6, <1>7, <1>8, OneMoved DEF Types

LEMMA ListOneTypes ==
  ASSUME TInv, NEW r \in Runs, NEW f \in todo[r], ListOne(r, f)
  PROVE  TInv'
<1> USE DEF world, texts, spools, tossing, listing, posting, Goto, ListOne
<1>1. ConfigOK /\ TextsOK /\ SpoolOK /\ RunsOK /\ RunOK(r)
  BY DEF TInv, Types
<1>2. setup' = setup /\ tickets' = tickets /\ Grown /\ dir \subseteq dir'
  BY <1>1 DEF Grown, SpoolOK
<1>3. ConfigOK'
  BY <1>1 DEF ConfigOK
<1>4. TextsOK'
  <2>1. f \in Files /\ <<DescNA>> \in Seq(Texts)
    BY <1>1, DescriptionsAssumption, CatalogAssumption DEF RunOK, TextsOK
  <2>2. setup.mark \in Marks /\ bbs \in Seq(BbsOf(setup.mark))
    BY <1>1, SetupIs DEF ConfigOK, TextsOK, BbsLine
  <2>3. AddDescription(bbs, f, <<DescNA>>, setup.mark) \in Seq(BbsLine)
    BY <2>1, <2>2, AddDescriptionRight DEF BbsLine
  <2>4. bbs' \in Seq(BbsLine)
    BY <1>1, <2>3 DEF TextsOK
  <2>5. told' \in [Files -> Seq(Texts)]
    BY <1>1, <2>1 DEF TextsOK
  <2> QED
    BY <1>1, <1>2, <2>4, <2>5 DEF TextsOK, BbsLine
<1>5. SpoolOK'
  BY <1>1 DEF SpoolOK, Defs
<1>6. RunsOK'
  BY <1>1 DEF RunsOK, Steps, StoringSteps, ListingSteps, PostingSteps
<1>7. RunOK(r)'
  <2> PICK e : e = [file |-> f, desc |-> IF f \in DOMAIN tree[r] THEN tree[r][f] ELSE <<DescNA>>]
    OBVIOUS
  <2>1. /\ todo'[r] = todo[r] \ {f} /\ tree' = tree /\ pc' = pc /\ cmds' = cmds
        /\ gone' = gone /\ snap' = snap /\ def' = def /\ marked' = marked /\ now' = now
        /\ dir' = dir /\ pc[r] = "list"
        /\ list'[r] = [entries |-> list[r].entries \cup {e}, size |-> IncBigSize(list[r].size, Size[f])]
    BY <1>1 DEF RunsOK
  <2>2. f \in Files /\ <<DescNA>> \in Seq(Texts) /\ Size[f] \in Nat
    BY <1>1, DescriptionsAssumption, CatalogAssumption DEF RunOK, TextsOK
  <2>3. e \in [file : Files, desc : Seq(Texts)]
    BY <1>1, <2>2 DEF RunOK
  <2>4. list[r].entries \subseteq [file : Files, desc : Seq(Texts)] /\ list[r].size \in SizeType
    BY <1>1 DEF RunOK, ListType
  <2>5. list'[r] \in ListType
    <3>1. IncBigSize(list[r].size, Size[f]) \in SizeType
      BY <2>2, <2>4, TotalIsExact
    <3>2. list[r].entries \cup {e} \in SUBSET [file : Files, desc : Seq(Texts)]
      BY <2>3, <2>4
    <3> HIDE DEF ListOne
    <3> QED
      BY <2>1, <3>1, <3>2 DEF ListType
  <2> HIDE DEF ListOne
  <2> QED
    BY <1>1, <1>2, <2>1, <2>5 DEF RunOK, Defs, HasDir, StoringSteps, ListingSteps, PostingSteps
<1>8. StepOf(r)
  BY DEF StepOf, Step
<1> QED
  BY <1>2, <1>3, <1>4, <1>5, <1>6, <1>7, <1>8, OneMoved DEF Types

LEMMA CollectTypes ==
  ASSUME TInv, NEW r \in Runs, Collect(r)
  PROVE  TInv'
<1> USE DEF world, texts, spools, tossing, listing, posting, Goto, Collect
<1>1. ConfigOK /\ TextsOK /\ SpoolOK /\ RunsOK /\ RunOK(r)
  BY DEF TInv, Types
<1>2. setup' = setup /\ tickets' = tickets /\ Grown /\ dir \subseteq dir'
  BY <1>1 DEF Grown, SpoolOK
<1>3. ConfigOK'
  BY <1>1 DEF ConfigOK
<1>4. TextsOK'
  BY <1>1, <1>2 DEF TextsOK, BbsLine
<1>5. SpoolOK'
  BY <1>1 DEF SpoolOK, Defs
<1>6. RunsOK'
  <2>1. setup.mark \in Marks /\ bbs \in Seq(BbsOf(setup.mark))
    BY <1>1, SetupIs DEF ConfigOK, TextsOK, BbsLine
  <2>2. MissingNames(bbs, Present) \in Seq(Files)
    BY <2>1, MissingNamesRight
  <2> QED
    BY <1>1, <2>2 DEF RunsOK, Steps, StoringSteps, ListingSteps, PostingSteps
<1>7. RunOK(r)'
  BY <1>1 DEF RunsOK, RunOK, Defs, HasDir, StoringSteps, ListingSteps, PostingSteps
<1>8. StepOf(r)
  BY DEF StepOf, Step
<1> QED
  BY <1>2, <1>3, <1>4, <1>5, <1>6, <1>7, <1>8, OneMoved DEF Types

LEMMA TidyCopyTypes ==
  ASSUME TInv, NEW r \in Runs, TidyCopy(r)
  PROVE  TInv'
<1> USE DEF world, texts, spools, tossing, listing, posting, Goto, TidyCopy, CopyOf
<1>1. ConfigOK /\ TextsOK /\ SpoolOK /\ RunsOK /\ RunOK(r)
  BY DEF TInv, Types
<1>2. setup' = setup /\ tickets' = tickets /\ Grown /\ dir \subseteq dir'
  BY <1>1 DEF Grown, SpoolOK
<1>3. ConfigOK'
  BY <1>1 DEF ConfigOK
<1>4. TextsOK'
  <2>1. setup.mark \in Marks /\ Head(gone[r]) \in Files
    <3>1. gone[r] \in Seq(Files) /\ gone[r] # <<>>
      BY <1>1 DEF RunsOK, RunOK
    <3>2. Head(gone[r]) \in Files
      BY <3>1
    <3> QED
      BY <1>1, <3>2, SetupIs DEF ConfigOK
  <2>2. RemoveDesc(bbs, Head(gone[r])) \in Seq(BbsLine)
    <3>1. bbs \in Seq(BbsOf(setup.mark))
      BY <1>1 DEF TextsOK, BbsLine
    <3> QED
      BY <2>1, <3>1, RemoveDescRight DEF BbsLine
  <2> QED
    BY <1>1, <1>2, <2>2 DEF TextsOK, BbsLine
<1>5. SpoolOK'
  BY <1>1 DEF SpoolOK, Defs
<1>6. RunsOK'
  BY <1>1 DEF RunsOK, Steps, StoringSteps, ListingSteps, PostingSteps
<1>7. RunOK(r)'
  BY <1>1 DEF RunsOK, RunOK, Defs, HasDir, StoringSteps, ListingSteps, PostingSteps
<1>8. StepOf(r)
  BY DEF StepOf, Step
<1> QED
  BY <1>2, <1>3, <1>4, <1>5, <1>6, <1>7, <1>8, OneMoved DEF Types

LEMMA TidyMoveTypes ==
  ASSUME TInv, NEW r \in Runs, TidyMove(r)
  PROVE  TInv'
<1> USE DEF world, texts, spools, tossing, listing, posting, Goto, TidyMove, MoveOver
<1>1. ConfigOK /\ TextsOK /\ SpoolOK /\ RunsOK /\ RunOK(r)
  BY DEF TInv, Types
<1>2. setup' = setup /\ tickets' = tickets /\ Grown /\ dir \subseteq dir'
  BY <1>1 DEF Grown, SpoolOK
<1>3. ConfigOK'
  BY <1>1 DEF ConfigOK
<1>4. TextsOK'
  <2>1. NoTmp \in [exists : BOOLEAN, lines : Seq(BbsLine)]
    BY DEF NoTmp
  <2>2. tmp.lines \in Seq(BbsLine)
    BY <1>1 DEF TextsOK
  <2>3. told' \in [Files -> Seq(Texts)]
    <3>1. Unclear \in Seq(Texts)
      BY DEF Unclear
    <3> QED
      BY <1>1, <3>1 DEF TextsOK
  <2> QED
    BY <1>1, <1>2, <2>1, <2>2, <2>3 DEF TextsOK, BbsLine
<1>5. SpoolOK'
  BY <1>1 DEF SpoolOK, Defs
<1>6. RunsOK'
  <2>1. gone[r] \in Seq(Files) /\ gone[r] # <<>>
    BY <1>1 DEF RunsOK, RunOK
  <2>2. Tail(gone[r]) \in Seq(Files)
    BY <2>1
  <2>3. gone' \in [Runs -> Seq(Files)]
    BY <1>1, <2>2 DEF RunsOK
  <2> QED
    BY <1>1, <2>3 DEF RunsOK, Steps, StoringSteps, ListingSteps, PostingSteps
<1>7. RunOK(r)'
  BY <1>1 DEF RunsOK, RunOK, Defs, HasDir, StoringSteps, ListingSteps, PostingSteps
<1>8. StepOf(r)
  BY DEF StepOf, Step
<1> QED
  BY <1>2, <1>3, <1>4, <1>5, <1>6, <1>7, <1>8, OneMoved DEF Types

LEMMA ListedTypes ==
  ASSUME TInv, NEW r \in Runs, Listed(r)
  PROVE  TInv'
<1> USE DEF world, texts, spools, tossing, listing, posting, Goto, Listed
<1>1. ConfigOK /\ TextsOK /\ SpoolOK /\ RunsOK /\ RunOK(r)
  BY DEF TInv, Types
<1>2. setup' = setup /\ tickets' = tickets /\ Grown /\ dir \subseteq dir'
  BY <1>1 DEF Grown, SpoolOK
<1>3. ConfigOK'
  BY <1>1 DEF ConfigOK
<1>4. TextsOK'
  BY <1>1, <1>2 DEF TextsOK, BbsLine
<1>5. SpoolOK'
  BY <1>1 DEF SpoolOK, Defs
<1>6. RunsOK'
  BY <1>1 DEF RunsOK, Steps, StoringSteps, ListingSteps, PostingSteps
<1>7. RunOK(r)'
  <2>1. /\ todo' = todo /\ tree' = tree /\ pc'[r] = "listed" /\ cmds' = cmds
        /\ gone' = gone /\ snap' = snap /\ def' = def /\ marked' = marked /\ now' = now
        /\ dir' = dir /\ pc[r] = "tidy"
        /\ list'[r] = [list[r] EXCEPT !.size = IncBigSize2(ZeroSize, list[r].size)]
    BY <1>1 DEF RunsOK
  <2>2. list[r] \in ListType
    BY <1>1 DEF RunOK
  <2>3. IncBigSize2(ZeroSize, list[r].size) \in SizeType
    <3>1. list[r].size \in SizeType
      BY <2>2 DEF ListType
    <3>2. ZeroSize \in SizeType
      BY DEF ZeroSize, SizeType, Digit, Unit
    <3> QED
      BY <3>1, <3>2, AddCounters
  <2>4. list'[r] \in ListType
    BY <2>1, <2>2, <2>3 DEF ListType
  <2> HIDE DEF Listed
  <2> QED
    BY <1>1, <1>2, <2>1, <2>4 DEF RunOK, Defs, HasDir, StoringSteps, ListingSteps, PostingSteps
<1>8. StepOf(r)
  BY DEF StepOf, Step
<1> QED
  BY <1>2, <1>3, <1>4, <1>5, <1>6, <1>7, <1>8, OneMoved DEF Types

LEMMA EndListTypes ==
  ASSUME TInv, NEW r \in Runs, EndList(r)
  PROVE  TInv'
<1> USE DEF world, texts, spools, tossing, listing, posting, Goto, EndList, After
<1>1. ConfigOK /\ TextsOK /\ SpoolOK /\ RunsOK /\ RunOK(r)
  BY DEF TInv, Types
<1>2. setup' = setup /\ tickets' = tickets /\ Grown /\ dir \subseteq dir'
  BY <1>1 DEF Grown, SpoolOK
<1>3. ConfigOK'
  BY <1>1 DEF ConfigOK
<1>4. TextsOK'
  BY <1>1, <1>2 DEF TextsOK, BbsLine
<1>5. SpoolOK'
  BY <1>1 DEF SpoolOK, Defs
<1>6. RunsOK'
  BY <1>1 DEF RunsOK, Steps, StoringSteps, ListingSteps, PostingSteps
<1>7. RunOK(r)'
  <2>1. /\ todo' = todo /\ tree'[r] = <<>> /\ pc'[r] \in {"main", "end"} /\ cmds' = cmds
        /\ pc'[r] = "end" => cmds[r] = {}
        /\ gone' = gone /\ snap' = snap /\ def' = def /\ marked' = marked /\ now' = now
        /\ dir' = dir /\ pc[r] = "listed" /\ list'[r] = NoList
    BY <1>1 DEF RunsOK
  <2> HIDE DEF EndList, After
  <2>2. DOMAIN tree'[r] = {}
    BY <2>1
  <2> QED
    BY <1>1, <1>2, <2>1, <2>2, NoListType
      DEF RunOK, Defs, HasDir, StoringSteps, ListingSteps, PostingSteps
<1>8. StepOf(r)
  BY DEF StepOf, Step
<1> QED
  BY <1>2, <1>3, <1>4, <1>5, <1>6, <1>7, <1>8, OneMoved DEF Types

LEMMA AnnounceTypes ==
  ASSUME TInv, NEW r \in Runs, Announce(r)
  PROVE  TInv'
<1> USE DEF world, texts, spools, tossing, listing, posting, Goto, Announce
<1>1. ConfigOK /\ TextsOK /\ SpoolOK /\ RunsOK /\ RunOK(r)
  BY DEF TInv, Types
<1>2. setup' = setup /\ tickets' = tickets /\ Grown /\ dir \subseteq dir'
  BY <1>1 DEF Grown, SpoolOK
<1>3. ConfigOK'
  BY <1>1 DEF ConfigOK
<1>4. TextsOK'
  BY <1>1, <1>2 DEF TextsOK, BbsLine
<1>5. SpoolOK'
  BY <1>1 DEF SpoolOK, Defs
<1>6. RunsOK'
  BY <1>1 DEF RunsOK, Steps, StoringSteps, ListingSteps, PostingSteps
<1>7. RunOK(r)'
  <2>1. PICK entries \in IF setup.spool THEN ReportInfo ELSE {<<>>} : snap'[r] = entries
    BY <1>1 DEF RunsOK
  <2>2. /\ todo' = todo /\ tree' = tree /\ pc[r] = "main" /\ cmds'[r] = {}
        /\ gone' = gone /\ def'[r] = 1 /\ marked' = marked /\ now' = now
        /\ dir' = dir /\ list' = list
        /\ pc'[r] = IF setup.spool /\ Saved # {} THEN "post" ELSE "end"
    BY <1>1 DEF RunsOK
  <2>3. entries \in Seq(DOMAIN tickets) /\ (~(setup.spool /\ Saved # {}) => entries = <<>>)
    BY <1>1, <2>1, ReportInfoType
  <2>4. marked[r] = {}
    BY <1>1, <2>2 DEF RunOK, PostingSteps, Range
  <2>5. 1 \in 1 .. Len(Defs) + 1
    <3>1. Len(Defs) \in Nat
      BY <1>1, SetupIs DEF ConfigOK
    <3> QED
      BY <3>1
  <2> HIDE DEF Announce
  <2> QED
    BY <1>1, <1>2, <2>1, <2>2, <2>3, <2>4, <2>5
      DEF RunOK, Defs, HasDir, StoringSteps, ListingSteps, PostingSteps
<1>8. StepOf(r)
  BY DEF StepOf, Step
<1> QED
  BY <1>2, <1>3, <1>4, <1>5, <1>6, <1>7, <1>8, OneMoved DEF Types

LEMMA NextDefTypes ==
  ASSUME TInv, NEW r \in Runs, NextDef(r)
  PROVE  TInv'
<1> USE DEF world, texts, spools, tossing, listing, posting, Goto, NextDef
<1>1. ConfigOK /\ TextsOK /\ SpoolOK /\ RunsOK /\ RunOK(r)
  BY DEF TInv, Types
<1>2. setup' = setup /\ tickets' = tickets /\ Grown /\ dir \subseteq dir'
  BY <1>1 DEF Grown, SpoolOK
<1>3. ConfigOK'
  BY <1>1 DEF ConfigOK
<1>4. TextsOK'
  BY <1>1, <1>2 DEF TextsOK, BbsLine
<1>5. SpoolOK'
  BY <1>1 DEF SpoolOK, Defs
<1>6. RunsOK'
  BY <1>1 DEF RunsOK, Steps, StoringSteps, ListingSteps, PostingSteps
<1>7. RunOK(r)'
  <2>1. /\ todo' = todo /\ tree' = tree /\ pc[r] = "posted" /\ pc'[r] = "post" /\ cmds' = cmds
        /\ gone' = gone /\ def'[r] = def[r] + 1 /\ marked' = marked /\ now' = now /\ snap' = snap
        /\ dir' = dir /\ list' = list
    BY <1>1 DEF RunsOK
  <2>2. def[r] + 1 \in 1 .. Len(Defs) + 1
    <3>1. Len(Defs) \in Nat /\ def[r] \in 1 .. Len(Defs)
      BY <1>1, <2>1, SetupIs DEF ConfigOK, RunOK
    <3> QED
      BY <3>1
  <2> HIDE DEF NextDef
  <2> QED
    BY <1>1, <1>2, <2>1, <2>2 DEF RunOK, Defs, HasDir, StoringSteps, ListingSteps, PostingSteps
<1>8. StepOf(r)
  BY DEF StepOf, Step
<1> QED
  BY <1>2, <1>3, <1>4, <1>5, <1>6, <1>7, <1>8, OneMoved DEF Types

LEMMA FreeTypes ==
  ASSUME TInv, NEW r \in Runs, Free(r)
  PROVE  TInv'
<1> USE DEF world, texts, spools, tossing, listing, posting, Goto, Free
<1>1. ConfigOK /\ TextsOK /\ SpoolOK /\ RunsOK /\ RunOK(r)
  BY DEF TInv, Types
<1>2. setup' = setup /\ tickets' = tickets /\ Grown /\ dir \subseteq dir'
  BY <1>1 DEF Grown, SpoolOK
<1>3. ConfigOK'
  BY <1>1 DEF ConfigOK
<1>4. TextsOK'
  BY <1>1, <1>2 DEF TextsOK, BbsLine
<1>5. SpoolOK'
  BY <1>1 DEF SpoolOK, Defs
<1>6. RunsOK'
  BY <1>1 DEF RunsOK, Steps, StoringSteps, ListingSteps, PostingSteps
<1>7. RunOK(r)'
  <2>1. /\ todo' = todo /\ tree' = tree /\ pc[r] = "post" /\ cmds' = cmds
        /\ gone' = gone /\ now' = now /\ dir' = dir /\ list' = list
    BY <1>1 DEF RunsOK
  <2>2. CASE marked[r] = {}
    <3>1. snap'[r] = <<>> /\ def'[r] = 0 /\ pc'[r] = "end" /\ marked' = marked
      BY <1>1, <2>2 DEF RunsOK
    <3> HIDE DEF Free
    <3>2. snap'[r] \in Seq(DOMAIN tickets')
      BY <3>1
    <3> QED
      BY <1>1, <1>2, <2>1, <2>2, <3>1, <3>2
        DEF RunOK, Defs, HasDir, StoringSteps, ListingSteps, PostingSteps
  <2>3. CASE marked[r] # {}
    <3>1. snap' = snap /\ def' = def /\ pc' = pc /\ marked'[r] \subseteq marked[r]
      BY <1>1, <2>3 DEF RunsOK
    <3> HIDE DEF Free
    <3> QED
      BY <1>1, <1>2, <2>1, <3>1
        DEF RunOK, Defs, HasDir, StoringSteps, ListingSteps, PostingSteps
  <2> QED
    BY <2>2, <2>3
<1>8. StepOf(r)
  BY DEF StepOf, Step
<1> QED
  BY <1>2, <1>3, <1>4, <1>5, <1>6, <1>7, <1>8, OneMoved DEF Types

LEMMA EndTypes ==
  ASSUME TInv, NEW r \in Runs, End(r)
  PROVE  TInv'
<1> USE DEF world, texts, spools, tossing, listing, posting, Goto, End
<1>1. ConfigOK /\ TextsOK /\ SpoolOK /\ RunsOK /\ RunOK(r)
  BY DEF TInv, Types
<1>2. setup' = setup /\ tickets' = tickets /\ Grown /\ dir \subseteq dir'
  BY <1>1 DEF Grown, SpoolOK
<1>3. ConfigOK'
  BY <1>1 DEF ConfigOK
<1>4. TextsOK'
  BY <1>1, <1>2 DEF TextsOK, BbsLine
<1>5. SpoolOK'
  BY <1>1 DEF SpoolOK, Defs
<1>6. RunsOK'
  BY <1>1 DEF RunsOK, Steps, StoringSteps, ListingSteps, PostingSteps
<1>7. RunOK(r)'
  BY <1>1 DEF RunsOK, RunOK, Defs, HasDir, StoringSteps, ListingSteps, PostingSteps
<1>8. StepOf(r)
  BY DEF StepOf, Step
<1> QED
  BY <1>2, <1>3, <1>4, <1>5, <1>6, <1>7, <1>8, OneMoved DEF Types

LEMMA CrashTypes ==
  ASSUME TInv, NEW r \in Runs, Crash(r)
  PROVE  TInv'
<1> USE DEF world, texts, spools, tossing, listing, posting, Goto, Crash
<1>1. ConfigOK /\ TextsOK /\ SpoolOK /\ RunsOK /\ RunOK(r)
  BY DEF TInv, Types
<1>2. setup' = setup /\ tickets' = tickets /\ Grown /\ dir \subseteq dir'
  BY <1>1 DEF Grown, SpoolOK
<1>3. ConfigOK'
  <2>1. faults < MaxFaults => faults + 1 \in 0 .. MaxFaults
    BY <1>1, CatalogAssumption DEF ConfigOK
  <2> QED
    BY <1>1, <2>1 DEF ConfigOK
<1>4. TextsOK'
  <2>1. told' \in [Files -> Seq(Texts)]
    <3>1. Unclear \in Seq(Texts)
      BY DEF Unclear
    <3> QED
      BY <1>1, <3>1 DEF TextsOK
  <2> QED
    BY <1>1, <1>2, <2>1 DEF TextsOK, BbsLine
<1>5. SpoolOK'
  BY <1>1 DEF SpoolOK, Defs
<1>6. RunsOK'
  BY <1>1 DEF RunsOK, Steps, StoringSteps, ListingSteps, PostingSteps
<1>7. RunOK(r)'
  <2>1. /\ todo'[r] = {} /\ tree'[r] = <<>> /\ pc'[r] = "idle" /\ cmds'[r] = {}
        /\ gone'[r] = <<>> /\ snap'[r] = <<>> /\ def'[r] = 0 /\ marked'[r] = {} /\ now'[r] = 0
        /\ dir' = dir /\ list'[r] = NoList
    BY <1>1 DEF RunsOK
  <2> HIDE DEF Crash
  <2>2. DOMAIN tree'[r] = {} /\ snap'[r] \in Seq(DOMAIN tickets')
    BY <2>1
  <2> QED
    BY <2>1, <2>2, NoListType
      DEF RunOK, Defs, HasDir, StoringSteps, ListingSteps, PostingSteps
<1>8. StepOf(r)
  BY DEF StepOf, Step
<1> QED
  BY <1>2, <1>3, <1>4, <1>5, <1>6, <1>7, <1>8, OneMoved DEF Types

LEMMA StartTypes ==
  ASSUME TInv, NEW r \in Runs, NEW commands \in setup.commands, Start(r, commands)
  PROVE  TInv'
<1> USE DEF world, texts, spools, tossing, listing, posting, Goto, Start
<1>1. ConfigOK /\ TextsOK /\ SpoolOK /\ RunsOK /\ RunOK(r)
  BY DEF TInv, Types
<1>2. setup' = setup /\ tickets' = tickets /\ Grown /\ dir \subseteq dir'
  BY <1>1 DEF Grown, SpoolOK
<1>3. ConfigOK'
  BY <1>1 DEF ConfigOK
<1>4. TextsOK'
  BY <1>1, <1>2 DEF TextsOK, BbsLine
<1>5. SpoolOK'
  BY <1>1 DEF SpoolOK, Defs
<1>6. RunsOK'
  <2>1. commands \subseteq Commands
    BY <1>1, SetupIs DEF ConfigOK
  <2> QED
    BY <1>1, <2>1 DEF RunsOK, Steps, StoringSteps, ListingSteps, PostingSteps
<1>7. RunOK(r)'
  BY <1>1 DEF RunsOK, RunOK, Defs, HasDir, StoringSteps, ListingSteps, PostingSteps
<1>8. StepOf(r)
  BY DEF StepOf, Step
<1> QED
  BY <1>2, <1>3, <1>4, <1>5, <1>6, <1>7, <1>8, OneMoved DEF Types

LEMMA FirstReplaced ==
  ASSUME NEW D, NEW T, NEW s \in Seq(D), NEW v \in T, \A k \in DOMAIN s : k > 1 => s[k] \in T
  PROVE  [s EXCEPT ![1] = v] \in Seq(T)
<1> PICK n \in Nat : n = Len(s)
  OBVIOUS
<1>1. DOMAIN s = 1 .. n /\ s = [k \in 1 .. n |-> s[k]]
  OBVIOUS
<1> PICK q : q = [k \in 1 .. n |-> IF k = 1 THEN v ELSE s[k]]
  OBVIOUS
<1>2. ASSUME NEW k \in 1 .. n PROVE (IF k = 1 THEN v ELSE s[k]) \in T
  <2>1. k = 1 \/ k > 1
    OBVIOUS
  <2> QED
    BY <1>1, <2>1
<1>3. q \in Seq(T)
  BY <1>2
<1>4. [s EXCEPT ![1] = v] = q
  BY <1>1
<1> QED
  BY <1>3, <1>4

(* What is hatched has texts for descriptions. *)
LEMMA Expanded ==
  ASSUME NEW desc \in HatchTexts, NEW found \in Seq(Texts)
  PROVE  /\ ExpandDesc(desc, found) \in Seq(Texts) /\ ExpandLDesc(desc, found) \in Seq(Texts)
         /\ desc # <<>> /\ desc[1] = "@BBS" /\ found # <<>> =>
              ExpandDesc(desc, found) = found /\ ExpandLDesc(desc, found) = found
         /\ desc = <<>> => ExpandDesc(desc, found) = <<>>
<1>1. desc \in Seq(Texts \cup Macros) /\ \A k \in DOMAIN desc : k > 1 => desc[k] \in Texts
  BY DEF HatchTexts
<1>2. MissingDesc \in Texts
  BY DescriptionsAssumption
<1>3. CASE ~IsMacro(desc)
  <2>1. desc[1] \in Texts \/ desc = <<>>
    BY <1>1, <1>3 DEF IsMacro
  <2>2. \A k \in DOMAIN desc : desc[k] \in Texts
    BY <1>1, <2>1
  <2>3. desc \in Seq(Texts)
    BY <1>1, <2>2
  <2>4. desc # <<>> => desc[1] # "@BBS"
    BY <1>3 DEF IsMacro, Macros
  <2> QED
    BY <1>3, <2>3, <2>4 DEF ExpandDesc, ExpandLDesc
<1>4. CASE IsMacro(desc)
  <2>1. desc # <<>>
    BY <1>4 DEF IsMacro
  <2>2. [desc EXCEPT ![1] = MissingDesc] \in Seq(Texts)
    BY <1>1, <1>2, FirstReplaced
  <2>3. found # <<>> => found[1] \in Texts /\ <<found[1]>> \in Seq(Texts)
    OBVIOUS
  <2>4. found # <<>> => \A macro : Expand(macro, found) \in Seq(Texts)
    BY <2>3 DEF Expand
  <2>5. Expand("@BBS", found) = found
    BY DEF Expand
  <2>6. <<>> \in Seq(Texts)
    OBVIOUS
  <2> QED
    BY <1>4, <2>1, <2>2, <2>4, <2>5, <2>6 DEF ExpandDesc, ExpandLDesc
<1> QED
  BY <1>3, <1>4

LEMMA OneMoreArrived ==
  ASSUME SpoolOK, setup \in Setups, NEW t \in TicketType, Len(tickets) < setup.limit,
         setup' = setup, tickets' = Append(tickets, t)
  PROVE  /\ Grown /\ Len(tickets') = Len(tickets) + 1 /\ Len(tickets') <= setup.limit
         /\ Len(tickets') \in DOMAIN tickets' /\ tickets'[Len(tickets')] = t
         /\ DOMAIN tickets \subseteq DOMAIN tickets' /\ Len(tickets') # 0
         /\ Len(tickets') \notin DOMAIN tickets
         /\ DOMAIN tickets' = DOMAIN tickets \cup {Len(tickets')}
<1>1. tickets \in Seq(TicketType) /\ setup.limit \in Nat
  BY SetupIs DEF SpoolOK
<1>2. /\ Append(tickets, t) \in Seq(TicketType) /\ Len(Append(tickets, t)) = Len(tickets) + 1
      /\ Len(tickets) \in Nat /\ DOMAIN tickets = 1 .. Len(tickets)
      /\ DOMAIN Append(tickets, t) = 1 .. Len(tickets) + 1
      /\ Append(tickets, t)[Len(tickets) + 1] = t
      /\ \A k \in 1 .. Len(tickets) : Append(tickets, t)[k] = tickets[k]
  BY <1>1, OneMore
<1> QED
  BY <1>1, <1>2 DEF Grown

\* The ticket that hatching file f with h makes, when files.bbs says found.
Hatched(f, h, found) ==
  LET ldesc == ExpandLDesc(h.ldesc, found)
      used == IF ldesc = <<>> THEN h.desc ELSE h.ldesc
  IN  [file |-> f, area |-> Home, diz |-> <<>>, desc |-> ExpandDesc(h.desc, found), ldesc |-> ldesc,
       again |-> used # <<>> /\ used[1] = "@BBS"]

LEMMA HatchedType ==
  ASSUME NEW f \in Files \ {Tmp}, NEW h \in HatchType, NEW found \in Seq(Texts)
  PROVE  /\ Hatched(f, h, found) \in TicketType
         /\ Hatched(f, h, found).file = f /\ Hatched(f, h, found).area = Home
         /\ Hatched(f, h, found).again /\ found # <<>> => Described(Hatched(f, h, found)) = found
<1>1. h.desc \in HatchTexts /\ h.ldesc \in HatchTexts
  BY DEF HatchType
<1> PICK ldesc : ldesc = ExpandLDesc(h.ldesc, found)
  OBVIOUS
<1> PICK desc : desc = ExpandDesc(h.desc, found)
  OBVIOUS
<1> PICK used : used = IF ldesc = <<>> THEN h.desc ELSE h.ldesc
  OBVIOUS
<1> PICK t : t = [file |-> f, area |-> Home, diz |-> <<>>, desc |-> desc, ldesc |-> ldesc,
                  again |-> used # <<>> /\ used[1] = "@BBS"]
  OBVIOUS
<1>2. Hatched(f, h, found) = t
  BY DEF Hatched
<1>3. desc \in Seq(Texts) /\ ldesc \in Seq(Texts)
  BY <1>1, Expanded
<1>4. Home \in Range(Areas) /\ <<>> \in Seq(Texts)
  BY CatalogAssumption
<1>5. (used # <<>> /\ used[1] = "@BBS") \in BOOLEAN
  OBVIOUS
<1>6. t \in TicketType
  BY <1>3, <1>4, <1>5 DEF TicketType
<1>7. t.file = f /\ t.area = Home /\ t.diz = <<>> /\ t.desc = desc /\ t.ldesc = ldesc
      /\ (t.again <=> used # <<>> /\ used[1] = "@BBS")
  OBVIOUS
<1>8. ASSUME t.again, found # <<>> PROVE Described(t) = found
  <2>1. used # <<>> /\ used[1] = "@BBS"
    BY <1>7, <1>8
  <2>2. CASE ldesc = <<>>
    <3>1. desc = found
      BY <1>1, <1>8, <2>1, <2>2, Expanded
    <3> QED
      BY <1>7, <2>2, <3>1 DEF Described
  <2>3. CASE ldesc # <<>>
    <3>1. ldesc = found
      BY <1>1, <1>8, <2>1, <2>3, Expanded
    <3> QED
      BY <1>7, <2>3, <3>1 DEF Described
  <2> QED
    BY <2>2, <2>3
<1> QED
  BY <1>2, <1>6, <1>7, <1>8

LEMMA HatchTypes ==
  ASSUME TInv, NEW r \in Runs, NEW f \in Files, NEW h \in setup.hatches, Hatch(r, f, h)
  PROVE  TInv'
<1> USE DEF world, texts, spools, tossing, listing, posting, Goto, Hatch, Put
<1>1. ConfigOK /\ TextsOK /\ SpoolOK /\ RunsOK /\ RunOK(r)
  BY DEF TInv, Types
<1>2. setup' = setup /\ h \in HatchType /\ GetDesc(bbs, f) \in Seq(Texts)
  BY <1>1, SetupIs, LinesAre, GetDescType DEF ConfigOK, TextsOK
<1>3. CASE f \in dir /\ Len(tickets) < setup.limit
  <2> PICK t : t = Hatched(f, h, GetDesc(bbs, f))
    OBVIOUS
  <2>1. t \in TicketType /\ t.file = f /\ t.area = Home
    <3>1. f # Tmp
      BY <1>1, <1>3 DEF TextsOK
    <3> QED
      BY <1>2, <3>1, HatchedType
  <2>2. tickets' = Append(tickets, t)
    BY <1>3 DEF Hatched
  <2>3. /\ Grown /\ Len(tickets') \in DOMAIN tickets' /\ tickets'[Len(tickets')] = t
        /\ DOMAIN tickets \subseteq DOMAIN tickets' /\ Len(tickets') # 0
        /\ Len(tickets') <= setup.limit
    BY <1>1, <1>2, <2>1, <2>2, OneMoreArrived DEF ConfigOK
  <2>4. /\ now'[r] = Len(tickets') /\ pc'[r] \in {"save", "copy"} /\ pc[r] = "main"
        /\ dir' = dir \cup {f} /\ todo' = todo /\ tree' = tree /\ list' = list /\ gone' = gone
        /\ snap' = snap /\ def' = def /\ marked' = marked
    <3>1. Put(r, Len(tickets'))
      BY <1>3
    <3> QED
      BY <1>1, <2>1, <2>3, <3>1 DEF RunsOK
  <2>5. ConfigOK'
    BY <1>1 DEF ConfigOK
  <2>6. TextsOK'
    BY <1>1, <1>2, <2>4 DEF TextsOK, BbsLine
  <2>7. SpoolOK'
    BY <1>1, <1>2, <2>3 DEF SpoolOK, Defs, Grown
  <2>8. RunsOK'
    BY <1>1, <1>3 DEF RunsOK, Steps, StoringSteps
  <2>9. StepOf(r)
    BY DEF StepOf, Step
  <2> HIDE DEF Hatch, Put
  <2>10. snap[r] \in Seq(DOMAIN tickets')
    BY <1>1, <2>3, GrownIs DEF RunOK
  <2>11. RunOK(r)'
    BY <1>1, <1>2, <2>1, <2>3, <2>4, <2>10
       DEF RunOK, Defs, HasDir, StoringSteps, ListingSteps, PostingSteps
  <2>12. dir \subseteq dir'
    BY <2>4
  <2> QED
    BY <2>3, <2>5, <2>6, <2>7, <2>8, <2>9, <2>11, <2>12, OneMoved DEF Types
<1>4. CASE ~(f \in dir /\ Len(tickets) < setup.limit)
  <2>1. /\ pc'[r] = "stored" /\ pc[r] = "main" /\ tickets' = tickets
        /\ dir' = dir /\ todo' = todo /\ tree' = tree /\ list' = list /\ gone' = gone
        /\ snap' = snap /\ def' = def /\ marked' = marked /\ now' = now
    BY <1>1, <1>4 DEF RunsOK
  <2>2. Grown
    BY <1>1, <1>2, <2>1 DEF Grown, SpoolOK
  <2>3. ConfigOK'
    BY <1>1 DEF ConfigOK
  <2>4. TextsOK'
    BY <1>1, <1>2, <2>1 DEF TextsOK, BbsLine
  <2>5. SpoolOK'
    BY <1>1, <1>2, <2>1 DEF SpoolOK, Defs
  <2>6. RunsOK'
    BY <1>1, <1>4 DEF RunsOK, Steps
  <2>7. StepOf(r)
    BY DEF StepOf, Step
  <2> HIDE DEF Hatch, Put
  <2>8. RunOK(r)'
    BY <1>1, <1>2, <2>1 DEF RunOK, Defs, HasDir, StoringSteps, ListingSteps, PostingSteps
  <2> QED
    BY <2>1, <2>2, <2>3, <2>4, <2>5, <2>6, <2>7, <2>8, OneMoved DEF Types
<1> QED
  BY <1>3, <1>4

-----------------------------------------------------------------------------
(* The tickets on their way to the spool, and those read from it. *)

TicketOK(n) == n \in inbox \/ n > Len(tickets) => report[n] = "none"

StoringOK(r) ==
  /\ now[r] \notin inbox
  /\ pc[r] = "save" => report[now[r]] = "none"
  /\ pc[r] = "fill" => report[now[r]] = "empty"
  /\ now[r] # 0 => \A q \in Runs \ {r} : now[q] # now[r]

SnapOK(r) ==
  /\ IsInjective(snap[r]) /\ Sorted(snap[r])
  /\ \A n \in Range(snap[r]) : report[n] \in {"saved", "gone"}

SInv ==
  /\ \A n \in 1 .. setup.limit : TicketOK(n)
  /\ \A r \in Runs : StoringOK(r) /\ SnapOK(r)

LEMMA SortedSame ==
  ASSUME tickets' = tickets, NEW s, Sorted(s)
  PROVE  Sorted(s)'
BY DEF Sorted, AreaOf, Ticket, Key, Pos

LEMMA SortedKept ==
  ASSUME TInv, Grown, NEW s \in Seq(DOMAIN tickets), Sorted(s)
  PROVE  Sorted(s)'
<1>1. DOMAIN s = 1 .. Len(s) /\ \A k \in 1 .. Len(s) : s[k] \in DOMAIN tickets
  OBVIOUS
<1>2. \A k \in 1 .. Len(s) : AreaOf(s, k)' = AreaOf(s, k)
  BY <1>1 DEF AreaOf, Ticket, Grown
<1> QED
  BY <1>2 DEF Sorted, Key, Pos

LEMMA QuietSpool ==
  ASSUME TInv, SInv, setup' = setup, tickets' = tickets, inbox' = inbox, report' = report,
         now' = now, snap' = snap, \A q \in Runs : pc'[q] = pc[q] \/ pc'[q] \notin {"save", "fill"}
  PROVE  SInv'
<1>1. ASSUME NEW n \in 1 .. setup.limit PROVE TicketOK(n)'
  BY DEF SInv, TicketOK
<1>2. ASSUME NEW r \in Runs PROVE StoringOK(r)' /\ SnapOK(r)'
  <2>1. StoringOK(r) /\ SnapOK(r)
    BY DEF SInv
  <2>2. Sorted(snap[r])'
    BY <2>1, SortedSame DEF SnapOK, Sorted, AreaOf, Ticket, Key, Pos
  <2> QED
    BY <2>1, <2>2 DEF StoringOK, SnapOK
<1> QED
  BY <1>1, <1>2 DEF SInv

LEMMA SnapKept ==
  ASSUME TInv, Grown, NEW q \in Runs, SnapOK(q), snap'[q] = snap[q],
         \A n \in Range(snap[q]) : report'[n] \in {"saved", "gone"}
  PROVE  SnapOK(q)'
<1> PICK s : s = snap[q]
  OBVIOUS
<1>1. s \in Seq(DOMAIN tickets) /\ Sorted(s) /\ IsInjective(s)
  BY DEF TInv, RunOK, SnapOK
<1>2. Sorted(s)'
  BY <1>1, SortedKept
<1>3. Sorted(snap[q])'
  BY <1>2 DEF Sorted, AreaOf, Ticket, Key, Pos
<1> QED
  BY <1>1, <1>3 DEF SnapOK

\* The tickets of a run that reports are as they were, or are removed.
LEMMA SpoolStep ==
  ASSUME TInv, SInv, NEW r \in Runs, Grown, Others(r),
         \A n \in 1 .. setup.limit : TicketOK(n)', StoringOK(r)', SnapOK(r)',
         \A q \in Runs \ {r} : now[q] \notin inbox' /\ (now[q] # 0 => now'[r] # now[q]),
         \A n \in DOMAIN tickets : report[n] \in {"saved", "gone"} => report'[n] \in {"saved", "gone"},
         \A q \in Runs \ {r} : pc[q] \in {"save", "fill"} => report'[now[q]] = report[now[q]]
  PROVE  SInv'
<1>1. ASSUME NEW q \in Runs \ {r} PROVE StoringOK(q)' /\ SnapOK(q)'
  <2>1. StoringOK(q) /\ SnapOK(q) /\ Same(q)
    BY DEF SInv, Others
  <2>2. \A n \in Range(snap[q]) : n \in DOMAIN tickets
    BY DEF TInv, RunOK, Range
  <2>3. \A n \in Range(snap[q]) : report'[n] \in {"saved", "gone"}
    BY <2>1, <2>2 DEF SnapOK
  <2>4. SnapOK(q)'
    BY <2>1, <2>3, SnapKept DEF Same
  <2>5. \A p \in Runs \ {q} : now[q] # 0 => now'[p] # now[q]
    <3> SUFFICES ASSUME NEW p \in Runs \ {q}, now[q] # 0 PROVE now'[p] # now[q]
      OBVIOUS
    <3>1. CASE p = r
      BY <3>1
    <3>2. CASE p # r
      BY <2>1, <3>2 DEF StoringOK, Others, Same
    <3> QED
      BY <3>1, <3>2
  <2> QED
    BY <2>1, <2>4, <2>5 DEF StoringOK, Same
<1> QED
  BY <1>1 DEF SInv, Grown

LEMMA InTickets ==
  ASSUME TInv
  PROVE  /\ DOMAIN tickets = 1 .. Len(tickets) /\ Len(tickets) \in Nat
         /\ DOMAIN tickets \subseteq 1 .. setup.limit /\ setup.limit \in Nat
         /\ inbox \subseteq DOMAIN tickets /\ 0 \notin inbox
         /\ DOMAIN report = 1 .. setup.limit
         /\ \A q \in Runs : now[q] = 0 \/ now[q] \in DOMAIN tickets
<1>1. tickets \in Seq(TicketType) /\ Len(tickets) <= setup.limit /\ setup.limit \in Nat
  BY SetupIs DEF TInv, Types, SpoolOK, ConfigOK
<1> QED
  BY <1>1 DEF TInv, Types, SpoolOK, RunOK

LEMMA SaveSpool ==
  ASSUME TInv, SInv, NEW r \in Runs, Save(r)
  PROVE  SInv'
<1> USE DEF world, texts, spools, tossing, listing, posting, Goto, Save
<1>1. RunsOK /\ RunOK(r) /\ StoringOK(r) /\ SnapOK(r) /\ pc[r] = "save" /\ now[r] # 0
  BY DEF TInv, Types, SInv, RunOK, StoringSteps
<1>2. /\ Grown /\ Others(r) /\ now' = now /\ inbox' = inbox /\ snap' = snap /\ tickets' = tickets
      /\ setup' = setup
  BY OthersSame DEF TInv, Types, SpoolOK, Grown, StepOf, Step
<1>3. report[now[r]] = "none" /\ now[r] \in DOMAIN report /\ now[r] \notin inbox
  BY <1>1, InTickets DEF StoringOK
<1>4. CASE pc'[r] = "fill" /\ report' = [report EXCEPT ![now[r]] = "empty"]
  <2>1. ASSUME NEW n \in 1 .. setup.limit PROVE TicketOK(n)'
    <3>1. TicketOK(n)
      BY DEF SInv
    <3>2. now[r] <= Len(tickets)
      BY <1>1, InTickets
    <3>3. n = now[r] => ~(n \in inbox \/ n > Len(tickets))
      BY <1>1, <1>3, <3>2, InTickets
    <3> QED
      BY <1>2, <1>4, <3>1, <3>3 DEF TicketOK
  <2>2. StoringOK(r)'
    BY <1>1, <1>2, <1>3, <1>4 DEF StoringOK
  <2>3. \A n \in DOMAIN tickets : report[n] \in {"saved", "gone"} => report'[n] \in {"saved", "gone"}
    BY <1>3, <1>4
  <2>4. SnapOK(r)'
    <3>1. \A n \in Range(snap[r]) : report'[n] \in {"saved", "gone"}
      BY <1>1, <1>3, <1>4 DEF SnapOK
    <3> QED
      BY <1>1, <1>2, <3>1, SnapKept
  <2>5. \A q \in Runs \ {r} : now[q] \notin inbox' /\ (now[q] # 0 => now'[r] # now[q])
    BY <1>1, <1>2 DEF SInv, StoringOK
  <2>6. \A q \in Runs \ {r} : pc[q] \in {"save", "fill"} => report'[now[q]] = report[now[q]]
    BY <1>1, <1>4 DEF StoringOK
  <2> HIDE DEF Save
  <2> QED
    BY <1>2, <2>1, <2>2, <2>3, <2>4, <2>5, <2>6, SpoolStep
<1>5. CASE pc'[r] \in {"copy", "stored"} /\ report' = report
  <2>1. \A q \in Runs : pc'[q] = pc[q] \/ pc'[q] \notin {"save", "fill"}
    BY <1>2, <1>5 DEF Others, Same
  <2> QED
    BY <1>2, <1>5, <2>1, QuietSpool
<1> QED
  BY <1>1, <1>4, <1>5 DEF RunsOK

LEMMA FillSpool ==
  ASSUME TInv, SInv, NEW r \in Runs, Fill(r)
  PROVE  SInv'
<1> USE DEF world, texts, spools, tossing, listing, posting, Goto, Fill
<1>1. RunsOK /\ RunOK(r) /\ StoringOK(r) /\ SnapOK(r) /\ pc[r] = "fill" /\ now[r] # 0
  BY DEF TInv, Types, SInv, RunOK, StoringSteps
<1>2. /\ Grown /\ Others(r) /\ now' = now /\ inbox' = inbox /\ snap' = snap /\ tickets' = tickets
      /\ setup' = setup
  <2>1. StepOf(r)
    BY DEF StepOf, Step
  <2>2. Others(r)
    BY <1>1, <2>1, OthersSame
  <2> QED
    BY <2>2 DEF TInv, Types, SpoolOK, Grown
<1>3. report[now[r]] = "empty" /\ now[r] \in DOMAIN report /\ now[r] \notin inbox
  BY <1>1, InTickets DEF StoringOK
<1>4. pc'[r] \in {"copy", "stored"} /\ report' = [report EXCEPT ![now[r]] = "saved"]
  BY <1>1 DEF RunsOK
<1>5. ASSUME NEW n \in 1 .. setup.limit PROVE TicketOK(n)'
  <2>1. TicketOK(n)
    BY DEF SInv
  <2>2. now[r] <= Len(tickets)
    BY <1>1, InTickets
  <2>3. n = now[r] => ~(n \in inbox \/ n > Len(tickets))
    BY <1>1, <1>3, <2>2, InTickets
  <2> QED
    BY <1>2, <1>4, <2>1, <2>3 DEF TicketOK
<1>6. StoringOK(r)'
  BY <1>1, <1>2, <1>3, <1>4 DEF StoringOK
<1>7. \A n \in DOMAIN tickets : report[n] \in {"saved", "gone"} => report'[n] \in {"saved", "gone"}
  BY <1>3, <1>4
<1>8. SnapOK(r)'
  <2>1. \A n \in Range(snap[r]) : report'[n] \in {"saved", "gone"}
    BY <1>1, <1>3, <1>4 DEF SnapOK
  <2> QED
    BY <1>1, <1>2, <2>1, SnapKept
<1>9. \A q \in Runs \ {r} : now[q] \notin inbox' /\ (now[q] # 0 => now'[r] # now[q])
  BY <1>1, <1>2 DEF SInv, StoringOK
<1>10. \A q \in Runs \ {r} : pc[q] \in {"save", "fill"} => report'[now[q]] = report[now[q]]
  BY <1>1, <1>4 DEF StoringOK
<1> HIDE DEF Fill
<1> QED
  BY <1>2, <1>5, <1>6, <1>7, <1>8, <1>9, <1>10, SpoolStep

LEMMA TossOneSpool ==
  ASSUME TInv, SInv, NEW r \in Runs, NEW n \in todo[r], TossOne(r, n)
  PROVE  SInv'
<1> USE DEF world, texts, spools, tossing, listing, posting, Goto, TossOne, Put
<1>1. RunsOK /\ RunOK(r) /\ StoringOK(r) /\ SnapOK(r) /\ pc[r] = "toss" /\ now[r] = 0
  BY DEF TInv, Types, SInv, RunOK, StoringSteps
<1>2. Others(r)
  <2>1. StepOf(r)
    BY DEF StepOf, Step
  <2> QED
    BY <1>1, <2>1, OthersSame
<1>3. /\ Grown /\ tickets' = tickets /\ snap' = snap /\ setup' = setup /\ report' = report
  BY DEF TInv, Types, SpoolOK, Grown
<1>4. CASE n \in inbox
  <2>1. now'[r] = n /\ inbox' = inbox \ {n}
    BY <1>1, <1>4 DEF RunsOK
  <2>2. n \in DOMAIN tickets /\ n \in 1 .. setup.limit /\ n # 0
    BY <1>4, InTickets
  <2>3. report[n] = "none"
    BY <1>4, <2>2 DEF SInv, TicketOK
  <2>4. pc'[r] # "fill"
    BY <1>1, <1>4 DEF RunsOK
  <2> HIDE DEF TossOne, Put
  <2>5. ASSUME NEW m \in 1 .. setup.limit PROVE TicketOK(m)'
    BY <1>3, <2>1 DEF SInv, TicketOK
  <2>6. \A q \in Runs \ {r} : now[q] # n
    BY <1>4 DEF SInv, StoringOK
  <2>7. StoringOK(r)'
    BY <1>2, <1>3, <2>1, <2>3, <2>4, <2>6 DEF StoringOK, Others, Same
  <2>8. SnapOK(r)'
    BY <1>1, <1>3, SnapKept DEF SnapOK
  <2>9. \A q \in Runs \ {r} : now[q] \notin inbox' /\ (now[q] # 0 => now'[r] # now[q])
    BY <2>1, <2>6 DEF SInv, StoringOK
  <2> QED
    BY <1>2, <1>3, <2>5, <2>7, <2>8, <2>9, SpoolStep
<1>5. CASE n \notin inbox
  <2>1. inbox' = inbox /\ now' = now /\ pc' = pc
    BY <1>5
  <2> HIDE DEF TossOne, Put
  <2> QED
    BY <1>3, <2>1, QuietSpool
<1> QED
  BY <1>4, <1>5

LEMMA HatchSpool ==
  ASSUME TInv, SInv, NEW r \in Runs, NEW f \in Files, NEW h \in setup.hatches, Hatch(r, f, h)
  PROVE  SInv'
<1> USE DEF world, texts, spools, tossing, listing, posting, Goto, Hatch, Put
<1>1. ConfigOK /\ SpoolOK /\ RunsOK /\ RunOK(r) /\ StoringOK(r) /\ SnapOK(r) /\ pc[r] = "main"
      /\ now[r] = 0
  BY DEF TInv, Types, SInv, RunOK, StoringSteps
<1>2. Others(r)
  <2>1. StepOf(r)
    BY DEF StepOf, Step
  <2> QED
    BY <1>1, <2>1, OthersSame
<1>3. snap' = snap /\ setup' = setup /\ report' = report /\ inbox' = inbox
  OBVIOUS
<1>4. CASE f \in dir /\ Len(tickets) < setup.limit
  <2> PICK t : t = Hatched(f, h, GetDesc(bbs, f))
    OBVIOUS
  <2>1. t \in TicketType
    <3>1. h \in HatchType /\ GetDesc(bbs, f) \in Seq(Texts)
      BY <1>1, SetupIs, LinesAre, GetDescType DEF ConfigOK, TextsOK, TInv, Types
    <3>2. f # Tmp
      BY <1>4 DEF TextsOK, TInv, Types
    <3> QED
      BY <3>1, <3>2, HatchedType
  <2>2. tickets' = Append(tickets, t)
    BY <1>4 DEF Hatched
  <2> PICK n : n = Len(tickets')
    OBVIOUS
  <2>3. /\ Grown /\ n = Len(tickets) + 1 /\ n <= setup.limit /\ n \notin DOMAIN tickets /\ n # 0
    BY <1>1, <1>3, <1>4, <2>1, <2>2, OneMoreArrived DEF ConfigOK
  <2>4. now'[r] = n /\ pc'[r] # "fill"
    <3>1. Put(r, n)
      BY <1>4
    <3> QED
      BY <1>1, <3>1 DEF RunsOK
  <2> HIDE DEF Hatch, Put
  <2>5. n \in 1 .. setup.limit /\ n > Len(tickets)
    BY <2>3, InTickets
  <2>6. report[n] = "none"
    BY <2>5 DEF SInv, TicketOK
  <2>7. ASSUME NEW m \in 1 .. setup.limit PROVE TicketOK(m)'
    <3>1. TicketOK(m)
      BY DEF SInv
    <3>2. m > Len(tickets') => m > Len(tickets)
      BY <2>3, InTickets
    <3> QED
      BY <1>3, <3>1, <3>2 DEF TicketOK
  <2>8. \A q \in Runs : now[q] # n
    BY <2>3, InTickets
  <2>9. StoringOK(r)'
    <3>1. n \notin inbox
      BY <2>3, InTickets
    <3> QED
      BY <1>2, <1>3, <2>4, <2>6, <2>8, <3>1 DEF StoringOK, Others, Same
  <2>10. SnapOK(r)'
    BY <1>1, <1>3, <2>3, SnapKept DEF SnapOK
  <2>11. \A q \in Runs \ {r} : now[q] \notin inbox' /\ (now[q] # 0 => now'[r] # now[q])
    BY <1>3, <2>4, <2>8 DEF SInv, StoringOK
  <2> QED
    BY <1>2, <1>3, <2>3, <2>7, <2>9, <2>10, <2>11, SpoolStep
<1>5. CASE ~(f \in dir /\ Len(tickets) < setup.limit)
  <2>1. tickets' = tickets /\ now' = now
    BY <1>5
  <2>2. \A q \in Runs : pc'[q] = pc[q] \/ pc'[q] \notin {"save", "fill"}
    BY <1>1, <1>2, <1>5 DEF RunsOK, Others, Same
  <2> HIDE DEF Hatch, Put
  <2> QED
    BY <1>3, <2>1, <2>2, QuietSpool
<1> QED
  BY <1>4, <1>5

LEMMA ArriveSpool ==
  ASSUME TInv, SInv, NEW t \in setup.tickets, Arrive(t)
  PROVE  SInv' /\ TInv'
<1> USE DEF world, texts, spools, tossing, listing, posting, Arrive
<1>1. ConfigOK /\ TextsOK /\ SpoolOK /\ RunsOK
  BY DEF TInv, Types
<1>2. t \in TicketType
  BY <1>1, SetupIs DEF ConfigOK
<1> PICK n : n = Len(tickets')
  OBVIOUS
<1>3. /\ tickets' = Append(tickets, t) /\ setup' = setup /\ inbox' = inbox \cup {n}
      /\ report' = report /\ posted' = posted /\ unwritten' = unwritten /\ now' = now
      /\ snap' = snap /\ dir' = dir /\ pc' = pc /\ known' = known /\ lock' = lock
      /\ faults' = faults /\ bbs' = bbs /\ tmp' = tmp /\ told' = told
      /\ \A q \in Runs : Same(q)
  BY DEF Same
<1>4. /\ Grown /\ n = Len(tickets) + 1 /\ n <= setup.limit /\ n \notin DOMAIN tickets /\ n # 0
      /\ n \in DOMAIN tickets' /\ DOMAIN tickets \subseteq DOMAIN tickets'
  BY <1>1, <1>2, <1>3, OneMoreArrived DEF ConfigOK
<1>5. TInv'
  <2>1. ConfigOK' /\ TextsOK' /\ RunsOK'
    BY <1>1 DEF ConfigOK, TextsOK, RunsOK, BbsLine
  <2> HIDE DEF Arrive
  <2>2. SpoolOK'
    BY <1>1, <1>3, <1>4 DEF SpoolOK, Defs, Grown
  <2>3. ASSUME NEW q \in Runs PROVE RunOK(q)'
    BY <1>3, <1>4, NotMoved
  <2> QED
    BY <2>1, <2>2, <2>3 DEF TInv, Types
<1> HIDE DEF Arrive
<1>6. n \in 1 .. setup.limit /\ n > Len(tickets)
  BY <1>4, InTickets
<1>7. report[n] = "none"
  BY <1>6 DEF SInv, TicketOK
<1>8. ASSUME NEW m \in 1 .. setup.limit PROVE TicketOK(m)'
  <2>1. TicketOK(m)
    BY DEF SInv
  <2>2. m > Len(tickets') => m > Len(tickets)
    BY <1>4, InTickets
  <2> QED
    BY <1>3, <1>7, <2>1, <2>2 DEF TicketOK
<1>9. ASSUME NEW q \in Runs PROVE StoringOK(q)' /\ SnapOK(q)'
  <2>1. StoringOK(q) /\ SnapOK(q)
    BY DEF SInv
  <2>2. now[q] # n
    BY <1>4, InTickets
  <2>3. SnapOK(q)'
    BY <1>3, <1>4, <2>1, SnapKept DEF SnapOK
  <2> QED
    BY <1>3, <2>1, <2>2, <2>3 DEF StoringOK
<1> QED
  BY <1>3, <1>5, <1>8, <1>9 DEF SInv

LEMMA StoredSpool ==
  ASSUME TInv, SInv, NEW r \in Runs, Stored(r)
  PROVE  SInv'
<1> USE DEF world, texts, spools, tossing, listing, posting, Goto, Stored, After
<1>1. RunsOK /\ SnapOK(r)
  BY DEF TInv, Types, SInv
<1>2. Others(r)
  <2>1. StepOf(r)
    BY DEF StepOf, Step
  <2> QED
    BY <1>1, <2>1, OthersSame
<1>3. /\ Grown /\ tickets' = tickets /\ snap' = snap /\ setup' = setup /\ report' = report
      /\ inbox' = inbox
  BY DEF TInv, Types, SpoolOK, Grown
<1>4. now'[r] = 0 /\ pc'[r] \notin {"save", "fill"}
  BY <1>1 DEF RunsOK
<1> HIDE DEF Stored
<1>5. ASSUME NEW m \in 1 .. setup.limit PROVE TicketOK(m)'
  BY <1>3 DEF SInv, TicketOK
<1>6. StoringOK(r)'
  BY <1>3, <1>4, InTickets DEF StoringOK
<1>7. SnapOK(r)'
  BY <1>1, <1>3, SnapKept DEF SnapOK
<1>8. \A q \in Runs \ {r} : now[q] \notin inbox' /\ (now[q] # 0 => now'[r] # now[q])
  BY <1>3, <1>4 DEF SInv, StoringOK
<1> QED
  BY <1>2, <1>3, <1>5, <1>6, <1>7, <1>8, SpoolStep

LEMMA CrashSpool ==
  ASSUME TInv, SInv, NEW r \in Runs, Crash(r)
  PROVE  SInv'
<1> USE DEF world, texts, spools, tossing, listing, posting, Goto, Crash
<1>1. RunsOK
  BY DEF TInv, Types
<1>2. Others(r)
  <2>1. StepOf(r)
    BY DEF StepOf
  <2> QED
    BY <1>1, <2>1, OthersSame
<1>3. /\ Grown /\ tickets' = tickets /\ setup' = setup /\ report' = report
      /\ inbox' = inbox
  BY DEF TInv, Types, SpoolOK, Grown
<1>4. now'[r] = 0 /\ pc'[r] \notin {"save", "fill"} /\ snap'[r] = <<>>
  BY <1>1 DEF RunsOK
<1> HIDE DEF Crash
<1>5. ASSUME NEW m \in 1 .. setup.limit PROVE TicketOK(m)'
  BY <1>3 DEF SInv, TicketOK
<1>6. StoringOK(r)'
  BY <1>3, <1>4, InTickets DEF StoringOK
<1>7. SnapOK(r)'
  <2>1. Len(snap'[r]) = 0 /\ DOMAIN snap'[r] = {}
    BY <1>4
  <2> QED
    BY <2>1 DEF SnapOK, Sorted, IsInjective, Range
<1>8. \A q \in Runs \ {r} : now[q] \notin inbox' /\ (now[q] # 0 => now'[r] # now[q])
  BY <1>3, <1>4 DEF SInv, StoringOK
<1> QED
  BY <1>2, <1>3, <1>5, <1>6, <1>7, <1>8, SpoolStep

LEMMA InfoSorted ==
  ASSUME TInv, NEW s \in Seq(DOMAIN tickets),
         \A j, k \in DOMAIN s : j < k => ~Before(s[k], s[j])
  PROVE  Sorted(s)
<1> SUFFICES ASSUME NEW j \in 1 .. Len(s), NEW k \in 1 .. Len(s), j < k
             PROVE  Key(AreaOf(s, j)) <= Key(AreaOf(s, k))
  BY DEF Sorted
<1>1. DOMAIN s = 1 .. Len(s) /\ s[j] \in DOMAIN tickets /\ s[k] \in DOMAIN tickets
  OBVIOUS
<1>2. ~Before(s[k], s[j])
  BY <1>1
<1>3. tickets[s[j]].area \in Range(Areas) /\ tickets[s[k]].area \in Range(Areas)
  <2>1. tickets[s[j]] \in TicketType /\ tickets[s[k]] \in TicketType
    BY <1>1 DEF TInv, Types, SpoolOK
  <2> QED
    BY <2>1, TicketTexts
<1>4. Key(AreaOf(s, j)) \in Nat /\ Key(AreaOf(s, k)) \in Nat
  BY <1>3, KeyIs DEF AreaOf, Ticket
<1>5. ~(Key(AreaOf(s, k)) < Key(AreaOf(s, j)))
  BY <1>2 DEF Before, Key, AreaOf, Ticket
<1> QED
  BY <1>4, <1>5

LEMMA AnnounceSpool ==
  ASSUME TInv, SInv, NEW r \in Runs, Announce(r)
  PROVE  SInv'
<1> USE DEF world, texts, spools, tossing, listing, posting, Goto, Announce
<1>1. RunsOK /\ SpoolOK /\ StoringOK(r) /\ pc[r] = "main"
  BY DEF TInv, Types, SInv
<1>2. Others(r)
  <2>1. StepOf(r)
    BY DEF StepOf, Step
  <2> QED
    BY <1>1, <2>1, OthersSame
<1>3. /\ Grown /\ tickets' = tickets /\ setup' = setup /\ report' = report
      /\ inbox' = inbox /\ now' = now
  BY DEF TInv, Types, SpoolOK, Grown
<1>4. PICK entries \in IF setup.spool THEN ReportInfo ELSE {<<>>} : snap'[r] = entries
  BY <1>1 DEF RunsOK
<1>5. pc'[r] \in {"post", "end"}
  BY <1>1 DEF RunsOK
<1> HIDE DEF Announce
<1>6. /\ entries \in Seq(DOMAIN tickets) /\ IsInjective(entries) /\ Range(entries) \subseteq Saved
      /\ \A j, k \in DOMAIN entries : j < k => ~Before(entries[k], entries[j])
  BY <1>1, ReportInfoType
<1>7. Sorted(entries)
  BY <1>6, InfoSorted
<1>8. SnapOK(r)'
  <2>1. Sorted(entries)'
    BY <1>3, <1>7, SortedSame
  <2>2. Sorted(snap[r])'
    BY <1>4, <2>1 DEF Sorted, AreaOf, Ticket, Key, Pos
  <2>3. \A n \in Range(entries) : report[n] = "saved"
    BY <1>6 DEF Saved
  <2> QED
    BY <1>3, <1>4, <1>6, <2>2, <2>3 DEF SnapOK
<1>9. ASSUME NEW m \in 1 .. setup.limit PROVE TicketOK(m)'
  BY <1>3 DEF SInv, TicketOK
<1>10. StoringOK(r)'
  BY <1>1, <1>2, <1>3, <1>5 DEF StoringOK
<1>11. \A q \in Runs \ {r} : now[q] \notin inbox' /\ (now[q] # 0 => now'[r] # now[q])
  BY <1>3 DEF SInv, StoringOK
<1> QED
  BY <1>2, <1>3, <1>8, <1>9, <1>10, <1>11, SpoolStep

\* The ticket that is removed next.
LEMMA FirstMarked ==
  ASSUME NEW D, NEW s \in Seq(D), NEW M, M \subseteq Range(s), M # {}
  PROVE  (CHOOSE m \in M : \A k \in M : Pos(s, m) <= Pos(s, k)) \in M
<1> DEFINE places == {Pos(s, m) : m \in M}
<1>1. ASSUME NEW m \in M PROVE Pos(s, m) \in Nat
  <2>1. \E k \in DOMAIN s : s[k] = m
    BY DEF Range
  <2>2. Pos(s, m) \in DOMAIN s
    BY <2>1 DEF Pos
  <2> QED
    BY <2>2
<1>2. places \in SUBSET Nat /\ places # {}
  BY <1>1
<1>3. Min(places) \in places /\ \A y \in places : Min(places) <= y
  <2> HIDE DEF places
  <2> QED
    BY <1>2, MinIn
<1>4. PICK m \in M : \A k \in M : Pos(s, m) <= Pos(s, k)
  BY <1>3
<1> QED
  BY <1>4, Zenon

\* Free removes a ticket, or it ends the run.
LEMMA FreeDoes ==
  ASSUME TInv, NEW r \in Runs, Free(r)
  PROVE  /\ pc[r] = "post" /\ def[r] \notin DOMAIN Defs
         /\ \/ /\ marked[r] = {} /\ snap'[r] = <<>> /\ def'[r] = 0 /\ pc'[r] = "end"
               /\ report' = report /\ marked' = marked
            \/ /\ snap' = snap /\ def' = def /\ pc' = pc
               /\ \E n \in marked[r] : /\ report' = [report EXCEPT ![n] = "gone"]
                                       /\ marked' = [marked EXCEPT ![r] = @ \ {n}]
<1>1. RunsOK /\ RunOK(r)
  BY DEF TInv, Types
<1>2. CASE marked[r] = {}
  BY <1>1, <1>2 DEF Free, Goto, RunsOK
<1>3. CASE marked[r] # {}
  <2> PICK n : n = CHOOSE m \in marked[r] : \A k \in marked[r] : Pos(snap[r], m) <= Pos(snap[r], k)
    OBVIOUS
  <2>1. n \in marked[r]
    BY <1>1, <1>3, FirstMarked DEF RunOK
  <2>2. /\ snap' = snap /\ def' = def /\ pc' = pc /\ report' = [report EXCEPT ![n] = "gone"]
        /\ marked' = [marked EXCEPT ![r] = @ \ {n}] /\ pc[r] = "post" /\ def[r] \notin DOMAIN Defs
    BY <1>3 DEF Free
  <2> QED
    BY <2>1, <2>2
<1> QED
  BY <1>2, <1>3

LEMMA FreeSpool ==
  ASSUME TInv, SInv, NEW r \in Runs, Free(r)
  PROVE  SInv'
<1> USE DEF world, texts, spools, tossing, listing, posting
<1>1. RunsOK /\ RunOK(r) /\ SpoolOK /\ StoringOK(r) /\ SnapOK(r)
  BY DEF TInv, Types, SInv
<1>2. Others(r)
  <2>1. StepOf(r)
    BY DEF StepOf, Step
  <2> QED
    BY <1>1, <2>1, OthersSame
<1>3. /\ Grown /\ tickets' = tickets /\ setup' = setup /\ inbox' = inbox /\ now' = now
  BY DEF TInv, Types, SpoolOK, Grown, Free
<1>4. CASE pc'[r] = "end" /\ snap'[r] = <<>> /\ report' = report
  <2>1. SnapOK(r)'
    <3>1. Len(snap'[r]) = 0 /\ DOMAIN snap'[r] = {}
      BY <1>4
    <3> QED
      BY <3>1 DEF SnapOK, Sorted, IsInjective, Range
  <2>2. ASSUME NEW m \in 1 .. setup.limit PROVE TicketOK(m)'
    BY <1>3, <1>4 DEF SInv, TicketOK
  <2>3. StoringOK(r)'
    BY <1>1, <1>2, <1>3, <1>4 DEF StoringOK
  <2>4. \A q \in Runs \ {r} : now[q] \notin inbox' /\ (now[q] # 0 => now'[r] # now[q])
    BY <1>1, <1>3 DEF SInv, StoringOK
  <2> QED
    BY <1>2, <1>3, <1>4, <2>1, <2>2, <2>3, <2>4, SpoolStep
<1>5. ASSUME NEW n \in marked[r], report' = [report EXCEPT ![n] = "gone"], snap' = snap,
             pc' = pc
      PROVE  SInv'
  <2>1. report[n] \in {"saved", "gone"} /\ n \in DOMAIN tickets /\ n \in DOMAIN report
    <3>1. n \in Range(snap[r])
      BY <1>1 DEF RunOK
    <3>2. n \in DOMAIN tickets
      BY <1>1, <3>1 DEF RunOK, Range
    <3> QED
      BY <1>1, <3>1, <3>2, InTickets DEF SnapOK
  <2>2. ASSUME NEW m \in 1 .. setup.limit PROVE TicketOK(m)'
    <3>1. TicketOK(m)
      BY DEF SInv
    <3> QED
      BY <1>3, <1>5, <2>1, <3>1 DEF TicketOK
  <2>3. \A m \in DOMAIN tickets : report[m] \in {"saved", "gone"} => report'[m] \in {"saved", "gone"}
    BY <1>5, <2>1
  <2>4. SnapOK(r)'
    <3>1. \A m \in Range(snap[r]) : report'[m] \in {"saved", "gone"}
      BY <1>1, <1>5, <2>1 DEF SnapOK
    <3> QED
      BY <1>1, <1>3, <1>5, <3>1, SnapKept
  <2>5. \A q \in Runs : pc[q] \in {"save", "fill"} => now[q] # n
    BY <2>1 DEF SInv, StoringOK
  <2>6. StoringOK(r)'
    BY <1>1, <1>3, <1>5, <2>5 DEF StoringOK
  <2>7. \A q \in Runs \ {r} : now[q] \notin inbox' /\ (now[q] # 0 => now'[r] # now[q])
    BY <1>1, <1>3 DEF SInv, StoringOK
  <2>8. \A q \in Runs \ {r} : pc[q] \in {"save", "fill"} => report'[now[q]] = report[now[q]]
    BY <1>5, <2>5
  <2> QED
    BY <1>2, <1>3, <2>2, <2>3, <2>4, <2>6, <2>7, <2>8, SpoolStep
<1> QED
  BY <1>4, <1>5, FreeDoes

-----------------------------------------------------------------------------
(* A report. *)

\* The tickets of s that a definition d posts.
ToPost(s, d) == {n \in Range(s) : tickets[n].area \in known /\ IsAreaMatched(tickets[n].area, d)}

LEMMA MessageOfSnap ==
  ASSUME TInv, NEW r \in Runs, SnapOK(r), NEW d
  PROVE  /\ PostedOK(MessageOf(snap[r], d), snap[r], tickets, known, d)
         /\ InMessage(MessageOf(snap[r], d)) = ToPost(snap[r], d)
<1> PICK s : s = snap[r]
  OBVIOUS
<1>1. tickets \in Seq(TicketType) /\ known \subseteq Range(Areas)
  BY DEF TInv, Types, SpoolOK, ConfigOK
<1>2. s \in Seq(DOMAIN tickets) /\ IsInjective(s) /\ Sorted(s)
  BY DEF TInv, RunOK, SnapOK
<1>3. \A n \in DOMAIN tickets : FileSize[n] \in Nat
  <2> SUFFICES ASSUME NEW n \in DOMAIN tickets PROVE TicSize(n) \in Nat
    BY DEF FileSize
  <2>1. tickets[n] \in TicketType
    BY <1>1
  <2>2. tickets[n].file \in Files
    BY <2>1, TicketTexts
  <2>3. Size[tickets[n].file] \in Nat /\ Word - 1 \in Nat
    BY <2>2, CatalogAssumption
  <2> QED
    BY <2>3 DEF TicSize
<1>4. IsFiniteSet(DOMAIN tickets)
  <2>1. DOMAIN tickets = 1 .. Len(tickets) /\ Len(tickets) \in Nat
    BY <1>1
  <2> QED
    BY <2>1, FS_Interval
<1>5. PICK g : IsSum(g, DOMAIN tickets, FileSize)
  BY <1>3, <1>4, SumExists
<1>6. Listing(s, g)
  BY <1>1, <1>2, <1>5 DEF Listing
<1>7. /\ PostedOK(MessageOf(s, d), s, tickets, known, d)
      /\ InMessage(MessageOf(s, d)) = UNION {InAreaOf(s, tickets, a) : a \in AreasOf(s, tickets, known, d)}
  BY <1>6, MessageRight
<1>8. UNION {InAreaOf(s, tickets, a) : a \in AreasOf(s, tickets, known, d)} = ToPost(s, d)
  BY DEF InAreaOf, AreasOf, ToPost
<1> QED
  BY <1>7, <1>8

LEMMA InSnap ==
  ASSUME TInv, NEW r \in Runs, SnapOK(r), NEW d
  PROVE  /\ InMessage(MessageOf(snap[r], d)) \subseteq Range(snap[r])
         /\ InMessage(MessageOf(snap[r], d)) \subseteq DOMAIN tickets
<1>1. Range(snap[r]) \subseteq DOMAIN tickets
  BY DEF TInv, RunOK, Range
<1> QED
  BY <1>1, MessageOfSnap DEF ToPost

LEMMA CountUp ==
  ASSUME NEW D, NEW p \in [D -> 0 .. 2], NEW d
  PROVE  [p EXCEPT ![d] = IF @ < 2 THEN @ + 1 ELSE @] \in [D -> 0 .. 2]
<1>1. \A x \in 0 .. 2 : (IF x < 2 THEN x + 1 ELSE x) \in 0 .. 2
  OBVIOUS
<1>2. CASE d \in D
  BY <1>1, <1>2
<1>3. CASE d \notin D
  BY <1>3
<1> QED
  BY <1>2, <1>3

LEMMA PostTypes ==
  ASSUME TInv, NEW r \in Runs, SnapOK(r), Post(r)
  PROVE  TInv'
<1> USE DEF world, texts, spools, tossing, listing, posting, Goto, Post
<1>1. ConfigOK /\ TextsOK /\ SpoolOK /\ RunsOK /\ RunOK(r)
  BY DEF TInv, Types
<1>2. setup' = setup /\ tickets' = tickets /\ Grown /\ dir \subseteq dir'
  BY <1>1 DEF Grown, SpoolOK
<1>3. ConfigOK'
  <2>1. faults < MaxFaults => faults + 1 \in 0 .. MaxFaults
    BY <1>1, CatalogAssumption DEF ConfigOK
  <2>2. faults' = faults \/ (faults < MaxFaults /\ faults' = faults + 1)
    OBVIOUS
  <2>3. setup' = setup /\ known' = known /\ lock' = lock
    OBVIOUS
  <2> HIDE DEF Post
  <2> QED
    BY <1>1, <2>1, <2>2, <2>3 DEF ConfigOK
<1>4. TextsOK'
  BY <1>1, <1>2 DEF TextsOK, BbsLine
<1>5. SpoolOK'
  <2> PICK made : made = MessageOf(snap[r], Defs[def[r]])
    OBVIOUS
  <2>1. InMessage(made) \subseteq DOMAIN tickets
    BY InSnap
  <2>2. unwritten' \subseteq DOMAIN tickets
    BY <1>1, <2>1 DEF SpoolOK
  <2>3. posted' \in [1 .. setup.limit -> [DOMAIN Defs -> 0 .. 2]]
    <3>1. \/ posted' = posted
          \/ posted' = [n \in DOMAIN posted |->
                 IF n \in InMessage(made)
                 THEN [posted[n] EXCEPT ![def[r]] = IF @ < 2 THEN @ + 1 ELSE @]
                 ELSE posted[n]]
      OBVIOUS
    <3>2. posted \in [1 .. setup.limit -> [DOMAIN Defs -> 0 .. 2]]
      BY <1>1 DEF SpoolOK
    <3> HIDE DEF Post
    <3>3. \A n \in 1 .. setup.limit : [posted[n] EXCEPT ![def[r]] = IF @ < 2 THEN @ + 1 ELSE @]
                                         \in [DOMAIN Defs -> 0 .. 2]
      BY <3>2, CountUp
    <3> QED
      BY <3>1, <3>2, <3>3
  <2>4. report' = report /\ inbox' = inbox
    OBVIOUS
  <2> HIDE DEF Post
  <2> QED
    BY <1>1, <1>2, <2>2, <2>3, <2>4 DEF SpoolOK, Defs
<1>6. RunsOK'
  BY <1>1 DEF RunsOK, Steps, StoringSteps, ListingSteps, PostingSteps
<1>7. RunOK(r)'
  <2>1. /\ todo' = todo /\ tree' = tree /\ pc[r] = "post" /\ pc'[r] = "posted" /\ cmds' = cmds
        /\ gone' = gone /\ def' = def /\ now' = now /\ snap' = snap /\ dir' = dir /\ list' = list
        /\ marked'[r] = marked[r] \cup InMessage(MessageOf(snap[r], Defs[def[r]]))
        /\ def[r] \in DOMAIN Defs
    BY <1>1 DEF RunsOK
  <2>2. marked'[r] \subseteq Range(snap[r])
    BY <1>1, <2>1, InSnap DEF RunOK
  <2> HIDE DEF Post
  <2> QED
    BY <1>1, <1>2, <2>1, <2>2 DEF RunOK, Defs, HasDir, StoringSteps, ListingSteps, PostingSteps
<1>8. StepOf(r)
  BY DEF StepOf, Step
<1> QED
  BY <1>2, <1>3, <1>4, <1>5, <1>6, <1>7, <1>8, OneMoved DEF Types

-----------------------------------------------------------------------------
(* What is true of the tickets and of the runs. *)

LEMMA QuietSteps ==
  ASSUME TInv, SInv, NEW r \in Runs,
         \/ Toss(r) \/ EndToss(r) \/ Copy(r) \/ Move(r) \/ Add(r) \/ FileList(r)
         \/ (\E f \in todo[r] : ListOne(r, f)) \/ Collect(r) \/ TidyCopy(r) \/ TidyMove(r)
         \/ Listed(r) \/ EndList(r) \/ Post(r) \/ NextDef(r) \/ End(r)
         \/ (\E commands \in setup.commands : Start(r, commands))
  PROVE  SInv'
<1> USE DEF world, texts, spools, tossing, listing, posting, Goto
<1>1. StepOf(r) /\ RunsOK
  BY DEF StepOf, Step, TInv, Types
<1>2. Others(r)
  BY <1>1, OthersSame, SMTT(60)
<1>3. /\ setup' = setup /\ tickets' = tickets /\ inbox' = inbox /\ report' = report
      /\ now' = now /\ snap' = snap
  BY DEF Toss, EndToss, Copy, Move, Add, FileList, ListOne, Collect, TidyCopy, TidyMove, Listed,
         EndList, Post, NextDef, End, Start
<1>4. pc'[r] = pc[r] \/ pc'[r] \notin {"save", "fill"}
  BY <1>1 DEF RunsOK, Toss, EndToss, After, Copy, Move, Add, FileList, ListOne, Collect, TidyCopy,
              TidyMove, Listed, EndList, Post, NextDef, End, Start
<1>5. \A q \in Runs : pc'[q] = pc[q] \/ pc'[q] \notin {"save", "fill"}
  BY <1>2, <1>4 DEF Others, Same
<1> QED
  BY <1>3, <1>5, QuietSpool

\* The steps that no run takes.
Outside ==
  \/ RemoveLock \/ (\E f \in Files \ {Tmp} : Sysop(f)) \/ (\E a \in Range(Areas) : DropArea(a))

LEMMA OutsideKeeps ==
  ASSUME TInv, SInv, Outside
  PROVE  TInv' /\ SInv'
<1> USE DEF world, texts, spools, tossing, listing, posting, RemoveLock, Sysop, DropArea, Outside
<1>1. ConfigOK /\ TextsOK /\ SpoolOK /\ RunsOK
  BY DEF TInv, Types
<1>2. /\ setup' = setup /\ tickets' = tickets /\ inbox' = inbox /\ report' = report
      /\ posted' = posted /\ unwritten' = unwritten /\ now' = now /\ snap' = snap /\ pc' = pc
      /\ bbs' = bbs /\ tmp' = tmp /\ told' = told /\ faults' = faults
      /\ \A q \in Runs : Same(q)
  BY DEF Same
<1>3. (dir' = dir \/ Idle) /\ dir' \subseteq Files \ {Tmp}
  BY <1>1 DEF TextsOK
<1>4. ConfigOK'
  BY <1>1 DEF ConfigOK
<1>5. TextsOK' /\ SpoolOK' /\ RunsOK'
  BY <1>1, <1>2, <1>3 DEF TextsOK, BbsLine, SpoolOK, Defs, RunsOK
<1> HIDE DEF RemoveLock, Sysop, DropArea, Outside
<1>6. ASSUME NEW q \in Runs PROVE RunOK(q)'
  <2>1. RunOK(q)
    BY DEF TInv
  <2>2. pc[q] = "list" => dir' = dir
    BY <1>3 DEF Idle
  <2> QED
    BY <1>2, <2>1, <2>2 DEF RunOK, Same, HasDir, Defs
<1>7. SInv'
  BY <1>2, QuietSpool, SMTT(60)
<1> QED
  BY <1>4, <1>5, <1>6, <1>7 DEF TInv, Types

(* With a lock, a run that is active is alone. *)
Alone ==
  setup.lock # "none" =>
    \A r \in Runs : pc[r] # "idle" => lock /\ \A q \in Runs \ {r} : pc[q] = "idle"

(* The invariant of the steps: types and places of the runs (TInv),        *)
(* tickets and spool (SInv), exclusion (Alone).                            *)
Core == TInv /\ SInv /\ Alone

LEMMA StepsActive ==
  ASSUME RunsOK, NEW r \in Runs, Step(r)
  PROVE  /\ pc[r] # "idle" /\ setup' = setup
         /\ lock' = lock \/ pc'[r] = "idle"
<1> USE DEF world, texts, spools, tossing, listing, posting, Goto, Step, Toss, EndToss, TossOne, Hatch,
        Save, Fill, Copy, Move, Add, Stored, FileList, ListOne, Collect, TidyCopy, TidyMove, Listed,
        EndList, Announce, Post, NextDef, Free, End
<1>1. pc[r] # "idle" /\ setup' = setup
  OBVIOUS
<1>2. lock' = lock \/ pc'[r] = "idle"
  BY DEF RunsOK
<1> QED
  BY <1>1, <1>2, SMTT(60)

LEMMA AloneStep ==
  ASSUME TInv, Alone, NEW r \in Runs, StepOf(r)
  PROVE  Alone'
<1> SUFFICES ASSUME setup'.lock # "none", NEW p \in Runs, pc'[p] # "idle"
             PROVE  lock' /\ \A q \in Runs \ {p} : pc'[q] = "idle"
  BY DEF Alone
<1>1. RunsOK /\ ConfigOK /\ Others(r)
  BY OthersSame DEF TInv, Types
<1>2. \A q \in Runs \ {r} : pc'[q] = pc[q]
  BY <1>1 DEF Others, Same
<1>3. CASE Step(r)
  <2>1. /\ pc[r] # "idle" /\ setup' = setup
        /\ lock' = lock \/ pc'[r] = "idle"
    BY <1>1, <1>3, StepsActive
  <2>2. lock /\ \A q \in Runs \ {r} : pc[q] = "idle"
    BY <2>1 DEF Alone
  <2> QED
    BY <1>2, <2>1, <2>2
<1>4. CASE Crash(r)
  <2>1. pc[r] # "idle" /\ setup' = setup /\ pc'[r] = "idle"
    BY <1>1, <1>4 DEF Crash, Goto, world, RunsOK
  <2>2. \A q \in Runs \ {r} : pc[q] = "idle"
    BY <2>1 DEF Alone
  <2> QED
    BY <1>2, <2>1, <2>2
<1>5. ASSUME NEW commands \in setup.commands, Start(r, commands)
      PROVE  lock' /\ \A q \in Runs \ {p} : pc'[q] = "idle"
  <2>1. ~lock /\ setup' = setup /\ lock' = (setup.lock # "none")
    BY <1>5 DEF Start, world
  <2>2. \A q \in Runs : pc[q] = "idle"
    BY <2>1 DEF Alone
  <2> QED
    BY <1>2, <2>1, <2>2
<1> QED
  BY <1>3, <1>4, <1>5 DEF StepOf

LEMMA RunStepKeeps ==
  ASSUME TInv, SInv, NEW r \in Runs, StepOf(r)
  PROVE  TInv' /\ SInv'
<1>1. CASE \/ Toss(r) \/ EndToss(r) \/ Copy(r) \/ Move(r) \/ Add(r) \/ FileList(r)
           \/ (\E f \in todo[r] : ListOne(r, f)) \/ Collect(r) \/ TidyCopy(r) \/ TidyMove(r)
           \/ Listed(r) \/ EndList(r) \/ Post(r) \/ NextDef(r) \/ End(r)
           \/ (\E commands \in setup.commands : Start(r, commands))
  <2>1. TInv'
    BY <1>1, TossTypes, EndTossTypes, CopyTypes, MoveTypes, AddTypes, FileListTypes, ListOneTypes,
       CollectTypes, TidyCopyTypes, TidyMoveTypes, ListedTypes, EndListTypes, PostTypes,
       NextDefTypes, EndTypes, StartTypes DEF SInv
  <2> QED
    BY <1>1, <2>1, QuietSteps
<1>2. CASE \E n \in todo[r] : TossOne(r, n)
  BY <1>2, TossOneTypes, TossOneSpool
<1>3. CASE \E f \in Files, h \in setup.hatches : Hatch(r, f, h)
  BY <1>3, HatchTypes, HatchSpool
<1>4. CASE Save(r)
  BY <1>4, SaveTypes, SaveSpool
<1>5. CASE Fill(r)
  BY <1>5, FillTypes, FillSpool
<1>6. CASE Stored(r)
  BY <1>6, StoredTypes, StoredSpool
<1>7. CASE Announce(r)
  BY <1>7, AnnounceTypes, AnnounceSpool
<1>8. CASE Free(r)
  BY <1>8, FreeTypes, FreeSpool
<1>9. CASE Crash(r)
  BY <1>9, CrashTypes, CrashSpool
<1> QED
  BY <1>1, <1>2, <1>3, <1>4, <1>5, <1>6, <1>7, <1>8, <1>9 DEF StepOf, Step

\* Every step is one of a run, the arrival of a ticket, or from outside.
LEMMA NextIs ==
  ASSUME Next
  PROVE  \/ \E r \in Runs : StepOf(r)
         \/ \E t \in setup.tickets : Arrive(t)
         \/ Outside
BY DEF Next, StartAny, StepOf, Outside

LEMMA AloneOutside ==
  ASSUME Alone, Outside \/ \E t \in setup.tickets : Arrive(t)
  PROVE  Alone'
<1>1. setup' = setup /\ pc' = pc
  BY DEF Outside, RemoveLock, Sysop, DropArea, Arrive, world
<1>2. lock' = lock \/ Idle
  BY DEF Outside, RemoveLock, Sysop, DropArea, Arrive
<1> QED
  BY <1>1, <1>2 DEF Alone, Idle

LEMMA CoreStep ==
  ASSUME Core, [Next]_vars
  PROVE  Core'
<1>1. CASE Next
  <2>1. CASE \E r \in Runs : StepOf(r)
    BY <2>1, RunStepKeeps, AloneStep DEF Core
  <2>2. CASE \E t \in setup.tickets : Arrive(t)
    BY <2>2, ArriveSpool, AloneOutside DEF Core
  <2>3. CASE Outside
    BY <2>3, OutsideKeeps, AloneOutside DEF Core
  <2> QED
    BY <1>1, <2>1, <2>2, <2>3, NextIs
<1>2. CASE UNCHANGED vars
  <2> USE <1>2 DEF vars, world, texts, spools, tossing, listing, posting
  <2>1. Types'
    BY DEF Core, TInv, Types, ConfigOK, TextsOK, BbsLine, SpoolOK, Defs, RunsOK
  <2>2. ASSUME NEW r \in Runs PROVE RunOK(r)'
    <3>1. RunOK(r)
      BY DEF Core, TInv
    <3> QED
      BY <3>1 DEF RunOK, HasDir, Defs
  <2>3. SInv'
    <3>1. TInv /\ SInv /\ \A q \in Runs : pc'[q] = pc[q]
      BY DEF Core
    <3> QED
      BY <3>1, QuietSpool
  <2>4. Alone'
    BY DEF Core, Alone
  <2> QED
    BY <2>1, <2>2, <2>3, <2>4 DEF Core, TInv
<1> QED
  BY <1>1, <1>2

LEMMA CoreInit ==
  ASSUME Init
  PROVE  Core
<1> USE DEF Init
<1>1. setup \in Setups /\ setup.limit \in Nat /\ known = Range(Areas) /\ Home \in known
  BY SetupIs, CatalogAssumption
<1>2. ConfigOK
  <2>1. dir \subseteq Files \ {Tmp} /\ lock \in BOOLEAN
    OBVIOUS
  <2>2. faults \in 0 .. MaxFaults
    BY CatalogAssumption
  <2> QED
    BY <1>1, <2>1, <2>2 DEF ConfigOK
<1>3. TextsOK
  BY DEF TextsOK, NoTmp, Unclear
<1>4. SpoolOK
  <2>1. tickets \in Seq(TicketType) /\ Len(tickets) = 0 /\ DOMAIN tickets = {}
    OBVIOUS
  <2> QED
    BY <1>1, <2>1 DEF SpoolOK
<1>5. RunsOK
  BY DEF RunsOK, Steps
<1>6. ASSUME NEW r \in Runs PROVE RunOK(r)
  <2>1. snap[r] = <<>> /\ snap[r] \in Seq(DOMAIN tickets) /\ DOMAIN tree[r] = {}
    OBVIOUS
  <2> QED
    BY <2>1, NoListType DEF RunOK, StoringSteps, ListingSteps, PostingSteps
<1>7. SInv
  <2>1. ASSUME NEW r \in Runs PROVE SnapOK(r) /\ StoringOK(r)
    <3>1. Len(snap[r]) = 0 /\ DOMAIN snap[r] = {}
      OBVIOUS
    <3> QED
      BY <3>1 DEF SnapOK, StoringOK, Sorted, IsInjective, Range
  <2>2. \A n \in 1 .. setup.limit : TicketOK(n)
    BY DEF TicketOK
  <2> QED
    BY <2>1, <2>2 DEF SInv
<1>8. Alone
  BY DEF Alone
<1> QED
  BY <1>2, <1>3, <1>4, <1>5, <1>6, <1>7, <1>8 DEF Core, TInv, Types

LEMMA CoreHolds == Spec => []Core
<1>1. Init => Core
  BY CoreInit
<1>2. Core /\ [Next]_vars => Core'
  BY CoreStep
<1> QED
  BY <1>1, <1>2, PTL DEF Spec

(* Every variable keeps its type, the counters of the list stay below      *)
(* their units, and a run that has ended or died holds nothing.            *)
THEOREM TypeCorrect == Spec => []TypeOK
<1>1. Core => TypeOK
  BY TypeCorrectNow DEF Core
<1> QED
  BY <1>1, CoreHolds, PTL

-----------------------------------------------------------------------------
(* Announcements. *)

Matches(n, d) == IsAreaMatched(tickets[n].area, Defs[d])

\* Definition d has announced ticket n, or its report could not be written.
Told(n, d) == posted[n][d] > 0 \/ (Defs[d].toFile /\ n \in unwritten)

\* Run r has reported with definition d.
Past(r, d) == d < def[r] \/ (d = def[r] /\ pc[r] = "posted")

AnnOK(r) ==
  /\ \A n \in Range(snap[r]), d \in DOMAIN Defs :
       tickets[n].area \in known /\ Matches(n, d) /\ Past(r, d) => Told(n, d)
  /\ \A n \in marked[r] : tickets[n].area \in known /\ \E d \in DOMAIN Defs : Matches(n, d)
  /\ pc[r] = "posted" => PostedOK(message[r], snap[r], tickets, known, Defs[def[r]])

Announced(n) ==
  /\ \E d \in DOMAIN Defs : Matches(n, d)
  /\ \A d \in DOMAIN Defs : Matches(n, d) => Told(n, d)

GoneOK(n) == report[n] = "gone" => Announced(n)

InHand(n, d) == \E r \in Runs : n \in marked[r] /\ Past(r, d)
Once(n, d) == posted[n][d] <= 1 /\ (posted[n][d] = 1 => report[n] = "gone" \/ InHand(n, d))
Fresh(r) == def[r] \in DOMAIN Defs => \A n \in Range(snap[r]) : report[n] = "saved"

OnceOK ==
  setup.lock # "none" /\ faults = 0 =>
    /\ \A n \in 1 .. setup.limit, d \in DOMAIN Defs : Once(n, d)
    /\ \A r \in Runs : Fresh(r)

(* Inductive with Core.  A ticket that is gone was announced by every      *)
(* definition that matches it; what a run read from the spool was          *)
(* announced by the definitions it is past; and without lost locks and     *)
(* dead runs, a ticket that a definition announced is gone, or in the hand *)
(* of the run that announced it.                                           *)
AInv ==
  /\ \A n \in DOMAIN tickets : GoneOK(n)
  /\ \A r \in Runs : AnnOK(r)
  /\ OnceOK

LEMMA PostedKept ==
  ASSUME NEW D, NEW s \in Seq(D), NEW tk, NEW tk2, \A n \in D : tk2[n] = tk[n],
         NEW m, NEW kn, NEW d, PostedOK(m, s, tk, kn, d)
  PROVE  PostedOK(m, s, tk2, kn, d)
<1>1. Range(s) \subseteq D
  BY DEF Range
<1>2. \A a : InAreaOf(s, tk2, a) = InAreaOf(s, tk, a)
  BY <1>1 DEF InAreaOf
<1>3. ASSUME NEW a PROVE SumOf(s, tk2, a) = SumOf(s, tk, a)
  <2> PICK A : A = InAreaOf(s, tk, a)
    OBVIOUS
  <2>1. InAreaOf(s, tk2, a) = A /\ A \subseteq D
    BY <1>1, <1>2 DEF InAreaOf
  <2>2. [n \in A |-> Size[tk2[n].file]] = [n \in A |-> Size[tk[n].file]]
    BY <2>1
  <2>3. EmptyOf(s, tk2, a) = EmptyOf(s, tk, a)
    BY <2>1 DEF EmptyOf
  <2> QED
    BY <2>1, <2>2, <2>3 DEF SumOf
<1>4. AreasOf(s, tk2, kn, d) = AreasOf(s, tk, kn, d)
  BY <1>2 DEF AreasOf
<1> PICK areas : areas = AreasOf(s, tk, kn, d)
  OBVIOUS
<1>5. [a \in areas |-> SumOf(s, tk2, a)] = [a \in areas |-> SumOf(s, tk, a)]
  BY <1>3
<1>6. {InAreaOf(s, tk2, a) : a \in areas} = {InAreaOf(s, tk, a) : a \in areas}
  BY <1>2
<1> QED
  BY <1>2, <1>3, <1>4, <1>5, <1>6 DEF PostedOK

LEMMA AnnKept ==
  ASSUME TInv, Grown, NEW q \in Runs, AnnOK(q), known' = known, snap'[q] = snap[q], def'[q] = def[q],
         marked'[q] = marked[q], message'[q] = message[q],
         pc'[q] = "posted" <=> pc[q] = "posted",
         \A n \in DOMAIN tickets, d \in DOMAIN Defs : Told(n, d) => Told(n, d)'
  PROVE  AnnOK(q)'
<1>1. snap[q] \in Seq(DOMAIN tickets) /\ marked[q] \subseteq Range(snap[q])
  BY DEF TInv, RunOK
<1>2. Range(snap[q]) \subseteq DOMAIN tickets
  BY <1>1 DEF Range
<1>3. Defs' = Defs /\ \A n \in DOMAIN tickets : tickets'[n] = tickets[n]
  BY DEF Grown, Defs
<1>4. \A n \in DOMAIN tickets : \A d : Matches(n, d)' <=> Matches(n, d)
  BY <1>3 DEF Matches
<1>5. \A d : Past(q, d)' <=> Past(q, d)
  BY DEF Past
<1>6. \A n \in Range(snap'[q]), d \in DOMAIN Defs' :
        tickets'[n].area \in known' /\ Matches(n, d)' /\ Past(q, d)' => Told(n, d)'
  <2> SUFFICES ASSUME NEW n \in Range(snap[q]), NEW d \in DOMAIN Defs,
                      tickets[n].area \in known, Matches(n, d), Past(q, d)
               PROVE  Told(n, d)'
    BY <1>2, <1>3, <1>4, <1>5
  <2>1. Told(n, d)
    BY DEF AnnOK
  <2> QED
    BY <1>2, <2>1
<1>7. \A n \in marked'[q] : tickets'[n].area \in known' /\ \E d \in DOMAIN Defs' : Matches(n, d)'
  BY <1>1, <1>2, <1>3, <1>4 DEF AnnOK
<1>8. pc'[q] = "posted" => PostedOK(message'[q], snap'[q], tickets', known', Defs'[def'[q]])
  <2> SUFFICES ASSUME pc[q] = "posted"
               PROVE  PostedOK(message[q], snap[q], tickets', known, Defs[def[q]])
    BY <1>3
  <2>1. PostedOK(message[q], snap[q], tickets, known, Defs[def[q]])
    BY DEF AnnOK
  <2> QED
    BY <1>1, <1>3, <2>1, PostedKept
<1> QED
  BY <1>6, <1>7, <1>8 DEF AnnOK

LEMMA GoneKept ==
  ASSUME Grown, NEW n \in DOMAIN tickets, Announced(n),
         \A d \in DOMAIN Defs : Told(n, d) => Told(n, d)'
  PROVE  Announced(n)'
<1>1. Defs' = Defs /\ tickets'[n] = tickets[n]
  BY DEF Grown, Defs
<1>2. \A d : Matches(n, d)' <=> Matches(n, d)
  BY <1>1 DEF Matches
<1> QED
  BY <1>1, <1>2 DEF Announced

\* A step that announces nothing.
LEMMA QuietAnn ==
  ASSUME TInv, SInv, AInv, TInv', Grown, known' = known, posted' = posted, unwritten' = unwritten,
         snap' = snap, def' = def, marked' = marked, message' = message,
         faults' = 0 => faults = 0,
         \A n \in 1 .. setup.limit :
           /\ report[n] \in {"saved", "gone"} => report'[n] = report[n]
           /\ report'[n] = "gone" => report[n] = "gone",
         \A q \in Runs : pc'[q] = "posted" <=> pc[q] = "posted"
  PROVE  AInv'
<1>1. setup' = setup /\ Defs' = Defs
  BY DEF Grown, Defs
<1>2. \A n, d : Told(n, d)' <=> Told(n, d)
  BY <1>1 DEF Told
<1>3. ASSUME NEW n \in DOMAIN tickets' PROVE GoneOK(n)'
  <2>1. CASE report'[n] = "gone"
    <3>1. n \in 1 .. setup.limit
      BY <1>1, InTickets, GrownIs DEF TInv, Types, SpoolOK
    <3>2. report[n] = "gone"
      BY <2>1, <3>1
    <3>3. n \in DOMAIN tickets
      BY <3>1, <3>2, InTickets DEF SInv, TicketOK
    <3>4. Announced(n)
      BY <3>2, <3>3 DEF AInv, GoneOK
    <3>5. Announced(n)'
      BY <1>2, <3>3, <3>4, GoneKept
    <3> QED
      BY <3>5 DEF GoneOK
  <2> QED
    BY <2>1 DEF GoneOK
<1>4. ASSUME NEW q \in Runs PROVE AnnOK(q)'
  BY <1>2, AnnKept DEF AInv
<1>5. ASSUME setup'.lock # "none", faults' = 0
      PROVE  /\ \A n \in 1 .. setup.limit, d \in DOMAIN Defs : Once(n, d)'
             /\ \A r \in Runs : Fresh(r)'
  <2>1. /\ \A n \in 1 .. setup.limit, d \in DOMAIN Defs : Once(n, d)
        /\ \A r \in Runs : Fresh(r)
    BY <1>1, <1>5 DEF AInv, OnceOK
  <2>2. \A r \in Runs : \A d : Past(r, d)' <=> Past(r, d)
    BY DEF Past
  <2>3. \A n, d : InHand(n, d)' <=> InHand(n, d)
    BY <2>2 DEF InHand
  <2>4. ASSUME NEW n \in 1 .. setup.limit, NEW d \in DOMAIN Defs PROVE Once(n, d)'
    BY <2>1, <2>3 DEF Once
  <2>5. ASSUME NEW r \in Runs PROVE Fresh(r)'
    <3>1. \A n \in Range(snap[r]) : n \in 1 .. setup.limit
      BY InTickets DEF TInv, RunOK, Range
    <3> QED
      BY <1>1, <2>1, <3>1 DEF Fresh
  <2> QED
    BY <2>4, <2>5
<1> QED
  BY <1>1, <1>3, <1>4, <1>5 DEF AInv, OnceOK

LEMMA QuietStepsAnn ==
  ASSUME TInv, SInv, AInv, TInv', NEW r \in Runs,
         \/ Toss(r) \/ EndToss(r) \/ (\E n \in todo[r] : TossOne(r, n)) \/ Save(r) \/ Fill(r)
         \/ Copy(r) \/ Move(r) \/ Add(r) \/ Stored(r) \/ FileList(r)
         \/ (\E f \in todo[r] : ListOne(r, f)) \/ Collect(r) \/ TidyCopy(r) \/ TidyMove(r)
         \/ Listed(r) \/ EndList(r) \/ End(r)
         \/ (\E commands \in setup.commands : Start(r, commands))
  PROVE  AInv'
<1> USE DEF world, texts, spools, tossing, listing, posting, Goto
<1>1. StepOf(r) /\ RunsOK /\ RunOK(r) /\ StoringOK(r)
  BY DEF StepOf, Step, TInv, Types, SInv
<1>2. Others(r)
  BY <1>1, OthersSame, SMTT(60)
<1>3. /\ setup' = setup /\ tickets' = tickets /\ known' = known /\ posted' = posted
      /\ unwritten' = unwritten /\ snap' = snap /\ def' = def /\ marked' = marked
      /\ message' = message /\ faults' \in {faults, faults + 1}
  BY DEF Toss, EndToss, TossOne, Put, Save, Fill, Copy, Move, Add, Stored, FileList, ListOne, Collect,
         TidyCopy, TidyMove, Listed, EndList, End, Start
<1>4. pc'[r] # "posted" /\ pc[r] # "posted"
  BY <1>1 DEF RunsOK, Toss, EndToss, After, TossOne, Put, Save, Fill, Copy, Move, Add, Stored, FileList,
              ListOne, Collect, TidyCopy, TidyMove, Listed, EndList, End, Start
<1>5. \A q \in Runs : pc'[q] = "posted" <=> pc[q] = "posted"
  BY <1>2, <1>4, SMTT(60) DEF Others, Same
<1>6. \/ report' = report
      \/ pc[r] = "save" /\ report' = [report EXCEPT ![now[r]] = "empty"]
      \/ pc[r] = "fill" /\ report' = [report EXCEPT ![now[r]] = "saved"]
  BY DEF Toss, EndToss, TossOne, Put, Save, Fill, Copy, Move, Add, Stored, FileList, ListOne, Collect,
         TidyCopy, TidyMove, Listed, EndList, End, Start
<1>7. pc[r] \in {"save", "fill"} => report[now[r]] \in {"none", "empty"}
  BY <1>1 DEF StoringOK
<1>8. \A n \in 1 .. setup.limit :
           /\ report[n] \in {"saved", "gone"} => report'[n] = report[n]
           /\ report'[n] = "gone" => report[n] = "gone"
  BY <1>6, <1>7, InTickets
<1>9. faults' = 0 => faults = 0
  BY <1>3 DEF TInv, Types, ConfigOK
<1>10. Grown
  BY <1>3 DEF Grown, TInv, Types, SpoolOK
<1> QED
  BY <1>3, <1>5, <1>8, <1>9, <1>10, QuietAnn

LEMMA HatchAnn ==
  ASSUME TInv, SInv, AInv, TInv', NEW r \in Runs, NEW f \in Files, NEW h \in setup.hatches,
         Hatch(r, f, h)
  PROVE  AInv'
<1> USE DEF world, texts, spools, tossing, listing, posting, Goto, Hatch, Put
<1>1. ConfigOK /\ TextsOK /\ SpoolOK /\ RunsOK /\ Others(r)
  <2>1. StepOf(r) /\ RunsOK
    BY DEF StepOf, Step, TInv, Types
  <2> QED
    BY <2>1, OthersSame DEF TInv, Types
<1>2. /\ setup' = setup /\ known' = known /\ posted' = posted /\ report' = report
      /\ unwritten' = unwritten /\ snap' = snap /\ def' = def /\ marked' = marked
      /\ message' = message /\ faults' = faults
  OBVIOUS
<1>3. pc'[r] # "posted" /\ pc[r] # "posted"
  BY <1>1 DEF RunsOK
<1>4. \A q \in Runs : pc'[q] = "posted" <=> pc[q] = "posted"
  BY <1>1, <1>3 DEF Others, Same
<1>5. Grown
  <2>1. CASE f \in dir /\ Len(tickets) < setup.limit
    <3> PICK t : t = Hatched(f, h, GetDesc(bbs, f))
      OBVIOUS
    <3>1. t \in TicketType
      <4>1. h \in HatchType /\ GetDesc(bbs, f) \in Seq(Texts)
        BY <1>1, SetupIs, LinesAre, GetDescType DEF ConfigOK, TextsOK
      <4>2. f # Tmp
        BY <1>1, <2>1 DEF TextsOK
      <4> QED
        BY <4>1, <4>2, HatchedType
    <3>2. tickets' = Append(tickets, t)
      BY <2>1 DEF Hatched
    <3> QED
      BY <1>1, <1>2, <2>1, <3>1, <3>2, OneMoreArrived DEF ConfigOK
  <2>2. CASE ~(f \in dir /\ Len(tickets) < setup.limit)
    BY <1>1, <1>2, <2>2 DEF Grown, SpoolOK
  <2> QED
    BY <2>1, <2>2
<1> HIDE DEF Hatch
<1> QED
  BY <1>2, <1>4, <1>5, QuietAnn

LEMMA ArriveAnn ==
  ASSUME TInv, SInv, AInv, TInv', NEW t \in setup.tickets, Arrive(t)
  PROVE  AInv'
<1>1. /\ setup' = setup /\ known' = known /\ posted' = posted /\ report' = report
      /\ unwritten' = unwritten /\ snap' = snap /\ def' = def /\ marked' = marked
      /\ message' = message /\ faults' = faults /\ pc' = pc
      /\ tickets' = Append(tickets, t) /\ Len(tickets) < setup.limit
  BY DEF world, texts, spools, tossing, listing, posting, Arrive
<1>2. ConfigOK /\ SpoolOK
  BY DEF TInv, Types
<1>3. t \in TicketType
  BY <1>2, SetupIs DEF ConfigOK
<1>4. Grown
  BY <1>1, <1>2, <1>3, OneMoreArrived DEF ConfigOK
<1> QED
  BY <1>1, <1>4, QuietAnn

LEMMA OutsideAnn ==
  ASSUME TInv, SInv, AInv, TInv', Outside
  PROVE  AInv'
<1> USE DEF world, texts, spools, tossing, listing, posting, RemoveLock, Sysop, DropArea, Outside
<1>1. /\ setup' = setup /\ tickets' = tickets /\ posted' = posted /\ report' = report
      /\ unwritten' = unwritten /\ snap' = snap /\ def' = def /\ marked' = marked
      /\ message' = message /\ faults' = faults /\ pc' = pc
  OBVIOUS
<1>2. Grown
  BY <1>1 DEF Grown, TInv, Types, SpoolOK
<1>3. known' = known \/ Idle
  OBVIOUS
<1> HIDE DEF RemoveLock, Sysop, DropArea, Outside
<1>4. CASE known' = known
  BY <1>1, <1>2, <1>4, QuietAnn
<1>5. CASE Idle
  <2>1. ASSUME NEW q \in Runs PROVE snap[q] = <<>> /\ marked[q] = {} /\ pc[q] = "idle"
    <3>1. pc[q] = "idle" /\ RunOK(q)
      BY <1>5 DEF Idle, TInv
    <3>2. snap[q] = <<>> /\ DOMAIN snap[q] = {}
      BY <3>1 DEF RunOK, PostingSteps
    <3> QED
      BY <3>1, <3>2 DEF RunOK, Range
  <2>2. ASSUME NEW q \in Runs PROVE AnnOK(q)'
    <3>1. DOMAIN snap[q] = {}
      BY <2>1
    <3>2. Range(snap[q]) = {}
      BY <3>1 DEF Range
    <3> QED
      BY <1>1, <2>1, <3>2 DEF AnnOK
  <2>3. Defs' = Defs
    BY <1>1 DEF Defs
  <2>4. ASSUME NEW n \in DOMAIN tickets' PROVE GoneOK(n)'
    <3>1. \A d \in DOMAIN Defs : Told(n, d) => Told(n, d)'
      BY <1>1, <2>3 DEF Told
    <3> QED
      BY <1>1, <1>2, <3>1, GoneKept DEF AInv, GoneOK
  <2>5. OnceOK'
    BY <1>1, <2>3 DEF AInv, OnceOK, Once, InHand, Past, Fresh
  <2> QED
    BY <2>2, <2>4, <2>5 DEF AInv
<1> QED
  BY <1>3, <1>4, <1>5

\* A step of a run that reports: what is left to show.
LEMMA AnnStep ==
  ASSUME TInv, AInv, NEW r \in Runs, Others(r), setup' = setup, tickets' = tickets, known' = known,
         \A n \in DOMAIN tickets, d \in DOMAIN Defs : Told(n, d) => Told(n, d)',
         \A n \in DOMAIN tickets : report'[n] = "gone" => report[n] = "gone" \/ Announced(n)',
         AnnOK(r)', OnceOK'
  PROVE  AInv'
<1>1. Grown
  BY DEF Grown, TInv, Types, SpoolOK
<1>2. ASSUME NEW q \in Runs PROVE AnnOK(q)'
  <2>1. CASE q = r
    BY <2>1
  <2>2. CASE q # r
    <3>1. Same(q) /\ AnnOK(q)
      BY <2>2 DEF Others, AInv
    <3> QED
      BY <1>1, <3>1, AnnKept DEF Same
  <2> QED
    BY <2>1, <2>2
<1>3. ASSUME NEW n \in DOMAIN tickets PROVE GoneOK(n)'
  <2>1. report[n] = "gone" => Announced(n)'
    BY <1>1, GoneKept DEF AInv, GoneOK
  <2> QED
    BY <2>1 DEF GoneOK
<1> QED
  BY <1>2, <1>3 DEF AInv

LEMMA AnnounceAnn ==
  ASSUME TInv, SInv, AInv, NEW r \in Runs, Announce(r)
  PROVE  AInv'
<1> USE DEF world, texts, spools, tossing, listing, posting, Goto, Announce
<1>1. SpoolOK /\ RunsOK /\ RunOK(r) /\ Others(r)
  <2>1. StepOf(r) /\ RunsOK
    BY DEF StepOf, Step, TInv, Types
  <2> QED
    BY <2>1, OthersSame DEF TInv, Types
<1>2. /\ setup' = setup /\ tickets' = tickets /\ known' = known /\ posted' = posted
      /\ unwritten' = unwritten /\ report' = report /\ marked' = marked /\ faults' = faults
  OBVIOUS
<1>3. pc[r] = "main" /\ def'[r] = 1 /\ pc'[r] \in {"post", "end"}
  BY <1>1 DEF RunsOK
<1>4. PICK entries \in IF setup.spool THEN ReportInfo ELSE {<<>>} : snap'[r] = entries
  BY <1>1 DEF RunsOK
<1> HIDE DEF Announce
<1>5. Range(entries) \subseteq Saved
  BY <1>1, ReportInfoType
<1>6. marked[r] = {}
  <2>1. snap[r] = <<>> /\ DOMAIN snap[r] = {}
    BY <1>1, <1>3 DEF RunOK, PostingSteps
  <2> QED
    BY <1>1, <2>1 DEF RunOK, Range
<1>7. Defs' = Defs /\ DOMAIN Defs \subseteq Nat \ {0}
  BY <1>2, SetupIs DEF Defs, TInv, Types, ConfigOK
<1>8. \A d \in DOMAIN Defs : ~Past(r, d)'
  BY <1>3, <1>7 DEF Past
<1>9. AnnOK(r)'
  BY <1>2, <1>3, <1>6, <1>7, <1>8 DEF AnnOK
<1>10. \A n, d : Told(n, d)' <=> Told(n, d)
  BY <1>2, <1>7 DEF Told
<1>11. OnceOK'
  <2> SUFFICES ASSUME setup'.lock # "none", faults' = 0
               PROVE  /\ \A n \in 1 .. setup.limit, d \in DOMAIN Defs : Once(n, d)'
                      /\ \A q \in Runs : Fresh(q)'
    BY <1>2, <1>7 DEF OnceOK
  <2>1. /\ \A n \in 1 .. setup.limit, d \in DOMAIN Defs : Once(n, d)
        /\ \A q \in Runs : Fresh(q)
    BY <1>2 DEF AInv, OnceOK
  <2>2. ASSUME NEW n \in 1 .. setup.limit, NEW d \in DOMAIN Defs PROVE Once(n, d)'
    <3>1. ASSUME NEW q \in Runs, n \in marked[q], Past(q, d) PROVE InHand(n, d)'
      <4>1. q # r
        BY <1>6, <3>1
      <4> QED
        BY <1>1, <3>1, <4>1 DEF InHand, Past, Others, Same
    <3>2. InHand(n, d) => InHand(n, d)'
      BY <3>1 DEF InHand
    <3> QED
      BY <1>2, <2>1, <3>2 DEF Once
  <2>3. ASSUME NEW q \in Runs PROVE Fresh(q)'
    <3>1. CASE q = r
      BY <1>2, <1>4, <1>5, <3>1 DEF Fresh, Saved
    <3>2. CASE q # r
      BY <1>1, <1>2, <1>7, <2>1, <3>2 DEF Fresh, Others, Same
    <3> QED
      BY <3>1, <3>2
  <2> QED
    BY <2>2, <2>3
<1> QED
  BY <1>1, <1>2, <1>9, <1>10, <1>11, AnnStep

LEMMA NextDefAnn ==
  ASSUME TInv, SInv, AInv, NEW r \in Runs, NextDef(r)
  PROVE  AInv'
<1> USE DEF world, texts, spools, tossing, listing, posting, Goto, NextDef
<1>1. RunsOK /\ RunOK(r) /\ Others(r)
  <2>1. StepOf(r) /\ RunsOK
    BY DEF StepOf, Step, TInv, Types
  <2> QED
    BY <2>1, OthersSame DEF TInv, Types
<1>2. /\ setup' = setup /\ tickets' = tickets /\ known' = known /\ posted' = posted
      /\ unwritten' = unwritten /\ report' = report /\ marked' = marked /\ faults' = faults
      /\ snap' = snap
  OBVIOUS
<1>3. pc[r] = "posted" /\ def'[r] = def[r] + 1 /\ pc'[r] = "post"
  BY <1>1 DEF RunsOK
<1> HIDE DEF NextDef
<1>4. def[r] \in DOMAIN Defs
  BY <1>1, <1>3 DEF RunOK
<1>5. Defs' = Defs /\ DOMAIN Defs \subseteq Nat \ {0}
  BY <1>2, SetupIs DEF Defs, TInv, Types, ConfigOK
<1>6. \A d \in DOMAIN Defs : Past(r, d)' <=> Past(r, d)
  BY <1>3, <1>4, <1>5 DEF Past
<1>7. \A n, d : Told(n, d)' <=> Told(n, d)
  BY <1>2, <1>5 DEF Told
<1>8. \A n, d : Matches(n, d)' <=> Matches(n, d)
  BY <1>2, <1>5 DEF Matches
<1>9. AnnOK(r)'
  <2>1. AnnOK(r)
    BY DEF AInv
  <2> QED
    BY <1>2, <1>3, <1>5, <1>6, <1>7, <1>8, <2>1 DEF AnnOK
<1>10. OnceOK'
  <2> SUFFICES ASSUME setup'.lock # "none", faults' = 0
               PROVE  /\ \A n \in 1 .. setup.limit, d \in DOMAIN Defs : Once(n, d)'
                      /\ \A q \in Runs : Fresh(q)'
    BY <1>2, <1>5 DEF OnceOK
  <2>1. /\ \A n \in 1 .. setup.limit, d \in DOMAIN Defs : Once(n, d)
        /\ \A q \in Runs : Fresh(q)
    BY <1>2 DEF AInv, OnceOK
  <2>2. ASSUME NEW n \in 1 .. setup.limit, NEW d \in DOMAIN Defs PROVE Once(n, d)'
    <3>1. ASSUME NEW q \in Runs, n \in marked[q], Past(q, d) PROVE InHand(n, d)'
      <4>1. Past(q, d)'
        BY <1>1, <1>6, <3>1 DEF Past, Others, Same
      <4> QED
        BY <1>2, <3>1, <4>1 DEF InHand
    <3>2. InHand(n, d) => InHand(n, d)'
      BY <3>1 DEF InHand
    <3> QED
      BY <1>2, <2>1, <3>2 DEF Once
  <2>3. ASSUME NEW q \in Runs PROVE Fresh(q)'
    <3>1. CASE q = r
      BY <1>2, <1>4, <2>1, <3>1 DEF Fresh
    <3>2. CASE q # r
      BY <1>1, <1>2, <1>5, <2>1, <3>2 DEF Fresh, Others, Same
    <3> QED
      BY <3>1, <3>2
  <2> QED
    BY <2>2, <2>3
<1> QED
  BY <1>1, <1>2, <1>7, <1>9, <1>10, AnnStep

LEMMA FreeAnn ==
  ASSUME TInv, SInv, Alone, AInv, NEW r \in Runs, Free(r)
  PROVE  AInv'
<1> USE DEF world, texts, spools, tossing, listing, posting, Goto
<1>1. RunsOK /\ SpoolOK /\ RunOK(r) /\ Others(r) /\ SnapOK(r)
  <2>1. StepOf(r) /\ RunsOK
    BY DEF StepOf, Step, TInv, Types
  <2> QED
    BY <2>1, OthersSame DEF TInv, Types, SInv
<1>2. /\ setup' = setup /\ tickets' = tickets /\ known' = known /\ posted' = posted
      /\ unwritten' = unwritten /\ faults' = faults
  BY DEF Free
<1>3. Defs' = Defs /\ DOMAIN Defs = 1 .. Len(Defs) /\ Len(Defs) \in Nat
  BY <1>2, SetupIs DEF Defs, TInv, Types, ConfigOK
<1>4. \A n, d : Told(n, d)' <=> Told(n, d)
  BY <1>2, <1>3 DEF Told
<1>5. \A n, d : Matches(n, d)' <=> Matches(n, d)
  BY <1>2, <1>3 DEF Matches
<1>6. AnnOK(r)
  BY DEF AInv
<1>7. CASE marked[r] = {} /\ snap'[r] = <<>> /\ def'[r] = 0 /\ pc'[r] = "end" /\ report' = report
           /\ marked' = marked
  <2>1. DOMAIN snap'[r] = {}
    BY <1>7
  <2>2. Range(snap'[r]) = {}
    BY <2>1 DEF Range
  <2>3. AnnOK(r)'
    BY <1>7, <2>2 DEF AnnOK
  <2>4. OnceOK'
    <3> SUFFICES ASSUME setup'.lock # "none", faults' = 0
                 PROVE  /\ \A n \in 1 .. setup.limit, d \in DOMAIN Defs : Once(n, d)'
                        /\ \A q \in Runs : Fresh(q)'
      BY <1>2, <1>3 DEF OnceOK
    <3>1. /\ \A n \in 1 .. setup.limit, d \in DOMAIN Defs : Once(n, d)
          /\ \A q \in Runs : Fresh(q)
      BY <1>2 DEF AInv, OnceOK
    <3>2. ASSUME NEW n \in 1 .. setup.limit, NEW d \in DOMAIN Defs PROVE Once(n, d)'
      <4>1. ASSUME NEW q \in Runs, n \in marked[q], Past(q, d) PROVE InHand(n, d)'
        <5>1. q # r
          BY <1>7, <4>1
        <5> QED
          BY <1>1, <4>1, <5>1 DEF InHand, Past, Others, Same
      <4>2. InHand(n, d) => InHand(n, d)'
        BY <4>1 DEF InHand
      <4> QED
        BY <1>2, <1>7, <3>1, <4>2 DEF Once
    <3>3. ASSUME NEW q \in Runs PROVE Fresh(q)'
      <4>1. CASE q = r
        BY <1>3, <1>7, <4>1 DEF Fresh
      <4>2. CASE q # r
        BY <1>1, <1>2, <1>3, <1>7, <3>1, <4>2 DEF Fresh, Others, Same
      <4> QED
        BY <4>1, <4>2
    <3> QED
      BY <3>2, <3>3
  <2> QED
    BY <1>1, <1>2, <1>4, <1>7, <2>3, <2>4, AnnStep
<1>8. ASSUME NEW n \in marked[r], report' = [report EXCEPT ![n] = "gone"], pc[r] = "post",
             marked' = [marked EXCEPT ![r] = @ \ {n}], snap' = snap, def' = def, pc' = pc,
             def[r] \notin DOMAIN Defs
      PROVE  AInv'
  <2>1. n \in Range(snap[r]) /\ n \in DOMAIN tickets /\ n \in DOMAIN report
    BY <1>1, InTickets, SMTT(60) DEF RunOK, Range
  <2>2. \A d \in DOMAIN Defs : Past(r, d)
    BY <1>1, <1>3, <1>8 DEF RunOK, Past
  <2>3. Announced(n)
    BY <1>6, <2>1, <2>2 DEF AnnOK, Announced
  <2>4. Announced(n)'
    BY <1>3, <1>4, <1>5, <2>3 DEF Announced
  <2>5. marked'[r] \subseteq marked[r]
    BY <1>1, <1>8 DEF RunsOK
  <2>6. \A d : Past(r, d)' <=> Past(r, d)
    BY <1>8 DEF Past
  <2>7. AnnOK(r)'
    BY <1>2, <1>3, <1>4, <1>5, <1>6, <1>8, <2>5, <2>6 DEF AnnOK
  <2>8. OnceOK'
    <3> SUFFICES ASSUME setup'.lock # "none", faults' = 0
                 PROVE  /\ \A m \in 1 .. setup.limit, d \in DOMAIN Defs : Once(m, d)'
                        /\ \A q \in Runs : Fresh(q)'
      BY <1>2, <1>3 DEF OnceOK
    <3>1. /\ \A m \in 1 .. setup.limit, d \in DOMAIN Defs : Once(m, d)
          /\ \A q \in Runs : Fresh(q)
      BY <1>2 DEF AInv, OnceOK
    <3>2. ASSUME NEW m \in 1 .. setup.limit, NEW d \in DOMAIN Defs PROVE Once(m, d)'
      <4>1. CASE m = n
        BY <1>2, <1>8, <2>1, <3>1, <4>1 DEF Once
      <4>2. CASE m # n
        <5>1. ASSUME NEW q \in Runs, m \in marked[q], Past(q, d) PROVE InHand(m, d)'
          <6>1. m \in marked'[q]
            BY <1>8, <4>2, <5>1 DEF RunsOK
          <6>2. Past(q, d)'
            BY <1>8, <5>1 DEF Past
          <6> QED
            BY <6>1, <6>2 DEF InHand
        <5>2. InHand(m, d) => InHand(m, d)'
          BY <5>1 DEF InHand
        <5>3. report'[m] = report[m]
          BY <1>8, <4>2
        <5> QED
          BY <1>2, <3>1, <5>2, <5>3 DEF Once
      <4> QED
        BY <4>1, <4>2
    <3>3. ASSUME NEW q \in Runs PROVE Fresh(q)'
      <4> SUFFICES ASSUME def[q] \in DOMAIN Defs, NEW m \in Range(snap[q]) PROVE report'[m] = "saved"
        BY <1>3, <1>8 DEF Fresh
      <4>1. q # r /\ pc[r] # "idle"
        BY <1>8
      <4>2. pc[q] = "idle" /\ RunOK(q)
        BY <1>2, <4>1 DEF Alone, TInv
      <4>3. snap[q] = <<>> /\ DOMAIN snap[q] = {}
        BY <4>2 DEF RunOK, PostingSteps
      <4> QED
        BY <4>3 DEF Range
    <3> QED
      BY <3>2, <3>3
  <2> QED
    BY <1>1, <1>2, <1>4, <1>8, <2>4, <2>7, <2>8, AnnStep
<1> QED
  BY <1>7, <1>8, FreeDoes

LEMMA CrashAnn ==
  ASSUME TInv, SInv, AInv, NEW r \in Runs, Crash(r)
  PROVE  AInv'
<1> USE DEF world, texts, spools, tossing, listing, posting, Goto
<1>1. RunsOK /\ Others(r)
  <2>1. StepOf(r) /\ RunsOK
    BY DEF StepOf, TInv, Types
  <2> QED
    BY <2>1, OthersSame
<1>2. /\ setup' = setup /\ tickets' = tickets /\ known' = known /\ posted' = posted
      /\ unwritten' = unwritten /\ report' = report /\ faults' = faults + 1
  BY DEF Crash
<1>3. marked'[r] = {} /\ snap'[r] = <<>> /\ pc'[r] = "idle"
  BY <1>1 DEF Crash, RunsOK
<1>4. \A n, d : Told(n, d)' <=> Told(n, d)
  BY <1>2 DEF Told, Defs
<1>5. DOMAIN snap'[r] = {}
  BY <1>3
<1>6. AnnOK(r)'
  BY <1>3, <1>5 DEF AnnOK, Range
<1>7. OnceOK'
  BY <1>2 DEF OnceOK, TInv, Types, ConfigOK
<1> QED
  BY <1>1, <1>2, <1>4, <1>6, <1>7, AnnStep

\* A definition announces what its message lists.
LEMMA PostAnn ==
  ASSUME TInv, SInv, Alone, AInv, NEW r \in Runs, Post(r)
  PROVE  AInv'
<1> USE DEF world, texts, spools, tossing, listing, posting, Goto
<1>1. RunsOK /\ SpoolOK /\ ConfigOK /\ RunOK(r) /\ Others(r) /\ SnapOK(r) /\ AnnOK(r)
  <2>1. StepOf(r) /\ RunsOK
    BY DEF StepOf, Step, TInv, Types
  <2> QED
    BY <2>1, OthersSame DEF TInv, Types, SInv, AInv
<1> PICK e : e = def[r]
  OBVIOUS
<1> PICK d0 : d0 = Defs[e]
  OBVIOUS
<1> PICK made : made = MessageOf(snap[r], d0)
  OBVIOUS
<1> PICK In : In = InMessage(made)
  OBVIOUS
<1>2. /\ setup' = setup /\ tickets' = tickets /\ known' = known /\ report' = report
      /\ snap' = snap /\ def' = def /\ e \in DOMAIN Defs /\ pc[r] = "post"
  BY DEF Post
<1>3. pc'[r] = "posted" /\ message'[r] = made /\ marked'[r] = marked[r] \cup In
  BY <1>1 DEF Post, RunsOK
<1>4. Defs' = Defs /\ DOMAIN Defs \subseteq Nat \ {0}
  BY <1>1, <1>2, SetupIs DEF Defs, ConfigOK
<1>5. /\ PostedOK(made, snap[r], tickets, known, d0)
      /\ In = ToPost(snap[r], d0)
  BY <1>1, MessageOfSnap
<1>6. In \subseteq Range(snap[r]) /\ In \subseteq DOMAIN tickets /\ In \subseteq 1 .. setup.limit
  <2>1. Range(snap[r]) \subseteq DOMAIN tickets
    BY <1>1 DEF RunOK, Range
  <2> QED
    BY <1>5, <2>1, InTickets DEF ToPost
<1>7. /\ DOMAIN posted = 1 .. setup.limit
      /\ \A n \in 1 .. setup.limit : posted[n] \in [DOMAIN Defs -> 0 .. 2]
  BY <1>1 DEF SpoolOK
<1>8. \/ /\ unwritten' = unwritten
         /\ faults' = faults
         /\ posted' = [n \in DOMAIN posted |->
                        IF n \in In THEN [posted[n] EXCEPT ![e] = IF @ < 2 THEN @ + 1 ELSE @]
                        ELSE posted[n]]
      \/ d0.toFile /\ faults' = faults + 1 /\ unwritten' = unwritten \cup In /\ posted' = posted
  BY DEF Post
<1>9. \A n \in 1 .. setup.limit, d \in DOMAIN Defs :
        /\ posted'[n][d] \in {posted[n][d], posted[n][d] + 1}
        /\ posted[n][d] > 0 => posted'[n][d] > 0
        /\ posted'[n][d] = posted[n][d] \/ (n \in In /\ d = e)
  <2> SUFFICES ASSUME NEW n \in 1 .. setup.limit, NEW d \in DOMAIN Defs
               PROVE  /\ posted'[n][d] \in {posted[n][d], posted[n][d] + 1}
                      /\ posted[n][d] > 0 => posted'[n][d] > 0
                      /\ posted'[n][d] = posted[n][d] \/ (n \in In /\ d = e)
    OBVIOUS
  <2>1. posted[n][d] \in 0 .. 2
    BY <1>7
  <2>2. posted'[n][d] \in {posted[n][d], posted[n][d] + 1}
        /\ (posted'[n][d] = posted[n][d] \/ (n \in In /\ d = e))
    BY <1>7, <1>8, ZenonT(60)
  <2> QED
    BY <2>1, <2>2
<1>10. \A n \in DOMAIN tickets, d \in DOMAIN Defs : Told(n, d) => Told(n, d)'
  <2> SUFFICES ASSUME NEW n \in DOMAIN tickets, NEW d \in DOMAIN Defs, Told(n, d)
               PROVE  Told(n, d)'
    OBVIOUS
  <2>1. n \in 1 .. setup.limit
    BY InTickets
  <2>2. posted[n][d] > 0 => posted'[n][d] > 0
    BY <1>9, <2>1
  <2>3. unwritten \subseteq unwritten'
    BY <1>8
  <2> QED
    BY <1>4, <2>2, <2>3 DEF Told
<1>11. ASSUME NEW n \in In PROVE Told(n, e)'
  <2>1. n \in 1 .. setup.limit
    BY <1>6
  <2>2. posted[n] \in [DOMAIN Defs -> 0 .. 2]
    BY <1>7, <2>1
  <2>3. CASE d0.toFile /\ unwritten' = unwritten \cup In
    BY <1>2, <1>4, <2>3 DEF Told
  <2>4. CASE posted' = [m \in DOMAIN posted |->
                        IF m \in In THEN [posted[m] EXCEPT ![e] = IF @ < 2 THEN @ + 1 ELSE @]
                        ELSE posted[m]]
    <3>1. posted'[n] = [posted[n] EXCEPT ![e] = IF @ < 2 THEN @ + 1 ELSE @]
      BY <1>7, <2>1, <2>4
    <3>2. posted[n][e] \in 0 .. 2
      BY <1>2, <2>2
    <3>3. posted'[n][e] = IF posted[n][e] < 2 THEN posted[n][e] + 1 ELSE posted[n][e]
      BY <1>2, <2>2, <3>1
    <3>4. posted'[n][e] > 0
      BY <3>2, <3>3
    <3> QED
      BY <3>4 DEF Told
  <2> QED
    BY <1>8, <2>3, <2>4
<1>12. \A d \in DOMAIN Defs : Past(r, d)' <=> Past(r, d) \/ d = e
  BY <1>2, <1>3 DEF Past
<1>13. \A n, d : Matches(n, d)' <=> Matches(n, d)
  BY <1>2, <1>4 DEF Matches
<1>14. AnnOK(r)'
  <2>1. ASSUME NEW n \in Range(snap'[r]), NEW d \in DOMAIN Defs',
               tickets'[n].area \in known', Matches(n, d)', Past(r, d)'
        PROVE  Told(n, d)'
    <3>1. n \in Range(snap[r]) /\ n \in DOMAIN tickets /\ tickets[n].area \in known /\ Matches(n, d)
      BY <1>1, <1>2, <1>13, <2>1 DEF RunOK, Range
    <3>2. CASE Past(r, d)
      <4>1. Told(n, d)
        BY <1>1, <1>4, <3>1, <3>2 DEF AnnOK
      <4> QED
        BY <1>4, <1>10, <3>1, <4>1
    <3>3. CASE d = e
      <4>1. n \in In
        BY <1>5, <3>1, <3>3 DEF ToPost, Matches
      <4> QED
        BY <1>11, <3>3, <4>1
    <3> QED
      BY <1>4, <1>12, <2>1, <3>2, <3>3
  <2>2. ASSUME NEW n \in marked'[r]
        PROVE  tickets'[n].area \in known' /\ \E d \in DOMAIN Defs' : Matches(n, d)'
    <3>1. CASE n \in marked[r]
      BY <1>1, <1>2, <1>4, <1>13, <3>1 DEF AnnOK
    <3>2. CASE n \in In
      <4>1. tickets[n].area \in known /\ Matches(n, e)
        BY <1>5, <3>2 DEF ToPost, Matches
      <4> QED
        BY <1>2, <1>4, <1>13, <4>1
    <3> QED
      BY <1>3, <2>2, <3>1, <3>2
  <2>3. pc'[r] = "posted" => PostedOK(message'[r], snap'[r], tickets', known', Defs'[def'[r]])
    BY <1>2, <1>3, <1>4, <1>5
  <2> QED
    BY <2>1, <2>2, <2>3 DEF AnnOK
<1>15. OnceOK'
  <2> SUFFICES ASSUME setup'.lock # "none", faults' = 0
               PROVE  /\ \A n \in 1 .. setup.limit, d \in DOMAIN Defs : Once(n, d)'
                      /\ \A q \in Runs : Fresh(q)'
    BY <1>2, <1>4 DEF OnceOK
  <2>1. faults = 0 /\ setup.lock # "none"
    BY <1>1, <1>2, <1>8 DEF ConfigOK
  <2>2. /\ \A n \in 1 .. setup.limit, d \in DOMAIN Defs : Once(n, d)
        /\ \A q \in Runs : Fresh(q)
    BY <2>1 DEF AInv, OnceOK
  <2>3. ASSUME NEW q \in Runs \ {r} PROVE marked[q] = {}
    <3>1. pc[q] = "idle" /\ RunOK(q)
      BY <1>2, <2>1 DEF Alone, TInv
    <3>2. snap[q] = <<>> /\ DOMAIN snap[q] = {}
      BY <3>1 DEF RunOK, PostingSteps
    <3> QED
      BY <3>1, <3>2 DEF RunOK, Range
  <2>4. ASSUME NEW n, NEW d \in DOMAIN Defs, InHand(n, d) PROVE InHand(n, d)'
    <3>1. n \in marked[r] /\ Past(r, d)
      BY <2>3, <2>4 DEF InHand
    <3>2. n \in marked'[r] /\ Past(r, d)'
      BY <1>3, <1>12, <3>1
    <3> QED
      BY <3>2 DEF InHand
  <2>5. ASSUME NEW n \in 1 .. setup.limit, NEW d \in DOMAIN Defs PROVE Once(n, d)'
    <3>1. Once(n, d) /\ posted[n][d] \in 0 .. 2
      BY <1>7, <2>2
    <3>2. CASE posted'[n][d] = posted[n][d]
      BY <1>2, <2>4, <3>1, <3>2 DEF Once
    <3>3. CASE n \in In /\ d = e
      <4>1. report[n] = "saved"
        BY <1>2, <1>6, <2>2, <3>3 DEF Fresh
      <4>2. ~InHand(n, e)
        <5>1. ~Past(r, e)
          BY <1>2, <1>4 DEF Past
        <5> QED
          BY <2>3, <5>1 DEF InHand
      <4>3. posted[n][d] = 0
        BY <3>1, <3>3, <4>1, <4>2 DEF Once
      <4>4. posted'[n][d] \in {0, 1}
        BY <1>9, <4>3
      <4>5. InHand(n, d)'
        <5>1. n \in marked'[r] /\ Past(r, d)'
          BY <1>2, <1>3, <1>12, <3>3
        <5> QED
          BY <5>1 DEF InHand
      <4> QED
        BY <4>4, <4>5 DEF Once
    <3> QED
      BY <1>9, <3>2, <3>3
  <2>6. ASSUME NEW q \in Runs PROVE Fresh(q)'
    BY <1>2, <1>4, <2>2 DEF Fresh
  <2> QED
    BY <2>5, <2>6
<1> QED
  BY <1>1, <1>2, <1>10, <1>14, <1>15, AnnStep

LEMMA AnnStepOf ==
  ASSUME Core, AInv, TInv', NEW r \in Runs, StepOf(r)
  PROVE  AInv'
<1> USE DEF Core
<1>1. CASE \/ Toss(r) \/ EndToss(r) \/ (\E n \in todo[r] : TossOne(r, n)) \/ Save(r) \/ Fill(r)
           \/ Copy(r) \/ Move(r) \/ Add(r) \/ Stored(r) \/ FileList(r)
           \/ (\E f \in todo[r] : ListOne(r, f)) \/ Collect(r) \/ TidyCopy(r) \/ TidyMove(r)
           \/ Listed(r) \/ EndList(r) \/ End(r)
           \/ (\E commands \in setup.commands : Start(r, commands))
  BY <1>1, QuietStepsAnn
<1>2. CASE \E f \in Files, h \in setup.hatches : Hatch(r, f, h)
  BY <1>2, HatchAnn
<1>3. CASE Announce(r)
  BY <1>3, AnnounceAnn
<1>4. CASE Post(r)
  BY <1>4, PostAnn
<1>5. CASE NextDef(r)
  BY <1>5, NextDefAnn
<1>6. CASE Free(r)
  BY <1>6, FreeAnn
<1>7. CASE Crash(r)
  BY <1>7, CrashAnn
<1> QED
  BY <1>1, <1>2, <1>3, <1>4, <1>5, <1>6, <1>7 DEF StepOf, Step

LEMMA AnnNext ==
  ASSUME Core, AInv, [Next]_vars
  PROVE  AInv'
<1>1. TInv'
  BY CoreStep DEF Core
<1>2. CASE Next
  <2>1. CASE \E r \in Runs : StepOf(r)
    BY <1>1, <2>1, AnnStepOf
  <2>2. CASE \E t \in setup.tickets : Arrive(t)
    BY <1>1, <2>2, ArriveAnn DEF Core
  <2>3. CASE Outside
    BY <1>1, <2>3, OutsideAnn DEF Core
  <2> QED
    BY <1>2, <2>1, <2>2, <2>3, NextIs
<1>3. CASE UNCHANGED vars
  <2> USE <1>3 DEF vars, world, texts, spools, tossing, listing, posting
  <2>1. TInv /\ SInv /\ \A q \in Runs : pc'[q] = pc[q]
    BY DEF Core
  <2>2. Grown
    BY <2>1 DEF Grown, TInv, Types, SpoolOK
  <2> QED
    BY <1>1, <2>1, <2>2, QuietAnn
<1> QED
  BY <1>2, <1>3

LEMMA AnnInit ==
  ASSUME Init
  PROVE  AInv
<1>1. setup \in Setups
  BY DEF Init
<1>2. DOMAIN tickets = {}
  BY DEF Init
<1>3. ASSUME NEW r \in Runs
      PROVE  /\ snap[r] = <<>> /\ DOMAIN snap[r] = {} /\ marked[r] = {} /\ pc[r] = "idle"
             /\ def[r] = 0
  BY DEF Init
<1>4. \A r \in Runs : AnnOK(r)
  BY <1>3 DEF AnnOK, Range
<1>5. \A n \in 1 .. setup.limit, d \in DOMAIN Defs : posted[n][d] = 0
  BY DEF Init
<1>6. OnceOK
  BY <1>3, <1>5 DEF OnceOK, Once, Fresh, Range
<1> QED
  BY <1>2, <1>4, <1>6 DEF AInv

LEMMA AnnHolds == Spec => [](Core /\ AInv)
<1>1. Init => Core /\ AInv
  BY CoreInit, AnnInit
<1>2. Core /\ AInv /\ [Next]_vars => (Core /\ AInv)'
  BY CoreStep, AnnNext
<1> QED
  BY <1>1, <1>2, PTL DEF Spec

(* Whatever runs meet in the spool, and even if they die, report.c removes *)
(* a ticket from it only after every definition that its area matches has  *)
(* announced it, or could not open the file of its report.                 *)
THEOREM NoneUnannounced == Spec => []NothingUnannounced
<1>1. AInv => NothingUnannounced
  <2> SUFFICES ASSUME AInv, NEW n \in DOMAIN tickets, report[n] = "gone",
                      NEW M, M = {d \in DOMAIN Defs : IsAreaMatched(tickets[n].area, Defs[d])}
               PROVE  /\ M # {}
                      /\ \A d \in M : posted[n][d] > 0 \/ (Defs[d].toFile /\ n \in unwritten)
    BY DEF NothingUnannounced
  <2>1. Announced(n)
    BY DEF AInv, GoneOK
  <2> QED
    BY <2>1 DEF Announced, Matches, Told
<1> QED
  BY <1>1, AnnHolds, PTL

(* Every message that report.c posts lists the tickets of the spool that   *)
(* match its definition, each once, with the sums of their sizes, Word - 1 *)
(* for that of an empty file, whose ticket has no size; and a ticket is    *)
(* posted again only by a run without a lock or after one has died.        *)
THEOREM ReportsAreRight == Spec => []PostedRight
<1>1. TInv /\ AInv => PostedRight
  <2> SUFFICES ASSUME TInv, AInv PROVE PostedRight
    OBVIOUS
  <2>1. \A r \in Runs : pc[r] = "posted" => PostedOK(message[r], snap[r], tickets, known, Defs[def[r]])
    BY DEF AInv, AnnOK
  <2>2. ASSUME NEW n \in DOMAIN tickets, NEW d \in DOMAIN Defs, posted[n][d] > 1
        PROVE  faults > 0 \/ setup.lock = "none"
    <3>1. n \in 1 .. setup.limit /\ faults \in Nat
      BY InTickets DEF TInv, Types, ConfigOK
    <3>2. posted[n][d] \in Int
      BY <3>1 DEF TInv, Types, SpoolOK
    <3> QED
      BY <2>2, <3>1, <3>2 DEF AInv, OnceOK, Once
  <2> QED
    BY <2>1, <2>2, ZenonT(60) DEF PostedRight, PostedOK, PartSays, InAreaOf, EmptyOf, SumOf, AreasOf
<1> QED
  BY <1>1, AnnHolds, PTL DEF Core

-----------------------------------------------------------------------------
(* files.bbs and the file list, when runs exclude each other. *)

Locked == setup.lock # "none"

Adding(f) == \E r \in Runs : pc[r] = "add" /\ tickets[now[r]].file = f

Kept(f) ==
  /\ Entries(bbs, f) # {}
  /\ ~MayLoseLines(told[f]) =>
       Shown(setup.mark, GetDesc(bbs, f)) = Shown(setup.mark, told[f])

FileOK(f) == Unique(bbs, f) /\ (told[f] # Unclear /\ ~Adding(f) => Kept(f))

\* A description that says what was said before.
Again(t) ==
  /\ Described(t) # <<>>
  /\ ~MayLoseLines(told[t.file]) =>
       Shown(setup.mark, Described(t)) = Shown(setup.mark, told[t.file])

BbsOK(r) ==
  /\ pc[r] = "move" => tmp = [exists |-> TRUE, lines |-> RemoveDesc(bbs, tickets[now[r]].file)]
  /\ pc[r] = "tidied" => tmp = [exists |-> TRUE, lines |-> RemoveDesc(bbs, Head(gone[r]))]
  /\ pc[r] = "add" => Entries(bbs, tickets[now[r]].file) = {}
  /\ pc[r] \in StoringSteps =>
       ((/\ tickets[now[r]].area = Home /\ tickets[now[r]].again
         /\ told[tickets[now[r]].file] # Unclear) => Again(tickets[now[r]]))

Total(R) == SumFunction(On(Size, R))
SameDesc(e) ==
  \/ MayLoseLines(e.desc)
  \/ Shown(setup.mark, GetDesc(bbs, e.file)) = Shown(setup.mark, e.desc)

EntriesOK(entries, size, done) ==
  /\ {e.file : e \in entries} = done
  /\ Bytes(size) = Total(done)
  /\ done \ {Tmp} \subseteq NamedIn(bbs)
  /\ \A e \in entries : e.file # Tmp => SameDesc(e)

DoneOf(r) == {e.file : e \in list[r].entries}

\* The files listed and those left are the files of the directory, and
\* files.bbs.tmp after a crash.
Covers(done, left) ==
  /\ done \ {Tmp} = dir \ left /\ done \cap left = {}
  /\ Tmp \in done \cup left => faults > 0

TreeOK(r) ==
  \A f \in todo[r] :
    /\ f \in DOMAIN tree[r] <=> f \in NamedIn(bbs)
    /\ f \in DOMAIN tree[r] => tree[r][f] = GetDesc(bbs, f)

ListOK(r) ==
  /\ pc[r] \in ListingSteps =>
       /\ EntriesOK(list[r].entries, list[r].size, DoneOf(r))
       /\ Covers(DoneOf(r), todo[r])
  /\ pc[r] = "list" => TreeOK(r)
  /\ pc[r] \in {"tidy", "tidied", "listed"} =>
       NamedIn(bbs) \ (dir \cup {Tmp}) \subseteq Range(gone[r]) /\ Range(gone[r]) \cap dir = {}
  /\ pc[r] = "listed" => gone[r] = <<>>

\* Only a crash leaves a files.bbs.tmp that filelist finds, and enters.
TmpOK ==
  /\ tmp.exists => faults > 0 \/ \E r \in Runs : pc[r] \in {"move", "tidied"}
  /\ Tmp \in NamedIn(bbs) => faults > 0

(* Inductive with Core.  With a lock: files.bbs.tmp is files.bbs without   *)
(* the entry that is rewritten, or is left from a crash; between removal   *)
(* and addition the file has no entry; what filelist has read and listed   *)
(* so far is what files.bbs says; and every file outside a rewriting has   *)
(* its one entry and description.                                          *)
DInv ==
  /\ \A n \in inbox : ~tickets[n].again
  /\ Locked => /\ \A r \in Runs : BbsOK(r) /\ ListOK(r)
               /\ TmpOK /\ \A f \in Files : FileOK(f)

LEMMA FilesFinite == IsFiniteSet(Files)
<1>1. FileOrder \in Seq(Files) /\ Range(FileOrder) = Files
  BY CatalogAssumption
<1> PICK n : n = Len(FileOrder)
  OBVIOUS
<1>2. n \in Nat /\ DOMAIN FileOrder = 1 .. n
  BY <1>1
<1>3. IsFiniteSet(1 .. n)
  BY <1>2, FS_Interval
<1>4. FileOrder \in Surjection(1 .. n, Files)
  <2>1. FileOrder \in [1 .. n -> Files]
    BY <1>1, <1>2
  <2> QED
    BY <1>1, <1>2, <2>1 DEF Surjection, Range
<1> QED
  BY <1>3, <1>4, FS_Surjection

LEMMA TotalMore ==
  ASSUME NEW R \in SUBSET Files, NEW f \in R
  PROVE  Total(R) = Size[f] + Total(R \ {f}) /\ Total({}) = 0 /\ Total(R \ {f}) \in Nat
<1>1. \A g \in Files : Size[g] \in Nat
  BY CatalogAssumption
<1>2. PICK g : IsSum(g, Files, Size)
  BY <1>1, FilesFinite, SumExists
<1>3. Total(R) = g[R]
  BY <1>2, FilesFinite, SumIs DEF Total
<1>4. Total(R \ {f}) = g[R \ {f}]
  <2> PICK S \in SUBSET Files : S = R \ {f}
    OBVIOUS
  <2>1. Total(S) = g[S]
    BY <1>2, FilesFinite, SumIs DEF Total
  <2> QED
    BY <2>1
<1>5. Total({}) = g[{}]
  <2> PICK S \in SUBSET Files : S = {}
    OBVIOUS
  <2>1. Total(S) = g[S]
    BY <1>2, FilesFinite, SumIs DEF Total
  <2> QED
    BY <2>1
<1> QED
  BY <1>2, <1>3, <1>4, <1>5 DEF IsSum

LEMMA SameShown ==
  ASSUME NEW mark, NEW a, NEW b, Written(mark, a) = Written(mark, b)
  PROVE  Shown(mark, a) = Shown(mark, b)
<1>1. CASE mark = "blank"
  BY <1>1 DEF Shown
<1>2. CASE mark # "blank"
  <2>1. Written(mark, a) = a /\ Written(mark, b) = b
    BY <1>2, Zenon DEF Written
  <2>2. a = b
    BY <2>1
  <2> QED
    BY <2>2
<1> QED
  BY <1>1, <1>2

\* What is said of g does not begin a line with a name.
LEMMA ShownSafe ==
  ASSUME TInv, NEW g, NEW d \in Seq(Texts),
         Shown(setup.mark, GetDesc(bbs, g)) = Shown(setup.mark, d),
         ~MayLoseLines(d), NEW file \in Files
  PROVE  Safe(bbs, g, setup.mark, file)
<1> SUFFICES ASSUME setup.mark = "blank", NEW k \in DOMAIN GetDesc(bbs, g), k > 1
             PROVE  FirstWord[GetDesc(bbs, g)[k]] # file
  BY DEF Safe
<1> PICK e : e = GetDesc(bbs, g)
  OBVIOUS
<1>1. e \in Seq(Texts)
  BY LinesAre, GetDescType DEF TInv, Types, ConfigOK, TextsOK
<1>2. Written("blank", e) = Written("blank", d)
  BY DEF Shown
<1>3. Range(e) \ {NoText} = Range(d) \ {NoText}
  BY <1>1, <1>2, WrittenTexts
<1>4. e[k] \in Range(e)
  BY DEF Range
<1>5. ASSUME e[k] # NoText PROVE \E i \in DOMAIN d : d[i] = e[k]
  <2>1. e[k] \in Range(d)
    BY <1>3, <1>4, <1>5
  <2> PICK text : text = e[k]
    OBVIOUS
  <2>2. text \in Range(d)
    BY <2>1
  <2> QED
    BY <2>2 DEF Range
<1>6. FirstWord[e[k]] = NoName
  <2>1. CASE e[k] = NoText
    BY <2>1, DescriptionsAssumption
  <2>2. CASE e[k] # NoText
    BY <1>5, <2>2 DEF MayLoseLines
  <2> QED
    BY <2>1, <2>2
<1> QED
  BY <1>6, DescriptionsAssumption

\* With a lock, the other runs are idle.
LEMMA OthersIdle ==
  ASSUME TInv, Alone, Locked, NEW r \in Runs, StepOf(r), NEW q \in Runs \ {r}
  PROVE  pc[q] = "idle" /\ pc'[q] = "idle"
<1>1. RunsOK /\ Others(r)
  BY OthersSame DEF TInv, Types
<1>2. pc[q] = "idle"
  <2>1. CASE pc[r] # "idle"
    BY <2>1 DEF Alone, Locked
  <2>2. CASE \E commands \in setup.commands : Start(r, commands)
    <3>1. ~lock
      BY <2>2 DEF Start
    <3> QED
      BY <3>1 DEF Alone, Locked
  <2>3. Step(r) \/ Crash(r) => pc[r] # "idle"
    BY <1>1, StepsActive DEF Crash
  <2> QED
    BY <2>1, <2>2, <2>3 DEF StepOf
<1> QED
  BY <1>1, <1>2 DEF Others, Same

\* So it is enough to look at the run that takes a step.
LEMMA DStep ==
  ASSUME TInv, Alone, DInv, NEW r \in Runs, StepOf(r), setup' = setup,
         \A n \in inbox' : ~tickets'[n].again,
         Locked => BbsOK(r)' /\ ListOK(r)' /\ TmpOK' /\ \A f \in Files : FileOK(f)'
  PROVE  DInv'
<1> SUFFICES ASSUME Locked PROVE \A q \in Runs : BbsOK(q)' /\ ListOK(q)'
  BY DEF DInv, Locked
<1>1. ASSUME NEW q \in Runs \ {r} PROVE BbsOK(q)' /\ ListOK(q)'
  <2>1. pc'[q] = "idle"
    BY OthersIdle
  <2> QED
    BY <2>1 DEF BbsOK, ListOK, StoringSteps, ListingSteps
<1> QED
  BY <1>1

\* A step that leaves the descriptions alone.
LEMMA QuietFiles ==
  ASSUME TInv, Alone, DInv, Locked, NEW r \in Runs, StepOf(r), bbs' = bbs, told' = told, setup' = setup,
         pc[r] # "add"
  PROVE  \A f \in Files : FileOK(f)'
<1> SUFFICES ASSUME NEW f \in Files PROVE FileOK(f)'
  OBVIOUS
<1>1. FileOK(f)
  BY DEF DInv
<1>2. ~Adding(f)
  BY OthersIdle DEF Adding
<1>3. Kept(f)' <=> Kept(f)
  BY DEF Kept, MayLoseLines
<1> QED
  BY <1>1, <1>2, <1>3 DEF FileOK

LEMMA FaultsStay ==
  ASSUME TInv, NEW r \in Runs, StepOf(r)
  PROVE  /\ faults > 0 => faults' > 0
         /\ Crash(r) => faults' > 0
<1>1. faults \in Nat
  BY CatalogAssumption, SMTT(60) DEF TInv, Types, ConfigOK
<1>2. faults' = faults \/ faults' = faults + 1
  BY DEF StepOf, Step, Toss, EndToss, TossOne, Hatch, Save, Fill, Copy, Move, Add, Stored, FileList,
         ListOne, Collect, TidyCopy, TidyMove, Listed, EndList, Announce, Post, NextDef, Free,
         End, Crash, Start
<1>3. Crash(r) => faults' = faults + 1
  BY DEF Crash
<1> QED
  BY <1>1, <1>2, <1>3

\* A step that leaves files.bbs.tmp alone, and enters it only after a crash.
LEMMA QuietTmp ==
  ASSUME TInv, Alone, DInv, Locked, NEW r \in Runs, StepOf(r), tmp' = tmp,
         pc[r] \notin {"move", "tidied"} \/ Crash(r),
         Tmp \in NamedIn(bbs') => Tmp \in NamedIn(bbs) \/ faults > 0
  PROVE  TmpOK'
<1>1. TmpOK /\ (faults > 0 => faults' > 0) /\ (Crash(r) => faults' > 0)
  BY FaultsStay DEF DInv
<1>2. ASSUME tmp.exists, ~Crash(r) PROVE faults > 0
  <2>1. \A q \in Runs : pc[q] \notin {"move", "tidied"}
    BY <1>2, OthersIdle
  <2> QED
    BY <1>1, <1>2, <2>1 DEF TmpOK
<1> QED
  BY <1>1, <1>2 DEF TmpOK

LEMMA NoTicketAgain ==
  ASSUME TInv, DInv, NEW r \in Runs, StepOf(r)
  PROVE  setup' = setup /\ \A n \in inbox' : ~tickets'[n].again
<1> USE DEF world
<1>1. ASSUME NEW f \in Files, NEW h \in setup.hatches, Hatch(r, f, h)
      PROVE  setup' = setup /\ \A n \in inbox' : ~tickets'[n].again
  <2>1. setup' = setup /\ inbox' = inbox /\ (tickets' = tickets \/ \E t : tickets' = Append(tickets, t))
    BY <1>1 DEF Hatch
  <2>2. tickets \in Seq(TicketType) /\ \A n \in inbox : n \in 1 .. Len(tickets)
    BY InTickets DEF TInv, Types, SpoolOK
  <2>3. \A n \in inbox : tickets'[n] = tickets[n]
    <3> SUFFICES ASSUME NEW t, tickets' = Append(tickets, t), NEW n \in 1 .. Len(tickets)
                 PROVE  tickets'[n] = tickets[n]
      BY <2>1, <2>2
    <3> QED
      BY <2>2
  <2> QED
    BY <2>1, <2>3 DEF DInv
<1>2. CASE ~\E f \in Files, h \in setup.hatches : Hatch(r, f, h)
  <2>1. setup' = setup /\ inbox' \subseteq inbox /\ tickets' = tickets
    BY <1>2 DEF StepOf, Step, Toss, EndToss, TossOne, Save, Fill, Copy, Move, Add, Stored, FileList,
                ListOne, Collect, TidyCopy, TidyMove, Listed, EndList, Announce, Post, NextDef, Free,
                End, Crash, Start
  <2> QED
    BY <2>1, SMTT(60) DEF DInv
<1> QED
  BY <1>1, <1>2

\* Steps that lead neither to files.bbs nor to the list.
LEMMA PlainSteps ==
  ASSUME TInv, Alone, DInv, NEW r \in Runs,
         \/ Toss(r) \/ EndToss(r) \/ Stored(r) \/ EndList(r) \/ Announce(r) \/ Post(r) \/ NextDef(r)
         \/ Free(r) \/ End(r) \/ (\E commands \in setup.commands : Start(r, commands))
  PROVE  DInv'
<1>1. StepOf(r) /\ RunsOK
  BY DEF StepOf, Step, TInv, Types
<1>2. bbs' = bbs /\ told' = told /\ tmp' = tmp
  BY DEF texts, Toss, EndToss, Stored, EndList, Announce, Post, NextDef, Free, End, Start
<1>3. /\ pc[r] \notin {"add", "move", "tidied"} /\ pc'[r] \notin StoringSteps \cup ListingSteps
  BY <1>1 DEF RunsOK, Goto, After, StoringSteps, ListingSteps,
              Toss, EndToss, Stored, EndList, Announce, Post, NextDef, Free, End, Start
<1>4. BbsOK(r)' /\ ListOK(r)'
  BY <1>3 DEF BbsOK, ListOK, StoringSteps, ListingSteps
<1> QED
  BY <1>1, <1>2, <1>3, <1>4, NoTicketAgain, QuietFiles, QuietTmp, DStep

\* Steps of a run that stores a file, up to the rewriting of files.bbs.
LEMMA StoringStepsOK ==
  ASSUME TInv, Alone, DInv, NEW r \in Runs, Save(r) \/ Fill(r) \/ Copy(r)
  PROVE  DInv'
<1>1. StepOf(r) /\ RunsOK /\ pc[r] \in {"save", "fill", "copy"}
  BY DEF StepOf, Step, TInv, Types, Save, Fill, Copy
<1>2. bbs' = bbs /\ told' = told /\ tickets' = tickets /\ now' = now
  BY DEF texts, world, tossing, Save, Fill, Copy, CopyOf
<1>3. /\ pc[r] # "add" /\ pc'[r] \in {"fill", "copy", "stored", "move"}
      /\ pc'[r] = "move" => tmp' = [exists |-> TRUE, lines |-> RemoveDesc(bbs, tickets[now[r]].file)]
  BY <1>1 DEF RunsOK, Goto, Save, Fill, Copy, CopyOf
<1>4. setup' = setup
  BY <1>1, NoTicketAgain
<1>5. Locked => BbsOK(r)'
  <2> SUFFICES ASSUME Locked PROVE BbsOK(r)'
    OBVIOUS
  <2>1. BbsOK(r)
    BY DEF DInv
  <2> QED
    BY <1>1, <1>2, <1>3, <1>4, <2>1 DEF BbsOK, StoringSteps, Again, MayLoseLines
<1>6. ListOK(r)'
  BY <1>3 DEF ListOK, ListingSteps
<1>7. Locked => TmpOK'
  <2>1. CASE Save(r) \/ Fill(r)
    <3>1. tmp' = tmp
      BY <2>1 DEF texts, Save, Fill
    <3> QED
      BY <1>1, <1>2, <3>1, QuietTmp
  <2>2. CASE Copy(r)
    <3>1. pc'[r] = "move"
      BY <1>1, <2>2 DEF Copy, Goto, RunsOK
    <3> QED
      BY <1>1, <1>2, <3>1, FaultsStay DEF DInv, TmpOK
  <2> QED
    BY <2>1, <2>2
<1> QED
  BY <1>1, <1>2, <1>3, <1>4, <1>5, <1>6, <1>7, NoTicketAgain, QuietFiles, DStep

LEMMA TossOneOK ==
  ASSUME TInv, Alone, DInv, NEW r \in Runs, NEW n \in todo[r], TossOne(r, n)
  PROVE  DInv'
<1>1. StepOf(r) /\ RunsOK /\ pc[r] = "toss"
  BY DEF StepOf, Step, TInv, Types, TossOne
<1>2. bbs' = bbs /\ told' = told /\ tmp' = tmp /\ tickets' = tickets
  BY DEF texts, TossOne
<1>3. \/ pc'[r] = "toss"
      \/ n \in inbox /\ now'[r] = n /\ pc'[r] \in {"save", "copy", "stored"}
  <2>1. CASE n \in inbox
    <3>1. Put(r, n)
      BY <2>1 DEF TossOne
    <3>2. DOMAIN now = Runs /\ DOMAIN pc = Runs
      BY <1>1 DEF RunsOK
    <3> QED
      BY <2>1, <3>1, <3>2 DEF Put, Goto
  <2>2. CASE n \notin inbox
    BY <1>1, <2>2 DEF TossOne
  <2> QED
    BY <2>1, <2>2
<1>4. pc'[r] \in {"save", "copy"} => ~tickets'[now'[r]].again
  BY <1>2, <1>3 DEF DInv
<1>5. BbsOK(r)' /\ ListOK(r)'
  BY <1>3, <1>4 DEF BbsOK, ListOK, StoringSteps, ListingSteps
<1> QED
  BY <1>1, <1>2, <1>5, NoTicketAgain, QuietFiles, QuietTmp, DStep

\* A file that is hatched with the description it has.
LEMMA HatchOK ==
  ASSUME TInv, Alone, DInv, NEW r \in Runs, NEW f \in Files, NEW h \in setup.hatches, Hatch(r, f, h)
  PROVE  DInv'
<1> USE DEF world, texts, spools, tossing, listing, posting
<1>1. StepOf(r) /\ RunsOK /\ ConfigOK /\ TextsOK /\ SpoolOK /\ pc[r] = "main"
  BY DEF StepOf, Step, TInv, Types, Hatch
<1>2. bbs' = bbs /\ told' = told /\ tmp' = tmp /\ setup' = setup
  BY DEF Hatch
<1>3. CASE f \in dir /\ Len(tickets) < setup.limit
  <2> PICK found : found = GetDesc(bbs, f)
    OBVIOUS
  <2> PICK t : t = Hatched(f, h, found)
    OBVIOUS
  <2>1. h \in HatchType /\ found \in Seq(Texts) /\ (found # <<>> <=> Entries(bbs, f) # {})
    BY <1>1, SetupIs, LinesAre, GetDescType DEF ConfigOK, TextsOK
  <2>2. t \in TicketType /\ t.file = f /\ (t.again /\ found # <<>> => Described(t) = found)
    <3>1. f # Tmp
      BY <1>1, <1>3 DEF TextsOK
    <3> QED
      BY <2>1, <3>1, HatchedType
  <2>3. tickets' = Append(tickets, t)
    BY <1>3 DEF Hatched, Hatch
  <2> PICK n : n = Len(tickets')
    OBVIOUS
  <2>4. tickets'[n] = t
    BY <1>1, <1>2, <1>3, <2>2, <2>3, OneMoreArrived DEF ConfigOK
  <2>5. now'[r] = n /\ pc'[r] \in {"save", "copy", "stored"}
    <3>1. Put(r, n)
      BY <1>3 DEF Hatch
    <3>2. DOMAIN now = Runs /\ DOMAIN pc = Runs
      BY <1>1 DEF RunsOK
    <3> QED
      BY <3>1, <3>2 DEF Put, Goto
  <2>6. ASSUME Locked, t.again, told[f] # Unclear PROVE Again(t)
    <3>1. FileOK(f)
      BY <2>6 DEF DInv
    <3>2. ~Adding(f)
      BY <1>1, <2>6, OthersIdle DEF Adding
    <3>3. Kept(f)
      BY <2>6, <3>1, <3>2 DEF FileOK
    <3>4. found # <<>> /\ Described(t) = found
      BY <2>1, <2>2, <2>6, <3>3 DEF Kept
    <3> QED
      BY <2>2, <3>3, <3>4 DEF Again, Kept
  <2>7. ListOK(r)'
    BY <2>5 DEF ListOK, ListingSteps
  <2>8. Locked => BbsOK(r)'
    BY <1>2, <2>2, <2>4, <2>5, <2>6 DEF BbsOK, StoringSteps, Again, MayLoseLines
  <2> QED
    BY <1>1, <1>2, <2>7, <2>8, NoTicketAgain, QuietFiles, QuietTmp, DStep
<1>4. CASE ~(f \in dir /\ Len(tickets) < setup.limit)
  <2>1. pc'[r] = "stored"
    BY <1>1, <1>4 DEF Hatch, Goto, RunsOK
  <2>2. BbsOK(r)' /\ ListOK(r)'
    BY <2>1 DEF BbsOK, ListOK, StoringSteps, ListingSteps
  <2> QED
    BY <1>1, <1>2, <2>2, NoTicketAgain, QuietFiles, QuietTmp, DStep
<1> QED
  BY <1>3, <1>4

\* The lines that are kept are moved over files.bbs.
LEMMA MoveOK ==
  ASSUME TInv, Alone, DInv, NEW r \in Runs, Move(r)
  PROVE  DInv'
<1>1. StepOf(r) /\ RunsOK /\ ConfigOK /\ TextsOK /\ SpoolOK /\ RunOK(r) /\ pc[r] = "move"
  BY DEF StepOf, Step, TInv, Types, Move
<1>2. /\ told' = told /\ tickets' = tickets /\ now' = now /\ pc'[r] = "add"
      /\ bbs' = IF tmp.exists THEN tmp.lines ELSE bbs
      /\ ~tmp'.exists
  BY <1>1, NoListType DEF world, tossing, Move, MoveOver, Goto, RunsOK
<1>3. setup' = setup
  BY <1>1, NoTicketAgain
<1> PICK file : file = tickets[now[r]].file
  OBVIOUS
<1>4. file \in Files
  BY <1>1, TicketTexts DEF RunOK, StoringSteps, SpoolOK
<1>5. ListOK(r)'
  BY <1>2 DEF ListOK, ListingSteps
<1>6. ASSUME Locked PROVE BbsOK(r)' /\ TmpOK' /\ \A f \in Files : FileOK(f)'
  <2>1. BbsOK(r)
    BY <1>6 DEF DInv
  <2>2. bbs' = RemoveDesc(bbs, file)
    BY <1>1, <1>2, <2>1 DEF BbsOK
  <2>3. setup.mark \in Marks /\ bbs \in Seq(BbsOf(setup.mark))
    BY <1>1, SetupIs DEF ConfigOK, TextsOK, BbsLine
  <2>4. Removed(bbs', bbs, setup.mark, file)
    BY <1>4, <2>2, <2>3, RemovedIs, SMTT(60)
  <2>5. BbsOK(r)'
    BY <1>1, <1>2, <1>3, <2>1, <2>4 DEF Removed, BbsOK, StoringSteps, Again, MayLoseLines
  <2>6. ASSUME NEW f \in Files PROVE FileOK(f)'
    <3>1. FileOK(f)
      BY <1>6 DEF DInv
    <3>2. CASE f = file
      BY <1>2, <2>4, <3>2 DEF Removed, FileOK, Unique, Adding
    <3>3. CASE f # file
      <4>1. Unique(bbs, f)'
        BY <2>4, <3>1, <3>3 DEF Removed, FileOK, Unique
      <4>2. ASSUME told[f] # Unclear PROVE Kept(f)'
        <5>1. ~Adding(f)
          BY <1>1, <1>6, OthersIdle DEF Adding
        <5>2. Kept(f)
          BY <3>1, <4>2, <5>1 DEF FileOK
        <5>3. ASSUME ~MayLoseLines(told[f])
              PROVE  Shown(setup.mark, GetDesc(bbs', f)) = Shown(setup.mark, told[f])
          <6>1. told[f] \in Seq(Texts)
            BY <1>1 DEF TextsOK
          <6>2. Shown(setup.mark, GetDesc(bbs, f)) = Shown(setup.mark, told[f])
            BY <5>2, <5>3 DEF Kept
          <6>3. Safe(bbs, f, setup.mark, file)
            BY <1>4, <5>3, <6>1, <6>2, ShownSafe
          <6>4. Written(setup.mark, GetDesc(bbs', f)) = Written(setup.mark, GetDesc(bbs, f))
            BY <2>4, <3>3, <6>3 DEF Removed
          <6>5. Shown(setup.mark, GetDesc(bbs', f)) = Shown(setup.mark, GetDesc(bbs, f))
            <7> PICK a : a = GetDesc(bbs', f)
              OBVIOUS
            <7> PICK mark : mark = setup.mark
              OBVIOUS
            <7> QED
              BY <6>4, SameShown
          <6> QED
            BY <6>2, <6>5
        <5> QED
          BY <1>2, <1>3, <2>4, <3>3, <5>2, <5>3 DEF Removed, Kept, MayLoseLines
      <4> QED
        BY <1>2, <4>1, <4>2 DEF FileOK
    <3> QED
      BY <3>2, <3>3
  <2>7. TmpOK'
    <3>1. TmpOK /\ (faults > 0 => faults' > 0)
      BY <1>1, <1>6, FaultsStay DEF DInv
    <3>2. Tmp \in NamedIn(bbs') => Tmp \in NamedIn(bbs)
      BY <2>4 DEF NamedIn, Removed
    <3> QED
      BY <1>2, <3>1, <3>2 DEF TmpOK
  <2> QED
    BY <2>5, <2>6, <2>7
<1> QED
  BY <1>1, <1>3, <1>5, <1>6, NoTicketAgain, DStep

\* The description that was added is the one that is read.
LEMMA AddedShown ==
  ASSUME NEW s, NEW b, NEW mark, NEW file, NEW desc \in Seq(Texts), Added(s, b, mark, file, desc),
         desc # <<>>, Entries(b, file) = {}
  PROVE  Shown(mark, GetDesc(s, file)) = Shown(mark, desc)
<1>1. CASE GetDesc(s, file) = desc
  BY <1>1
<1>2. CASE desc[1] # NoText /\ GetDesc(s, file) = <<NoText>> \o desc
  <2> PICK d : d = <<NoText>> \o desc
    OBVIOUS
  <2>1. CASE mark = "blank"
    <3>1. Written("blank", d) = Written("blank", desc)
      BY WrittenPrefix
    <3> QED
      BY <1>2, <2>1, <3>1 DEF Shown
  <2>2. CASE mark # "blank"
    <3>1. NoText \in Texts
      BY DescriptionsAssumption
    <3>2. Len(desc) \in Nat /\ Len(desc) > 0
      OBVIOUS
    <3>3. /\ d \in Seq(Texts) /\ Len(d) = Len(desc) + 1 /\ d[1] = NoText
          /\ \A k \in 1 .. Len(desc) : d[k + 1] = desc[k]
      BY <3>1, <3>2
    <3>4. Shown(mark, d) = Tail(d)
      BY <2>2, <3>2, <3>3 DEF Shown
    <3>5. Shown(mark, desc) = desc
      BY <1>2, <2>2 DEF Shown
    <3>6. Tail(d) = desc
      <4>1. /\ Tail(d) \in Seq(Texts) /\ Len(Tail(d)) = Len(desc)
            /\ \A k \in 1 .. Len(desc) : Tail(d)[k] = d[k + 1]
        BY <3>2, <3>3
      <4> QED
        BY <3>3, <4>1
    <3> QED
      BY <1>2, <3>4, <3>5, <3>6
  <2> QED
    BY <2>1, <2>2
<1> QED
  BY <1>1, <1>2 DEF Added

LEMMA AddedNow ==
  ASSUME NEW file, NEW desc \in Seq(Texts), Added(bbs', bbs, setup.mark, file, desc),
         desc # <<>>, Entries(bbs, file) = {}
  PROVE  Shown(setup.mark, GetDesc(bbs', file)) = Shown(setup.mark, desc)
<1> PICK s : s = bbs'
  OBVIOUS
<1> PICK mark : mark = setup.mark
  OBVIOUS
<1> QED
  BY AddedShown

\* The files whose entries are not touched.
LEMMA OtherFiles ==
  ASSUME NEW file \in Files, NEW desc, Added(bbs', bbs, setup.mark, file, desc), setup' = setup,
         NEW f \in Files \ {file}, told'[f] = told[f], FileOK(f), ~Adding(f)
  PROVE  FileOK(f)'
<1>1. Entries(bbs', f) = Entries(bbs, f) /\ GetDesc(bbs', f) = GetDesc(bbs, f)
  BY DEF Added
<1>2. Unique(bbs, f)'
  BY <1>1 DEF FileOK, Unique
<1>3. Kept(f)' <=> Kept(f)
  BY <1>1 DEF Kept, MayLoseLines
<1> QED
  BY <1>2, <1>3 DEF FileOK

LEMMA AddOK ==
  ASSUME TInv, Alone, DInv, NEW r \in Runs, Add(r)
  PROVE  DInv'
<1>1. StepOf(r) /\ RunsOK /\ ConfigOK /\ TextsOK /\ SpoolOK /\ RunOK(r) /\ pc[r] = "add"
  BY DEF StepOf, Step, TInv, Types, Add
<1> PICK t : t = tickets[now[r]]
  OBVIOUS
<1> PICK desc : desc = Described(t)
  OBVIOUS
<1>2. /\ bbs' = AddDescription(bbs, t.file, desc, setup.mark) /\ pc'[r] = "stored"
      /\ told' = [told EXCEPT ![t.file] = IF t.again /\ @ # Unclear THEN @ ELSE desc]
      /\ tickets' = tickets /\ tmp' = tmp
  BY <1>1 DEF world, Add, Goto, RunsOK
<1>3. setup' = setup
  BY <1>1, NoTicketAgain
<1>4. t \in TicketType /\ t.file \in Files \ {Tmp} /\ desc \in Seq(Texts) /\ t.area = Home
  BY <1>1, TicketTexts, SMTT(60) DEF RunOK, StoringSteps, SpoolOK, HasDir
<1>5. BbsOK(r)' /\ ListOK(r)'
  BY <1>2 DEF BbsOK, ListOK, StoringSteps, ListingSteps
<1>6. ASSUME Locked, NEW f \in Files PROVE FileOK(f)'
  <2>1. BbsOK(r) /\ FileOK(f)
    BY <1>6 DEF DInv
  <2>2. setup.mark \in Marks /\ bbs \in Seq(BbsOf(setup.mark))
    BY <1>1, SetupIs DEF ConfigOK, TextsOK, BbsLine
  <2>3. Added(bbs', bbs, setup.mark, t.file, desc)
    BY <1>2, <1>4, <2>2, AddedIs
  <2>4. Entries(bbs, t.file) = {}
    BY <1>1, <2>1 DEF BbsOK
  <2>5. CASE f # t.file
    <3>1. ~Adding(f)
      BY <1>1, <1>6, <2>5, OthersIdle DEF Adding
    <3>2. told'[f] = told[f]
      BY <1>2, <2>5
    <3> QED
      BY <1>3, <1>4, <2>1, <2>3, <2>5, <3>1, <3>2, OtherFiles
  <2>6. CASE f = t.file /\ desc # <<>>
    <3>1. Entries(bbs', f) # {} /\ Unique(bbs', f)
      BY <2>3, <2>4, <2>6 DEF Added
    <3>2. Shown(setup.mark, GetDesc(bbs', f)) = Shown(setup.mark, desc)
      BY <1>4, <2>3, <2>4, <2>6, AddedNow
    <3>3. ASSUME ~MayLoseLines(told[f]), t.again, told[f] # Unclear
          PROVE  Shown(setup.mark, desc) = Shown(setup.mark, told[f])
      BY <1>1, <1>4, <2>1, <2>6, <3>3 DEF BbsOK, StoringSteps, Again
    <3>4. f \in DOMAIN told
      BY <1>1 DEF TextsOK
    <3>5. told'[f] = IF t.again /\ told[f] # Unclear THEN told[f] ELSE desc
      BY <1>2, <2>6, <3>4
    <3>6. Kept(f)'
      BY <1>3, <3>1, <3>2, <3>3, <3>5 DEF Kept, MayLoseLines
    <3> QED
      BY <3>1, <3>6 DEF FileOK, Unique
  <2>7. CASE f = t.file /\ desc = <<>>
    <3>1. bbs' = bbs
      BY <1>2, <2>7 DEF AddDescription
    <3>2. ~(t.again /\ told[f] # Unclear)
      BY <1>1, <1>4, <2>1, <2>7 DEF BbsOK, StoringSteps, Again
    <3>3. f \in DOMAIN told
      BY <1>1 DEF TextsOK
    <3>4. told'[f] = desc
      BY <1>2, <2>7, <3>2, <3>3
    <3>5. desc = Unclear
      BY <2>7 DEF Unclear
    <3> QED
      BY <2>1, <3>1, <3>4, <3>5 DEF FileOK, Unique
  <2> QED
    BY <2>5, <2>6, <2>7
<1>7. ASSUME Locked PROVE TmpOK'
  <2>1. setup.mark \in Marks /\ bbs \in Seq(BbsOf(setup.mark))
    BY <1>1, SetupIs DEF ConfigOK, TextsOK, BbsLine
  <2>2. Added(bbs', bbs, setup.mark, t.file, desc)
    BY <1>2, <1>4, <2>1, AddedIs
  <2>3. Tmp \in NamedIn(bbs') => Tmp \in NamedIn(bbs)
    BY <1>4, <2>2 DEF Added, NamedIn
  <2> QED
    BY <1>1, <1>2, <1>7, <2>3, QuietTmp
<1> QED
  BY <1>1, <1>3, <1>5, <1>6, <1>7, NoTicketAgain, DStep

LEMMA FileListOK ==
  ASSUME TInv, Alone, DInv, NEW r \in Runs, FileList(r)
  PROVE  DInv'
<1>1. StepOf(r) /\ RunsOK /\ ConfigOK /\ TextsOK /\ RunOK(r) /\ pc[r] = "main"
  BY DEF StepOf, Step, TInv, Types, FileList
<1>2. /\ bbs' = bbs /\ told' = told /\ dir' = dir /\ pc'[r] = "list" /\ list' = list
      /\ todo'[r] = Present /\ tree'[r] = ParseBBS(bbs) /\ tmp' = tmp /\ faults' = faults
  BY <1>1 DEF texts, world, FileList, Goto, RunsOK
<1>3. list[r] = NoList
  BY <1>1 DEF RunOK, ListingSteps
<1>4. BbsOK(r)'
  BY <1>2 DEF BbsOK, StoringSteps
<1>5. EntriesOK(list[r].entries, list[r].size, {})'
  <2>1. Total({}) = 0
    <3>1. CASE Files = {}
      <4>1. PICK g : IsSum(g, Files, Size)
        BY <3>1, FilesFinite, SumExists
      <4>2. {} \in SUBSET Files
        OBVIOUS
      <4>3. Total({}) = g[{}]
        BY <4>1, <4>2, FilesFinite, SumIs DEF Total
      <4> QED
        BY <4>1, <4>3 DEF IsSum
    <3>2. CASE Files # {}
      <4>1. PICK f \in Files : TRUE
        BY <3>2
      <4> QED
        BY <4>1, TotalMore
    <3> QED
      BY <3>1, <3>2
  <2>2. list'[r].entries = {} /\ Bytes(list'[r].size) = 0
    BY <1>2, <1>3 DEF NoList, ZeroSize, Bytes, Unit
  <2> QED
    BY <2>1, <2>2 DEF EntriesOK
<1>6. ASSUME Locked PROVE ListOK(r)'
  <2>1. \A f \in Present : Unique(bbs, f)
    BY <1>1, <1>6, CatalogAssumption DEF DInv, FileOK, TextsOK, Present
  <2>2. bbs \in Seq(BbsLine) /\ \A line \in BbsLine : line.text \in Texts
    BY <1>1, LinesAre DEF TextsOK, ConfigOK
  <2>3. /\ DOMAIN ParseBBS(bbs) = NamedIn(bbs)
        /\ \A f \in DOMAIN ParseBBS(bbs) : Unique(bbs, f) => ParseBBS(bbs)[f] = GetDesc(bbs, f)
    BY <2>2, ParseType
  <2>4. TreeOK(r)'
    BY <1>2, <2>1, <2>3 DEF TreeOK
  <2>5. DoneOf(r)' = {}
    BY <1>2, <1>3 DEF DoneOf, NoList
  <2>6. Covers({}, todo[r])'
    <3>1. TmpOK /\ \A q \in Runs : pc[q] \notin {"move", "tidied"}
      BY <1>1, <1>6, OthersIdle DEF DInv
    <3>2. Tmp \in Present => faults > 0
      BY <1>1, <3>1 DEF TmpOK, Present, TextsOK
    <3> QED
      BY <1>2, <3>2 DEF Covers, Present
  <2> QED
    BY <1>2, <1>5, <2>4, <2>5, <2>6 DEF ListOK
<1> QED
  BY <1>1, <1>2, <1>4, <1>6, NoTicketAgain, QuietFiles, QuietTmp, DStep

LEMMA CollectOK ==
  ASSUME TInv, Alone, DInv, NEW r \in Runs, Collect(r)
  PROVE  DInv'
<1>1. StepOf(r) /\ RunsOK /\ ConfigOK /\ TextsOK /\ RunOK(r) /\ pc[r] = "list"
  BY DEF StepOf, Step, TInv, Types, Collect
<1>2. /\ bbs' = bbs /\ told' = told /\ dir' = dir /\ pc'[r] = "tidy" /\ list' = list
      /\ todo' = todo /\ gone'[r] = MissingNames(bbs, Present) /\ tmp' = tmp /\ faults' = faults
  BY <1>1 DEF texts, world, tossing, Collect, Goto, RunsOK
<1>3. setup' = setup
  BY <1>1, NoTicketAgain
<1>4. BbsOK(r)'
  BY <1>2 DEF BbsOK, StoringSteps
<1>5. ASSUME Locked PROVE ListOK(r)'
  <2>1. ListOK(r)
    BY <1>5 DEF DInv
  <2>2. setup.mark \in Marks /\ bbs \in Seq(BbsOf(setup.mark))
    BY <1>1, SetupIs DEF ConfigOK, TextsOK, BbsLine
  <2>3. Range(gone'[r]) = NamedIn(bbs) \ Present
    BY <1>2, <2>2, MissingNamesRight
  <2>4. dir \subseteq Present /\ Present \subseteq dir \cup {Tmp}
    BY DEF Present
  <2> QED
    BY <1>1, <1>2, <1>3, <2>1, <2>3, <2>4
       DEF ListOK, ListingSteps, DoneOf, Covers, EntriesOK, SameDesc, MayLoseLines
<1> QED
  BY <1>1, <1>2, <1>3, <1>4, <1>5, NoTicketAgain, QuietFiles, QuietTmp, DStep

LEMMA TidyCopyOK ==
  ASSUME TInv, Alone, DInv, NEW r \in Runs, TidyCopy(r)
  PROVE  DInv'
<1>1. StepOf(r) /\ RunsOK /\ pc[r] = "tidy"
  BY DEF StepOf, Step, TInv, Types, TidyCopy
<1>2. /\ bbs' = bbs /\ told' = told /\ dir' = dir /\ pc'[r] = "tidied" /\ list' = list
      /\ todo' = todo /\ gone' = gone
      /\ tmp' = [exists |-> TRUE, lines |-> RemoveDesc(bbs, Head(gone[r]))] /\ faults' = faults
  BY <1>1 DEF world, tossing, listing, TidyCopy, CopyOf, Goto, RunsOK
<1>3. setup' = setup
  BY <1>1, NoTicketAgain
<1>4. BbsOK(r)'
  BY <1>2 DEF BbsOK, StoringSteps
<1>5. ASSUME Locked PROVE ListOK(r)'
  <2>1. ListOK(r)
    BY <1>5 DEF DInv
  <2> QED
    BY <1>1, <1>2, <1>3, <2>1
       DEF ListOK, ListingSteps, DoneOf, Covers, EntriesOK, SameDesc, MayLoseLines
<1>6. Locked => TmpOK'
  BY <1>2 DEF DInv, TmpOK
<1> QED
  BY <1>1, <1>2, <1>3, <1>4, <1>5, <1>6, NoTicketAgain, QuietFiles, DStep

LEMMA ListedOK ==
  ASSUME TInv, Alone, DInv, NEW r \in Runs, Listed(r)
  PROVE  DInv'
<1>1. StepOf(r) /\ RunsOK /\ RunOK(r) /\ pc[r] = "tidy" /\ gone[r] = <<>>
  BY DEF StepOf, Step, TInv, Types, Listed
<1>2. /\ bbs' = bbs /\ told' = told /\ dir' = dir /\ pc'[r] = "listed"
      /\ todo' = todo /\ gone' = gone /\ tmp' = tmp /\ faults' = faults
  BY <1>1 DEF texts, world, tossing, Listed, Goto, RunsOK
<1>3. setup' = setup
  BY <1>1, NoTicketAgain
<1>4. list'[r].entries = list[r].entries /\ Bytes(list'[r].size) = Bytes(list[r].size)
  <2>1. list' = [list EXCEPT ![r].size = IncBigSize2(ZeroSize, @)]
    BY DEF Listed
  <2>2. list[r] \in ListType /\ DOMAIN list = Runs
    BY <1>1 DEF RunOK, RunsOK
  <2> PICK one : one = list[r]
    OBVIOUS
  <2>3. list'[r] = [one EXCEPT !.size = IncBigSize2(ZeroSize, one.size)]
    BY <2>1, <2>2
  <2>4. list'[r].entries = one.entries /\ list'[r].size = IncBigSize2(ZeroSize, one.size)
    BY <2>2, <2>3, SMTT(60) DEF ListType
  <2>5. one.size \in SizeType /\ ZeroSize \in SizeType
    BY <2>2 DEF ListType, ZeroSize, SizeType, Digit, Unit
  <2>6. Bytes(IncBigSize2(ZeroSize, one.size)) = Bytes(ZeroSize) + Bytes(one.size)
    BY <2>5, AddCounters
  <2>7. Bytes(ZeroSize) = 0 /\ Bytes(one.size) \in Int
    <3>1. PICK b, kb, mb \in Nat : /\ b < 1024 /\ kb < 1024
                                  /\ one.size = [b |-> b, kb |-> kb, mb |-> mb]
      BY <2>5, Counters, ZenonT(60)
    <3>2. Bytes(one.size) = (mb * 1024 + kb) * 1024 + b
      BY <3>1 DEF Bytes, Unit
    <3>3. Bytes(ZeroSize) = 0
      BY DEF ZeroSize, Bytes, Unit
    <3> QED
      BY <3>2, <3>3
  <2> QED
    BY <2>4, <2>6, <2>7
<1>5. BbsOK(r)'
  BY <1>2 DEF BbsOK, StoringSteps
<1>6. ASSUME Locked PROVE ListOK(r)'
  <2>1. ListOK(r)
    BY <1>6 DEF DInv
  <2> QED
    BY <1>1, <1>2, <1>3, <1>4, <2>1
       DEF ListOK, ListingSteps, DoneOf, Covers, EntriesOK, SameDesc, MayLoseLines
<1> QED
  BY <1>1, <1>2, <1>3, <1>5, <1>6, NoTicketAgain, QuietFiles, QuietTmp, DStep

\* What the list says stays true when the entry of another file changes.
LEMMA EntriesKept ==
  ASSUME NEW entries, NEW size, NEW done, EntriesOK(entries, size, done), setup' = setup,
         \A f \in done \ {Tmp} : f \in NamedIn(bbs'),
         \A e \in entries :
           e.file \in done \ {Tmp} /\ ~MayLoseLines(e.desc) =>
             Shown(setup.mark, GetDesc(bbs', e.file)) = Shown(setup.mark, GetDesc(bbs, e.file))
  PROVE  EntriesOK(entries, size, done)'
<1>1. ASSUME NEW e \in entries, e.file # Tmp PROVE SameDesc(e)'
  <2>1. SameDesc(e) /\ e.file \in done \ {Tmp}
    BY <1>1 DEF EntriesOK
  <2>2. CASE MayLoseLines(e.desc)
    BY <2>2 DEF SameDesc, MayLoseLines
  <2>3. CASE ~MayLoseLines(e.desc)
    <3>1. Shown(setup.mark, GetDesc(bbs', e.file)) = Shown(setup.mark, GetDesc(bbs, e.file))
      BY <2>1, <2>3
    <3> QED
      BY <2>1, <2>3, <3>1 DEF SameDesc
  <2> QED
    BY <2>2, <2>3
<1> QED
  BY <1>1 DEF EntriesOK

LEMMA TidyMoveOK ==
  ASSUME TInv, Alone, DInv, NEW r \in Runs, TidyMove(r)
  PROVE  DInv'
<1>1. StepOf(r) /\ RunsOK /\ ConfigOK /\ TextsOK /\ RunOK(r) /\ pc[r] = "tidied"
  BY DEF StepOf, Step, TInv, Types, TidyMove
<1> PICK file : file = Head(gone[r])
  OBVIOUS
<1>2. /\ pc'[r] = "tidy" /\ dir' = dir /\ list' = list /\ todo' = todo
      /\ bbs' = IF tmp.exists THEN tmp.lines ELSE bbs
      /\ told' = [told EXCEPT ![file] = Unclear]
      /\ gone'[r] = Tail(gone[r]) /\ ~tmp'.exists /\ faults' = faults
  BY <1>1, NoListType DEF world, tossing, TidyMove, MoveOver, Goto, RunsOK
<1>3. setup' = setup
  BY <1>1, NoTicketAgain
<1>4. /\ gone[r] \in Seq(Files) /\ gone[r] # <<>> /\ file \in Files /\ file \in Range(gone[r])
      /\ Range(gone[r]) = {file} \cup Range(gone'[r])
  <2> PICK s : s = gone[r]
    OBVIOUS
  <2>1. s \in Seq(Files) /\ s # <<>>
    BY <1>1 DEF RunsOK, RunOK
  <2>2. /\ Tail(s) \in Seq(Files) /\ Len(Tail(s)) = Len(s) - 1 /\ Len(s) \in Nat \ {0}
        /\ DOMAIN s = 1 .. Len(s) /\ DOMAIN Tail(s) = 1 .. Len(s) - 1
        /\ \A j \in 1 .. Len(s) - 1 : Tail(s)[j] = s[j + 1]
        /\ file = s[1]
    BY <2>1
  <2>3. \A k \in 1 .. Len(s) : k = 1 \/ (k - 1 \in 1 .. Len(s) - 1 /\ (k - 1) + 1 = k)
    BY <2>2
  <2>4. \A j \in 1 .. Len(s) - 1 : j + 1 \in 1 .. Len(s)
    BY <2>2
  <2>5. Range(s) \subseteq {file} \cup Range(Tail(s))
    <3> SUFFICES ASSUME NEW k \in 1 .. Len(s) PROVE s[k] = file \/ s[k] \in Range(Tail(s))
      BY <2>2 DEF Range
    <3>1. CASE k = 1
      BY <2>2, <3>1
    <3>2. CASE k - 1 \in 1 .. Len(s) - 1 /\ (k - 1) + 1 = k
      <4>1. Tail(s)[k - 1] = s[k] /\ k - 1 \in DOMAIN Tail(s)
        BY <2>2, <3>2
      <4> QED
        BY <4>1 DEF Range
    <3> QED
      BY <2>3, <3>1, <3>2
  <2>6. {file} \cup Range(Tail(s)) \subseteq Range(s)
    BY <2>2, <2>4 DEF Range
  <2>7. file \in Files
    BY <2>1, <2>2
  <2> QED
    BY <1>2, <2>1, <2>5, <2>6, <2>7
<1>5. BbsOK(r)'
  BY <1>2 DEF BbsOK, StoringSteps
<1>6. ASSUME Locked PROVE ListOK(r)' /\ TmpOK' /\ \A f \in Files : FileOK(f)'
  <2>1. BbsOK(r) /\ ListOK(r)
    BY <1>6 DEF DInv
  <2>2. bbs' = RemoveDesc(bbs, file)
    BY <1>1, <1>2, <2>1 DEF BbsOK
  <2>3. setup.mark \in Marks /\ bbs \in Seq(BbsOf(setup.mark))
    BY <1>1, SetupIs DEF ConfigOK, TextsOK, BbsLine
  <2>4. Removed(bbs', bbs, setup.mark, file)
    BY <1>4, <2>2, <2>3, RemovedIs
  <2>5. NamedIn(bbs') = NamedIn(bbs) \ {file}
    BY <1>4, <2>4 DEF NamedIn, Removed
  <2> PICK entries : entries = list[r].entries
    OBVIOUS
  <2> PICK done : done = DoneOf(r)
    OBVIOUS
  <2> PICK size : size = list[r].size
    OBVIOUS
  <2>6. EntriesOK(entries, size, done) /\ Covers(done, todo[r]) /\ file \notin dir
    BY <1>1, <1>4, <2>1 DEF ListOK, ListingSteps
  <2>7. EntriesOK(entries, size, done)'
    <3>1. \A f \in done \ {Tmp} : f \in NamedIn(bbs')
      BY <2>5, <2>6 DEF EntriesOK, Covers
    <3>2. ASSUME NEW e \in entries, e.file \in done \ {Tmp}, ~MayLoseLines(e.desc)
          PROVE  Shown(setup.mark, GetDesc(bbs', e.file)) = Shown(setup.mark, GetDesc(bbs, e.file))
      <4>1. e.desc \in Seq(Texts) /\ e.file \in Files /\ e.file # file
        BY <1>1, <2>6, <3>2 DEF RunOK, ListType, Covers
      <4>2. Shown(setup.mark, GetDesc(bbs, e.file)) = Shown(setup.mark, e.desc)
        BY <2>6, <3>2 DEF EntriesOK, SameDesc
      <4>3. Safe(bbs, e.file, setup.mark, file)
        BY <1>4, <3>2, <4>1, <4>2, ShownSafe
      <4>4. Written(setup.mark, GetDesc(bbs', e.file)) = Written(setup.mark, GetDesc(bbs, e.file))
        BY <2>4, <4>1, <4>3 DEF Removed
      <4> PICK a : a = GetDesc(bbs', e.file)
        OBVIOUS
      <4> PICK mark : mark = setup.mark
        OBVIOUS
      <4> QED
        BY <4>4, SameShown
    <3> QED
      BY <1>3, <2>6, <3>1, <3>2, EntriesKept
  <2>8. ListOK(r)'
    <3>1. EntriesOK(list[r].entries, list[r].size, DoneOf(r))'
      BY <1>2, <2>7 DEF EntriesOK, SameDesc, DoneOf
    <3>2. /\ NamedIn(bbs') \ (dir' \cup {Tmp}) \subseteq Range(gone'[r])
          /\ Range(gone'[r]) \cap dir' = {}
      BY <1>1, <1>2, <1>4, <2>1, <2>5 DEF ListOK
    <3>3. Covers(DoneOf(r), todo[r])'
      BY <1>2, <2>6 DEF Covers, DoneOf
    <3> QED
      BY <1>2, <3>1, <3>2, <3>3 DEF ListOK
  <2>9. ASSUME NEW f \in Files PROVE FileOK(f)'
    <3>1. FileOK(f)
      BY <1>6 DEF DInv
    <3>2. CASE f = file
      <4>1. told'[f] = Unclear
        BY <1>1, <1>2, <3>2 DEF TextsOK
      <4> QED
        BY <2>4, <3>2, <4>1 DEF Removed, FileOK, Unique
    <3>3. CASE f # file
      <4>1. Unique(bbs, f)'
        BY <2>4, <3>1, <3>3 DEF Removed, FileOK, Unique
      <4>2. told'[f] = told[f]
        BY <1>2, <3>3
      <4>3. ASSUME told[f] # Unclear PROVE Kept(f)'
        <5>1. ~Adding(f)
          BY <1>1, <1>6, OthersIdle DEF Adding
        <5>2. Kept(f)
          BY <3>1, <4>3, <5>1 DEF FileOK
        <5>3. ASSUME ~MayLoseLines(told[f])
              PROVE  Shown(setup.mark, GetDesc(bbs', f)) = Shown(setup.mark, told[f])
          <6>1. told[f] \in Seq(Texts)
            BY <1>1 DEF TextsOK
          <6>2. Shown(setup.mark, GetDesc(bbs, f)) = Shown(setup.mark, told[f])
            BY <5>2, <5>3 DEF Kept
          <6>3. Safe(bbs, f, setup.mark, file)
            BY <1>4, <5>3, <6>1, <6>2, ShownSafe
          <6>4. Written(setup.mark, GetDesc(bbs', f)) = Written(setup.mark, GetDesc(bbs, f))
            BY <2>4, <3>3, <6>3 DEF Removed
          <6>5. Shown(setup.mark, GetDesc(bbs', f)) = Shown(setup.mark, GetDesc(bbs, f))
            <7> PICK a : a = GetDesc(bbs', f)
              OBVIOUS
            <7> PICK mark : mark = setup.mark
              OBVIOUS
            <7> QED
              BY <6>4, SameShown
          <6> QED
            BY <6>2, <6>5
        <5> QED
          BY <1>3, <2>4, <3>3, <4>2, <5>2, <5>3 DEF Removed, Kept, MayLoseLines
      <4> QED
        BY <4>1, <4>2, <4>3 DEF FileOK
    <3> QED
      BY <3>2, <3>3
  <2>10. TmpOK'
    BY <1>2, <1>6, <2>5 DEF DInv, TmpOK
  <2> QED
    BY <2>8, <2>9, <2>10
<1> QED
  BY <1>1, <1>3, <1>5, <1>6, NoTicketAgain, DStep

LEMMA ListOneOK ==
  ASSUME TInv, Alone, DInv, NEW r \in Runs, NEW f \in todo[r], ListOne(r, f)
  PROVE  DInv'
<1>1. StepOf(r) /\ RunsOK /\ ConfigOK /\ TextsOK /\ RunOK(r) /\ pc[r] = "list"
  BY DEF StepOf, Step, TInv, Types, ListOne
<1> PICK found : found = (f \in DOMAIN tree[r])
  OBVIOUS
<1> PICK desc : desc = IF f \in DOMAIN tree[r] THEN tree[r][f] ELSE <<DescNA>>
  OBVIOUS
<1>2. /\ pc' = pc /\ dir' = dir /\ tickets' = tickets /\ now' = now /\ tree' = tree /\ gone' = gone
      /\ bbs' = IF f \in DOMAIN tree[r] THEN bbs ELSE AddDescription(bbs, f, desc, setup.mark)
      /\ told' = IF f \in DOMAIN tree[r] THEN told ELSE [told EXCEPT ![f] = desc]
      /\ todo'[r] = todo[r] \ {f}
      /\ list' = [list EXCEPT ![r] = [entries |-> @.entries \cup {[file |-> f, desc |-> desc]},
                                     size |-> IncBigSize(@.size, Size[f])]]
      /\ tmp' = tmp /\ faults' = faults
  BY <1>1 DEF world, ListOne, RunsOK
<1>3. setup' = setup
  BY <1>1, NoTicketAgain
<1> PICK entries : entries = list[r].entries
  OBVIOUS
<1> PICK size : size = list[r].size
  OBVIOUS
<1> PICK done : done = DoneOf(r)
  OBVIOUS
<1> PICK e : e = [file |-> f, desc |-> desc]
  OBVIOUS
<1> PICK new : new = IncBigSize(size, Size[f])
  OBVIOUS
<1>4. list'[r].entries = entries \cup {e} /\ list'[r].size = new
  BY <1>1, <1>2 DEF RunsOK
<1>5. /\ f \in Files /\ f \in dir \cup {Tmp} /\ dir \subseteq Files \ {Tmp}
      /\ done \subseteq Files /\ DoneOf(r)' = done \cup {f}
  <2>1. f \in Files /\ f \in dir \cup {Tmp} /\ dir \subseteq Files \ {Tmp}
    BY <1>1, CatalogAssumption DEF RunOK, TextsOK
  <2>2. done \subseteq Files
    BY <1>1 DEF RunOK, ListType, DoneOf
  <2>3. DoneOf(r)' = done \cup {f}
    BY <1>4 DEF DoneOf
  <2> QED
    BY <2>1, <2>2, <2>3
<1>6. Bytes(new) = Bytes(size) + Size[f]
  BY <1>1, <1>5, CatalogAssumption, TotalIsExact DEF RunOK, ListType
<1>7. BbsOK(r)'
  BY <1>1, <1>2 DEF BbsOK, StoringSteps
<1>8. ASSUME Locked PROVE ListOK(r)' /\ TmpOK' /\ \A g \in Files : FileOK(g)'
  <2>1. EntriesOK(entries, size, done) /\ TreeOK(r) /\ Covers(done, todo[r]) /\ f \notin done
    BY <1>1, <1>8 DEF DInv, ListOK, ListingSteps, Covers
  <2>2. Added(bbs', bbs, setup.mark, f, desc) \/ bbs' = bbs
    <3>1. CASE f \in DOMAIN tree[r]
      BY <1>2, <3>1
    <3>2. CASE f \notin DOMAIN tree[r]
      <4>1. setup.mark \in Marks /\ bbs \in Seq(BbsOf(setup.mark))
        BY <1>1, SetupIs DEF ConfigOK, TextsOK, BbsLine
      <4>2. desc \in Seq(Texts)
        BY <3>2, DescriptionsAssumption
      <4>3. bbs' = AddDescription(bbs, f, desc, setup.mark)
        BY <1>2, <3>2
      <4> QED
        BY <1>5, <4>1, <4>2, <4>3, AddedIs
    <3> QED
      BY <3>1, <3>2
  <2>3. \A g : g # f => Entries(bbs', g) = Entries(bbs, g) /\ GetDesc(bbs', g) = GetDesc(bbs, g)
    BY <2>2 DEF Added
  <2>4. f \notin DOMAIN tree[r] =>
          /\ Entries(bbs, f) = {} /\ desc = <<DescNA>> /\ desc \in Seq(Texts) /\ desc # <<>>
          /\ Added(bbs', bbs, setup.mark, f, desc)
    <3> SUFFICES ASSUME f \notin DOMAIN tree[r]
                 PROVE  /\ Entries(bbs, f) = {} /\ desc = <<DescNA>> /\ desc \in Seq(Texts) /\ desc # <<>>
                        /\ Added(bbs', bbs, setup.mark, f, desc)
      OBVIOUS
    <3>1. Entries(bbs, f) = {}
      BY <1>5, <2>1 DEF TreeOK, NamedIn
    <3>2. desc = <<DescNA>> /\ desc \in Seq(Texts) /\ desc # <<>>
      BY DescriptionsAssumption
    <3>3. setup.mark \in Marks /\ bbs \in Seq(BbsOf(setup.mark))
      BY <1>1, SetupIs DEF ConfigOK, TextsOK, BbsLine
    <3>4. bbs' = AddDescription(bbs, f, desc, setup.mark)
      BY <1>2
    <3> QED
      BY <1>5, <3>1, <3>2, <3>3, <3>4, AddedIs
  <2>5. /\ Entries(bbs', f) # {}
        /\ Shown(setup.mark, GetDesc(bbs', f)) = Shown(setup.mark, desc)
    <3>1. CASE f \in DOMAIN tree[r]
      BY <1>2, <1>5, <2>1, <3>1 DEF TreeOK, NamedIn
    <3>2. CASE f \notin DOMAIN tree[r]
      <4>1. Entries(bbs', f) # {}
        BY <2>4, <3>2 DEF Added
      <4>2. Shown(setup.mark, GetDesc(bbs', f)) = Shown(setup.mark, desc)
        <5>1. /\ Added(bbs', bbs, setup.mark, f, desc) /\ Entries(bbs, f) = {}
              /\ desc \in Seq(Texts) /\ desc # <<>>
          BY <2>4, <3>2
        <5> QED
          BY <5>1, AddedNow
      <4> QED
        BY <4>1, <4>2
    <3> QED
      BY <3>1, <3>2
  <2>6. NamedIn(bbs') = NamedIn(bbs) \cup {f}
    BY <1>5, <2>3, <2>5 DEF NamedIn
  <2>7. EntriesOK(entries \cup {e}, new, done \cup {f})'
    <3>1. {d.file : d \in entries \cup {e}} = done \cup {f}
      BY <2>1 DEF EntriesOK
    <3>2. Bytes(new) = Total(done \cup {f})
      <4> PICK R \in SUBSET Files : R = done \cup {f}
        BY <1>5
      <4>1. R \ {f} = done /\ f \in R
        BY <2>1
      <4>2. Total(R) = Size[f] + Total(R \ {f}) /\ Total(R \ {f}) \in Nat
        BY <4>1, TotalMore
      <4>3. Size[f] \in Nat
        BY <1>5, CatalogAssumption
      <4>4. Bytes(size) = Total(done)
        BY <2>1 DEF EntriesOK
      <4>5. Total(R \ {f}) = Bytes(size) /\ Bytes(size) \in Nat
        BY <4>1, <4>2, <4>4
      <4>6. Bytes(new) = Total(R)
        BY <1>6, <4>2, <4>3, <4>5
      <4> QED
        BY <4>6
    <3>3. (done \cup {f}) \ {Tmp} \subseteq NamedIn(bbs')
      BY <2>1, <2>6 DEF EntriesOK
    <3>4. ASSUME NEW d \in entries \cup {e}, d.file # Tmp PROVE SameDesc(d)'
      <4>1. CASE d = e
        BY <1>3, <2>5, <4>1 DEF SameDesc
      <4>2. CASE d \in entries
        <5>1. SameDesc(d) /\ d.file # f
          BY <1>5, <2>1, <3>4, <4>2 DEF EntriesOK
        <5> QED
          BY <1>3, <2>3, <5>1 DEF SameDesc, MayLoseLines
      <4> QED
        BY <4>1, <4>2
    <3> QED
      BY <3>1, <3>2, <3>3, <3>4 DEF EntriesOK, Total
  <2>8. TreeOK(r)'
    <3> SUFFICES ASSUME NEW g \in todo[r] \ {f}
                 PROVE  /\ g \in DOMAIN tree[r] <=> g \in NamedIn(bbs')
                        /\ g \in DOMAIN tree[r] => tree[r][g] = GetDesc(bbs', g)
      BY <1>2 DEF TreeOK
    <3> QED
      BY <2>1, <2>3, <2>6 DEF TreeOK
  <2>9. ListOK(r)'
    <3>1. EntriesOK(list[r].entries, list[r].size, DoneOf(r))'
      BY <1>4, <1>5, <2>7 DEF EntriesOK, SameDesc
    <3>2. Covers(DoneOf(r), todo[r])'
      BY <1>2, <1>5, <2>1 DEF Covers
    <3> QED
      BY <1>1, <1>2, <2>8, <3>1, <3>2 DEF ListOK
  <2>10. ASSUME NEW g \in Files PROVE FileOK(g)'
    <3>1. FileOK(g)
      BY <1>8 DEF DInv
    <3>2. ~Adding(g)
      BY <1>1, <1>8, OthersIdle DEF Adding
    <3>3. CASE f \in DOMAIN tree[r]
      BY <1>2, <1>3, <3>1, <3>2, <3>3 DEF FileOK, Unique, Kept, MayLoseLines
    <3>4. CASE f \notin DOMAIN tree[r] /\ g # f
      <4>1. told'[g] = told[g]
        BY <1>2, <3>4
      <4> QED
        BY <1>3, <1>5, <2>4, <3>1, <3>2, <3>4, <4>1, OtherFiles
    <3>5. CASE f \notin DOMAIN tree[r] /\ g = f
      <4>1. Unique(bbs, g)'
        BY <2>4, <3>5 DEF Added, Unique
      <4>2. told'[g] = desc
        BY <1>1, <1>2, <3>5 DEF TextsOK
      <4>3. Kept(g)'
        BY <1>3, <2>5, <3>5, <4>2 DEF Kept
      <4> QED
        BY <4>1, <4>3 DEF FileOK
    <3> QED
      BY <3>3, <3>4, <3>5
  <2>11. TmpOK'
    <3>1. Tmp \in NamedIn(bbs') => Tmp \in NamedIn(bbs) \/ faults > 0
      BY <2>1, <2>6 DEF Covers
    <3> QED
      BY <1>1, <1>2, <1>8, <3>1, QuietTmp
  <2> QED
    BY <2>9, <2>10, <2>11
<1> QED
  BY <1>1, <1>3, <1>7, <1>8, NoTicketAgain, DStep

LEMMA CrashOK ==
  ASSUME TInv, Alone, DInv, NEW r \in Runs, Crash(r)
  PROVE  DInv'
<1>1. StepOf(r) /\ RunsOK /\ TextsOK /\ RunOK(r)
  BY DEF StepOf, TInv, Types
<1>2. /\ bbs' = bbs /\ tmp' = tmp /\ pc'[r] = "idle"
      /\ told' = IF now[r] # 0 /\ HasDir(now[r])
                 THEN [told EXCEPT ![tickets[now[r]].file] = Unclear] ELSE told
  BY <1>1 DEF Crash, Goto, RunsOK
<1>3. setup' = setup
  BY <1>1, NoTicketAgain
<1>4. BbsOK(r)' /\ ListOK(r)'
  BY <1>2 DEF BbsOK, ListOK, StoringSteps, ListingSteps
<1>5. ASSUME Locked, NEW f \in Files PROVE FileOK(f)'
  <2>1. FileOK(f)
    BY <1>5 DEF DInv
  <2>2. CASE told'[f] = Unclear
    BY <1>2, <2>1, <2>2 DEF FileOK, Unique
  <2>3. CASE told'[f] # Unclear
    <3>1. told'[f] = told[f] /\ ~(now[r] # 0 /\ HasDir(now[r]) /\ tickets[now[r]].file = f)
      BY <1>1, <1>2, <2>3 DEF TextsOK
    <3>2. ~Adding(f)
      <4> SUFFICES ASSUME NEW q \in Runs, pc[q] = "add", tickets[now[q]].file = f PROVE FALSE
        BY DEF Adding
      <4>1. q = r
        BY <1>1, <1>5, OthersIdle
      <4>2. now[r] # 0 /\ HasDir(now[r])
        BY <1>1, <4>1 DEF RunOK, StoringSteps
      <4> QED
        BY <3>1, <4>1, <4>2
    <3>3. told[f] # Unclear => Kept(f)
      BY <2>1, <3>2 DEF FileOK
    <3> QED
      BY <1>2, <1>3, <2>1, <2>3, <3>1, <3>3 DEF FileOK, Unique, Kept, MayLoseLines
  <2> QED
    BY <2>2, <2>3
<1> QED
  BY <1>1, <1>2, <1>3, <1>4, <1>5, NoTicketAgain, QuietTmp, DStep

\* Nothing that a run has changes, except that there are more tickets.
LEMMA BetweenSteps ==
  ASSUME TInv, DInv, Grown, bbs' = bbs, tmp' = tmp, told' = told, dir' = dir \/ Idle,
         faults' = faults, \A q \in Runs : Same(q), \A n \in inbox' : ~tickets'[n].again
  PROVE  DInv'
<1>1. setup' = setup
  BY DEF Grown
<1>2. ASSUME Locked, NEW q \in Runs PROVE BbsOK(q)' /\ ListOK(q)'
  <2>1. BbsOK(q) /\ ListOK(q) /\ Same(q) /\ RunOK(q)
    BY <1>2 DEF DInv, TInv
  <2>2. pc[q] \in StoringSteps => tickets'[now[q]] = tickets[now[q]]
    BY <2>1 DEF RunOK, Grown
  <2>3. BbsOK(q)'
    <3>1. pc'[q] = pc[q] /\ now'[q] = now[q] /\ gone'[q] = gone[q]
      BY <2>1 DEF Same
    <3>2. CASE pc[q] \in StoringSteps
      <4> PICK t : t = tickets[now[q]]
        OBVIOUS
      <4>1. tickets'[now'[q]] = t /\ t = tickets[now[q]]
        BY <2>2, <3>1, <3>2
      <4>2. t.area = Home /\ t.again /\ told[t.file] # Unclear => Again(t)
        BY <2>1, <3>2, <4>1 DEF BbsOK
      <4>3. Again(t)' <=> Again(t)
        BY <1>1 DEF Again, MayLoseLines
      <4>4. /\ pc[q] = "move" => tmp = [exists |-> TRUE, lines |-> RemoveDesc(bbs, t.file)]
            /\ pc[q] = "add" => Entries(bbs, t.file) = {}
        BY <2>1, <4>1 DEF BbsOK
      <4> QED
        BY <3>1, <3>2, <4>1, <4>2, <4>3, <4>4 DEF BbsOK, StoringSteps
    <3>3. CASE pc[q] \notin StoringSteps
      BY <2>1, <3>1, <3>3 DEF BbsOK, StoringSteps
    <3> QED
      BY <3>2, <3>3
  <2>4. ListOK(q)'
    <3>1. CASE pc[q] = "idle"
      BY <2>1, <3>1 DEF Same, ListOK, ListingSteps
    <3>2. CASE dir' = dir
      BY <1>1, <2>1, <3>2
         DEF ListOK, Same, TreeOK, DoneOf, Covers, EntriesOK, SameDesc, MayLoseLines
    <3> QED
      BY <3>1, <3>2 DEF Idle
  <2> QED
    BY <2>3, <2>4
<1>3. ASSUME Locked, NEW f \in Files PROVE FileOK(f)'
  <2>1. FileOK(f)
    BY <1>3 DEF DInv
  <2>2. Adding(f) => Adding(f)'
    <3> SUFFICES ASSUME NEW q \in Runs, pc[q] = "add", tickets[now[q]].file = f PROVE Adding(f)'
      BY DEF Adding
    <3>1. now[q] \in DOMAIN tickets /\ Same(q)
      BY DEF TInv, RunOK, StoringSteps
    <3> QED
      BY <3>1 DEF Grown, Same, Adding
  <2> QED
    BY <1>1, <2>1, <2>2 DEF FileOK, Unique, Kept, MayLoseLines
<1>4. TmpOK <=> TmpOK'
  <2>1. \A q \in Runs : pc'[q] = pc[q]
    BY DEF Same
  <2> QED
    BY <2>1 DEF TmpOK
<1> QED
  BY <1>1, <1>2, <1>3, <1>4 DEF DInv, Locked

LEMMA ArriveOK ==
  ASSUME TInv, DInv, NEW t \in setup.tickets, Arrive(t)
  PROVE  DInv'
<1>1. /\ setup' = setup /\ tickets' = Append(tickets, t) /\ Len(tickets) < setup.limit
      /\ inbox' = inbox \cup {Len(tickets')}
      /\ bbs' = bbs /\ tmp' = tmp /\ told' = told /\ dir' = dir /\ faults' = faults
      /\ \A q \in Runs : Same(q)
  BY DEF world, texts, spools, tossing, listing, posting, Arrive, Same
<1>2. ConfigOK /\ SpoolOK
  BY DEF TInv, Types
<1>3. t \in TicketType /\ ~t.again
  BY <1>2, SetupIs DEF ConfigOK
<1>4. Grown /\ tickets'[Len(tickets')] = t
  BY <1>1, <1>2, <1>3, OneMoreArrived DEF ConfigOK
<1>5. \A n \in inbox' : ~tickets'[n].again
  BY <1>1, <1>3, <1>4, InTickets DEF DInv, Grown
<1> QED
  BY <1>1, <1>4, <1>5, BetweenSteps

LEMMA OutsideOK ==
  ASSUME TInv, DInv, Outside
  PROVE  DInv'
<1>1. /\ setup' = setup /\ tickets' = tickets /\ inbox' = inbox /\ (dir' = dir \/ Idle)
      /\ bbs' = bbs /\ tmp' = tmp /\ told' = told /\ faults' = faults /\ \A q \in Runs : Same(q)
  BY DEF world, texts, spools, tossing, listing, posting, Outside, RemoveLock, Sysop, DropArea, Same
<1>2. Grown /\ \A n \in inbox' : ~tickets'[n].again
  BY <1>1 DEF Grown, TInv, Types, SpoolOK, DInv
<1> QED
  BY <1>1, <1>2, BetweenSteps

LEMMA DNext ==
  ASSUME Core, DInv, [Next]_vars
  PROVE  DInv'
<1> USE DEF Core
<1>1. ASSUME NEW r \in Runs, StepOf(r) PROVE DInv'
  <2>1. CASE \/ Toss(r) \/ EndToss(r) \/ Stored(r) \/ EndList(r) \/ Announce(r) \/ Post(r)
             \/ NextDef(r) \/ Free(r) \/ End(r)
             \/ (\E commands \in setup.commands : Start(r, commands))
    BY <2>1, PlainSteps
  <2>2. CASE Save(r) \/ Fill(r) \/ Copy(r)
    BY <2>2, StoringStepsOK
  <2>3. CASE \E n \in todo[r] : TossOne(r, n)
    BY <2>3, TossOneOK
  <2>4. CASE \E f \in Files, h \in setup.hatches : Hatch(r, f, h)
    BY <2>4, HatchOK
  <2>5. CASE Move(r)
    BY <2>5, MoveOK
  <2>6. CASE Add(r)
    BY <2>6, AddOK
  <2>7. CASE FileList(r)
    BY <2>7, FileListOK
  <2>8. CASE \E f \in todo[r] : ListOne(r, f)
    BY <2>8, ListOneOK
  <2>9. CASE Collect(r)
    BY <2>9, CollectOK
  <2>10. CASE TidyCopy(r)
    BY <2>10, TidyCopyOK
  <2>11. CASE TidyMove(r)
    BY <2>11, TidyMoveOK
  <2>12. CASE Listed(r)
    BY <2>12, ListedOK
  <2>13. CASE Crash(r)
    BY <2>13, CrashOK
  <2> QED
    BY <1>1, <2>1, <2>2, <2>3, <2>4, <2>5, <2>6, <2>7, <2>8, <2>9, <2>10, <2>11, <2>12, <2>13
       DEF StepOf, Step
<1>2. CASE Next
  <2>1. CASE \E t \in setup.tickets : Arrive(t)
    BY <2>1, ArriveOK
  <2>2. CASE Outside
    BY <2>2, OutsideOK
  <2> QED
    BY <1>1, <1>2, <2>1, <2>2, NextIs
<1>3. CASE UNCHANGED vars
  <2> USE <1>3 DEF vars, world, texts, spools, tossing, listing, posting
  <2>1. \A q \in Runs : Same(q)
    BY DEF Same
  <2>2. Grown /\ \A n \in inbox' : ~tickets'[n].again
    BY DEF Grown, TInv, Types, SpoolOK, DInv
  <2> QED
    BY <2>1, <2>2, BetweenSteps
<1> QED
  BY <1>2, <1>3

LEMMA DInit ==
  ASSUME Init
  PROVE  DInv
<1>1. inbox = {} /\ Len(bbs) = 0 /\ DOMAIN bbs = {}
  BY DEF Init
<1>2. \A r \in Runs : pc[r] = "idle"
  BY DEF Init
<1>3. \A f \in Files : Entries(bbs, f) = {} /\ told[f] = Unclear
  BY <1>1 DEF Init, Entries
<1>4. \A r \in Runs : BbsOK(r) /\ ListOK(r)
  BY <1>2 DEF BbsOK, ListOK, StoringSteps, ListingSteps
<1>5. \A f \in Files : FileOK(f)
  BY <1>3 DEF FileOK, Unique
<1>6. TmpOK
  BY <1>3, NoListType DEF Init, TmpOK, NamedIn
<1> QED
  BY <1>1, <1>4, <1>5, <1>6 DEF DInv

LEMMA DHolds == Spec => [](Core /\ DInv)
<1>1. Init => Core /\ DInv
  BY CoreInit, DInit
<1>2. Core /\ DInv /\ [Next]_vars => (Core /\ DInv)'
  BY CoreStep, DNext
<1> QED
  BY <1>1, <1>2, PTL DEF Spec

(* With a lock, a file in the directory that was given a description has   *)
(* one entry in files.bbs with this description, through any sequence of   *)
(* tosses, hatches, filelists and runs that die (add_desc.c, filelist.c).  *)
(* Empty lines may have gone, and nothing is said of a description with a  *)
(* line that removeDesc takes for an entry (MayLoseLines).                 *)
THEOREM DescriptionsAreKept == Spec => []DescriptionsKept
<1>1. TInv /\ DInv => DescriptionsKept
  <2> SUFFICES ASSUME TInv, DInv, Locked, NEW f \in dir, told[f] # Unclear, ~Storing(f)
               PROVE  /\ Cardinality(Entries(bbs, f)) = 1
                      /\ ~MayLoseLines(told[f]) =>
                           Shown(setup.mark, GetDesc(bbs, f)) = Shown(setup.mark, told[f])
    BY DEF DescriptionsKept, Locked
  <2>1. f \in Files
    BY DEF TInv, Types, TextsOK
  <2>2. ~Adding(f)
    <3> SUFFICES ASSUME NEW r \in Runs, pc[r] = "add", tickets[now[r]].file = f PROVE Storing(f)
      BY DEF Adding
    <3>1. now[r] # 0 /\ HasDir(now[r])
      BY DEF TInv, RunOK, StoringSteps
    <3> QED
      BY <3>1 DEF Storing
  <2>3. Unique(bbs, f) /\ Kept(f)
    BY <2>1, <2>2 DEF DInv, FileOK
  <2>4. \E k : Entries(bbs, f) = {k}
    BY <2>3 DEF Unique, Kept
  <2>5. Cardinality(Entries(bbs, f)) = 1
    BY <2>4, FS_Singleton
  <2> QED
    BY <2>3, <2>5 DEF Kept
<1> QED
  BY <1>1, DHolds, PTL DEF Core

(* With a lock, when filelist.c is done, the list and files.bbs hold the   *)
(* files of the directory, with the same descriptions, and the total of    *)
(* the list is exact; they hold no other file, but files.bbs.tmp if a run  *)
(* has died.                                                               *)
THEOREM ListIsRight == Spec => []ListedRight
<1>1. TInv /\ DInv => ListedRight
  <2> DEFINE entered == {line.word : line \in {bbs[k] : k \in {j \in DOMAIN bbs : bbs[j].mark = "word"}}}
  <2> SUFFICES ASSUME TInv, DInv, Locked, NEW r \in Runs, pc[r] = "listed"
               PROVE  /\ entered \ {Tmp} = dir /\ DoneOf(r) \ {Tmp} = dir
                      /\ Tmp \in entered \cup DoneOf(r) => faults > 0
                      /\ \A e \in list[r].entries : e.file \in dir =>
                           \/ MayLoseLines(e.desc)
                           \/ Shown(setup.mark, e.desc) = Shown(setup.mark, ParseBBS(bbs)[e.file])
                      /\ Bytes(list[r].size) = SumFunction([f \in DoneOf(r) |-> Size[f]])
    BY DEF ListedRight, Locked, DoneOf
  <2> HIDE DEF entered
  <2>1. ListOK(r) /\ TmpOK /\ RunOK(r) /\ ConfigOK /\ TextsOK
    BY DEF DInv, TInv, Types
  <2>2. todo[r] = {} /\ dir \subseteq Files \ {Tmp}
    BY <2>1 DEF RunOK, StoringSteps, TextsOK
  <2>3. /\ EntriesOK(list[r].entries, list[r].size, DoneOf(r)) /\ DoneOf(r) \ {Tmp} = dir
        /\ Tmp \in DoneOf(r) => faults > 0
    BY <2>1, <2>2 DEF ListOK, ListingSteps, Covers
  <2>4. NamedIn(bbs) \ {Tmp} = dir /\ (Tmp \in NamedIn(bbs) => faults > 0)
    <3>1. DOMAIN gone[r] = {}
      BY <2>1 DEF ListOK
    <3>2. NamedIn(bbs) \ (dir \cup {Tmp}) \subseteq {}
      BY <2>1, <3>1 DEF ListOK, Range
    <3> QED
      BY <2>1, <2>2, <2>3, <3>2 DEF EntriesOK, TmpOK
  <2>5. entered = NamedIn(bbs)
    <3>1. setup.mark \in Marks /\ bbs \in Seq(BbsOf(setup.mark))
      BY <2>1, SetupIs DEF ConfigOK, TextsOK, BbsLine
    <3>2. ASSUME NEW k \in DOMAIN bbs, bbs[k].mark = "word" PROVE bbs[k].word \in Files
      <4> PICK line : line = bbs[k]
        OBVIOUS
      <4>1. line \in BbsOf(setup.mark)
        BY <3>1
      <4> QED
        BY <3>1, <3>2, <4>1, LineKinds
    <3>3. ASSUME NEW k \in DOMAIN bbs, bbs[k].mark = "word" PROVE bbs[k].word \in NamedIn(bbs)
      BY <3>2, <3>3 DEF NamedIn, Entries
    <3>4. ASSUME NEW f \in NamedIn(bbs)
          PROVE  \E k \in DOMAIN bbs : bbs[k].mark = "word" /\ bbs[k].word = f
      BY <3>4 DEF NamedIn, Entries
    <3> QED
      BY <3>3, <3>4 DEF entered
  <2>6. ASSUME NEW e \in list[r].entries, e.file \in dir
        PROVE  \/ MayLoseLines(e.desc)
               \/ Shown(setup.mark, e.desc) = Shown(setup.mark, ParseBBS(bbs)[e.file])
    <3>1. e.file \in dir /\ SameDesc(e)
      BY <2>2, <2>3, <2>6 DEF EntriesOK
    <3>2. Unique(bbs, e.file)
      BY <2>1, <3>1 DEF TextsOK, DInv, FileOK
    <3>3. bbs \in Seq(BbsLine) /\ \A line \in BbsLine : line.text \in Texts
      BY <2>1, LinesAre DEF TextsOK, ConfigOK
    <3>4. ParseBBS(bbs)[e.file] = GetDesc(bbs, e.file)
      BY <2>4, <3>1, <3>2, <3>3, ParseType
    <3> QED
      BY <3>1, <3>4 DEF SameDesc
  <2>7. Bytes(list[r].size) = SumFunction([f \in DoneOf(r) |-> Size[f]])
    BY <2>3 DEF EntriesOK, Total, On
  <2> QED
    BY <2>3, <2>4, <2>5, <2>6, <2>7
<1> QED
  BY <1>1, DHolds, PTL DEF Core
=============================================================================
