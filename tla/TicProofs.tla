----------------------------- MODULE TicProofs ------------------------------
(***************************************************************************)
(* The ticket and its seen-by list: for all addresses, lists, chains of    *)
(* tickers and tickets.                                                    *)
(*                                                                         *)
(* First the seen-by list by itself (SeenBy): it is a set, and sorting it  *)
(* has one result.  Then writing and reading: what parseTic makes of the   *)
(* text that writeTic made of a ticket.  Last the ticket on its way (Tic). *)
(***************************************************************************)
EXTENDS Tic, InductionLemmas, TLAPS

-----------------------------------------------------------------------------
(* The seen-by list. *)

(* cmp_Addr is a comparison: of two addresses exactly one of "less",       *)
(* "greater" and "equal in all four parts" holds.                          *)
THEOREM CmpTotal ==
  ASSUME NEW a \in HsAddr, NEW b \in HsAddr
  PROVE  /\ Less(a, b) <=> Greater(b, a)
         /\ ~Less(a, b) /\ ~Greater(a, b) <=> a = b
         /\ ~(Less(a, b) /\ Greater(a, b))
BY DEF HsAddr, Less, Greater

(* ... and it orders addresses, which is what qsort relies on. *)
THEOREM CmpTransitive ==
  ASSUME NEW a \in HsAddr, NEW b \in HsAddr, NEW c \in HsAddr,
         Less(a, b), Less(b, c)
  PROVE  Less(a, c)
BY DEF HsAddr, Less

(* seenbyAdd puts the address on the list and changes nothing else. *)
LEMMA AddListed ==
  ASSUME NEW s \in Seq(HsAddr), NEW a \in HsAddr
  PROVE  /\ SeenbyAdd(s, a) \in Seq(HsAddr)
         /\ Listed(SeenbyAdd(s, a)) = Listed(s) \cup {a}
<1>1. CASE SeenbyComp(s, a) = 0
  BY <1>1 DEF SeenbyAdd, SeenbyComp, Listed
<1>2. CASE SeenbyComp(s, a) # 0
  <2>1. SeenbyAdd(s, a) = Append(s, a)
    BY <1>2 DEF SeenbyAdd
  <2>2. DOMAIN Append(s, a) = DOMAIN s \cup {Len(s) + 1}
    OBVIOUS
  <2>3. \A i \in DOMAIN s : Append(s, a)[i] = s[i]
    OBVIOUS
  <2>4. Append(s, a)[Len(s) + 1] = a
    OBVIOUS
  <2> QED
    BY <2>1, <2>2, <2>3, <2>4 DEF Listed
<1> QED
  BY <1>1, <1>2

(* Sorting keeps the addresses, and a list without repeated entries stays  *)
(* one.                                                                    *)
LEMMA SortListed ==
  ASSUME NEW s \in Seq(HsAddr), Len(s) <= MaxList, NEW t \in SeenbySort(s)
  PROVE  /\ t \in Seq(HsAddr) /\ Len(t) = Len(s)
         /\ Listed(t) = Listed(s)
         /\ (\A i, j \in DOMAIN s : s[i] = s[j] => i = j)
              => (\A i, j \in DOMAIN t : t[i] = t[j] => i = j)
<1>1. Len(s) \in Nat /\ DOMAIN s = 1 .. Len(s) /\ \A i \in 1 .. Len(s) : s[i] \in HsAddr
  OBVIOUS
<1>2. PICK p \in Bijection(1 .. Len(s), 1 .. Len(s)) : t = [i \in 1 .. Len(s) |-> s[p[i]]]
  BY <1>1, SeenByAssumption DEF SeenbySort, Rearrangements
<1>3. /\ p \in [1 .. Len(s) -> 1 .. Len(s)]
      /\ \A w \in 1 .. Len(s) : \E v \in 1 .. Len(s) : p[v] = w
      /\ \A i, j \in 1 .. Len(s) : p[i] = p[j] => i = j
  BY <1>2 DEF Bijection, Injection, Surjection, IsInjective
<1>4. t \in Seq(HsAddr) /\ Len(t) = Len(s)
  BY <1>1, <1>2, <1>3
<1>5. Listed(t) = Listed(s)
  BY <1>1, <1>2, <1>3 DEF Listed
<1>6. ASSUME \A i, j \in DOMAIN s : s[i] = s[j] => i = j
      PROVE  \A i, j \in DOMAIN t : t[i] = t[j] => i = j
  <2> SUFFICES ASSUME NEW i \in DOMAIN t, NEW j \in DOMAIN t, t[i] = t[j] PROVE i = j
    OBVIOUS
  <2>1. i \in 1 .. Len(s) /\ j \in 1 .. Len(s) /\ t[i] = s[p[i]] /\ t[j] = s[p[j]]
    BY <1>2
  <2>2. p[i] \in 1 .. Len(s) /\ p[j] \in 1 .. Len(s)
    BY <1>3, <2>1
  <2>3. p[i] = p[j]
    BY <1>1, <1>6, <2>1, <2>2
  <2> QED
    BY <1>3, <2>1, <2>3
<1> QED
  BY <1>4, <1>5, <1>6

(* The inductive invariant: the list holds what was added, once.           *)
Exact == ListTypeOK /\ added \subseteq Addresses /\ Listed(list) = added /\ NoRepeats

LEMMA ListInitOK == ListInit => Exact
<1> SUFFICES ASSUME list = <<>>, added = {} PROVE Exact
  BY DEF ListInit
<1>1. DOMAIN list = {} /\ list \in Seq(HsAddr) /\ Len(list) = 0
  OBVIOUS
<1> QED
  BY <1>1, SeenByAssumption DEF Exact, ListTypeOK, Listed, NoRepeats

(* One more address. *)
LEMMA AddOK ==
  ASSUME Exact, NEW a \in Addresses, AddStep(a)
  PROVE  Exact'
<1>1. ListTypeOK' /\ (added \subseteq Addresses)' /\ (Listed(list) = added)'
  <2>1. list \in Seq(HsAddr) /\ Len(SeenbyAdd(list, a)) <= MaxList /\ a \in HsAddr
    BY SeenByAssumption DEF Exact, ListTypeOK, AddStep
  <2>2. list' \in Seq(HsAddr) /\ Listed(list') = Listed(list) \cup {a}
    BY <2>1, AddListed DEF AddStep
  <2> QED
    BY <2>1, <2>2 DEF Exact, ListTypeOK, AddStep, Listed
<1>2. CASE SeenbyComp(list, a) = 0
  BY <1>1, <1>2 DEF Exact, NoRepeats, AddStep, SeenbyAdd
<1>3. CASE SeenbyComp(list, a) # 0
  <2>1. list' = Append(list, a) /\ \A i \in DOMAIN list : list[i] # a
    BY <1>3 DEF AddStep, SeenbyAdd, SeenbyComp
  <2>2. NoRepeats'
    BY <2>1 DEF Exact, ListTypeOK, NoRepeats
  <2> QED
    BY <1>1, <2>2 DEF Exact
<1> QED
  BY <1>2, <1>3

LEMMA ExactStep == Exact /\ [ListNext]_svars => Exact'
<1> SUFFICES ASSUME Exact, [ListNext]_svars PROVE Exact'
  OBVIOUS
<1>1. CASE NewList
  <2>1. list' = <<>> /\ added' = {} /\ Len(<<>>) = 0
        /\ DOMAIN <<>> = {} /\ <<>> \in Seq(HsAddr)
    BY <1>1 DEF NewList
  <2> QED
    BY <2>1, SeenByAssumption DEF Exact, ListTypeOK, Listed, NoRepeats
<1>2. ASSUME NEW a \in Addresses, AddStep(a) PROVE Exact'
  BY <1>2, AddOK, SeenByAssumption
<1>3. CASE SortStep
  BY <1>3, SortListed DEF Exact, ListTypeOK, NoRepeats, SortStep
<1>4. CASE UNCHANGED svars
  BY <1>4 DEF Exact, ListTypeOK, Listed, NoRepeats, svars
<1> QED
  BY <1>1, <1>2, <1>3, <1>4 DEF ListNext

(* Adding and sorting never lose an address nor invent one nor list one    *)
(* twice: what seenbyComp finds is exactly what was added.                 *)
THEOREM SeenByIsSet == ListSpec => []ListIsSet
<1>1. Exact => ListIsSet
  BY DEF Exact, ListIsSet, Listed, SeenbyComp
<1> QED
  BY <1>1, ListInitOK, ExactStep, PTL DEF ListSpec

(* What qsort leaves is in ascending order throughout, not only from entry *)
(* to entry.                                                               *)
LEMMA Ascending ==
  ASSUME NEW t \in Seq(HsAddr), Ordered(t),
         \A i, j \in DOMAIN t : t[i] = t[j] => i = j
  PROVE  \A i, j \in DOMAIN t : i < j => Less(t[i], t[j])
<1>1. Len(t) \in Nat /\ DOMAIN t = 1 .. Len(t) /\ \A i \in 1 .. Len(t) : t[i] \in HsAddr
  OBVIOUS
<1> DEFINE Apart(k) == \A i \in 1 .. Len(t) : i + k + 1 <= Len(t) => Less(t[i], t[i + k + 1])
           T == {k \in Nat : Apart(k)}
<1>2. ASSUME NEW i \in 1 .. Len(t), i + 1 <= Len(t) PROVE Less(t[i], t[i + 1])
  <2>1. i + 1 \in 1 .. Len(t) /\ i \in 1 .. Len(t) - 1
    BY <1>1, <1>2
  <2>2. ~Greater(t[i], t[i + 1])
    BY <2>1 DEF Ordered
  <2>3. t[i] # t[i + 1]
    BY <1>1, <2>1
  <2> QED
    BY <1>1, <2>1, <2>2, <2>3, CmpTotal
<1>3. 0 \in T
  BY <1>2
<1>4. ASSUME NEW k \in Nat, k \in T PROVE k + 1 \in T
  <2> SUFFICES ASSUME NEW i \in 1 .. Len(t), i + (k + 1) + 1 <= Len(t)
               PROVE  Less(t[i], t[i + (k + 1) + 1])
    OBVIOUS
  <2> DEFINE j == i + k + 1
  <2>1. j \in 1 .. Len(t) /\ j + 1 \in 1 .. Len(t) /\ j + 1 = i + (k + 1) + 1
    BY <1>1
  <2>2. Less(t[i], t[j])
    BY <1>1, <1>4
  <2> HIDE DEF j
  <2>3. Less(t[j], t[j + 1])
    BY <1>1, <1>2, <2>1
  <2>4. Less(t[i], t[j + 1])
    BY <1>1, <2>1, <2>2, <2>3, CmpTransitive
  <2> QED
    BY <2>1, <2>4
<1>5. \A k \in Nat : k \in T
  <2> HIDE DEF T
  <2> QED
    BY <1>3, <1>4, NatInduct
<1> SUFFICES ASSUME NEW i \in 1 .. Len(t), NEW j \in 1 .. Len(t), i < j
             PROVE  Less(t[i], t[j])
  BY <1>1
<1> DEFINE k == j - i - 1
<1>6. k \in Nat /\ i + k + 1 = j /\ j <= Len(t)
  BY <1>1
<1> HIDE DEF k
<1>7. Apart(k)
  BY <1>5, <1>6
<1> QED
  BY <1>1, <1>6, <1>7

(* Of two ascending lists of the same addresses, neither is smaller where  *)
(* they first differ.                                                      *)
LEMMA NotSmaller ==
  ASSUME NEW t \in Seq(HsAddr), NEW u \in Seq(HsAddr),
         \A i, j \in DOMAIN u : i < j => Less(u[i], u[j]),
         \A i, j \in DOMAIN t : t[i] = t[j] => i = j,
         Len(t) = Len(u), Listed(t) = Listed(u),
         NEW d \in DOMAIN t, \A i \in DOMAIN t : i < d => t[i] = u[i]
  PROVE  ~Less(t[d], u[d])
<1> SUFFICES ASSUME Less(t[d], u[d]) PROVE FALSE
  OBVIOUS
<1>1. /\ Len(t) \in Nat /\ DOMAIN t = 1 .. Len(t) /\ DOMAIN u = 1 .. Len(t)
      /\ \A i \in 1 .. Len(t) : t[i] \in HsAddr /\ u[i] \in HsAddr
  OBVIOUS
<1>2. PICK e \in 1 .. Len(t) : u[e] = t[d]
  BY <1>1 DEF Listed
<1>3. CASE e < d
  BY <1>1, <1>2, <1>3
<1>4. CASE e = d
  BY <1>1, <1>2, <1>4, CmpTotal
<1>5. CASE e > d
  <2>1. Less(u[d], u[e])
    BY <1>1, <1>5
  <2> QED
    BY <1>1, <1>2, <2>1, CmpTotal
<1> QED
  BY <1>1, <1>2, <1>3, <1>4, <1>5

(* There is only one way to sort a list without repetitions. *)
LEMMA SortedOnce ==
  ASSUME NEW s \in Seq(HsAddr), Len(s) <= MaxList,
         \A i, j \in DOMAIN s : s[i] = s[j] => i = j,
         NEW t \in SeenbySort(s), NEW u \in SeenbySort(s)
  PROVE  t = u
<1>1. /\ t \in Seq(HsAddr) /\ Len(t) = Len(s) /\ Listed(t) = Listed(s)
      /\ \A i, j \in DOMAIN t : t[i] = t[j] => i = j
  BY SortListed
<1>2. /\ u \in Seq(HsAddr) /\ Len(u) = Len(s) /\ Listed(u) = Listed(s)
      /\ \A i, j \in DOMAIN u : u[i] = u[j] => i = j
  BY SortListed
<1>3. Ordered(t) /\ Ordered(u)
  BY DEF SeenbySort
<1>4. /\ \A i, j \in DOMAIN t : i < j => Less(t[i], t[j])
      /\ \A i, j \in DOMAIN u : i < j => Less(u[i], u[j])
  BY <1>1, <1>2, <1>3, Ascending
<1>5. /\ Len(s) \in Nat /\ DOMAIN t = 1 .. Len(s) /\ DOMAIN u = 1 .. Len(s)
      /\ \A i \in 1 .. Len(s) : t[i] \in HsAddr /\ u[i] \in HsAddr
  BY <1>1, <1>2
<1> DEFINE Differ == {i \in 1 .. Len(s) : t[i] # u[i]}
<1>6. ASSUME Differ # {} PROVE FALSE
  <2> DEFINE d == Min(Differ)
  <2> Differ \in SUBSET Nat
    OBVIOUS
  <2>1. d \in Differ /\ \A y \in Differ : d <= y
    <3> HIDE DEF Differ
    <3> QED
      BY <1>6, MinIn
  <2> HIDE DEF d
  <2>2. d \in 1 .. Len(s) /\ \A i \in 1 .. Len(s) : i < d => t[i] = u[i]
    BY <2>1
  <2>3. ~Less(t[d], u[d])
    BY <1>1, <1>2, <1>4, <1>5, <2>2, NotSmaller
  <2>4. ~Less(u[d], t[d])
    BY <1>1, <1>2, <1>4, <1>5, <2>2, NotSmaller
  <2> QED
    BY <1>5, <2>1, <2>3, <2>4, CmpTotal
<1>7. t = [i \in 1 .. Len(s) |-> t[i]] /\ u = [i \in 1 .. Len(s) |-> u[i]]
  BY <1>1, <1>2
<1> QED
  BY <1>6, <1>7

(* The list that goes into a ticket depends on the addresses only: qsort   *)
(* with cmp_Addr has no choice, since no address is listed twice.          *)
THEOREM SortingIsCanonical == ListSpec => []SortCanonical
<1>1. Exact => SortCanonical
  BY SortedOnce DEF Exact, ListTypeOK, NoRepeats, SortCanonical
<1> QED
  BY <1>1, ListInitOK, ExactStep, PTL DEF ListSpec

-----------------------------------------------------------------------------
(* Reading: what ValuesOf finds, line by line. *)

Values == Words \cup Int \cup HsAddr

(* The lines that tickets have: an address for a seen-by line, a node's    *)
(* number for To, a number for Size, and a checksum of a file that has not *)
(* been damaged (99) for Crc.                                              *)
LineType ==
  {l \in [key : Keywords, value : Values] :
     /\ l.key = "Seenby" => l.value \in Addresses
     /\ l.key = "To" => l.value \in 0 .. MaxHops + 1
     /\ l.key = "Size" => l.value \in Nat
     /\ l.key = "Crc" => l.value \in Nat \ {99}}

(* The values that lines with a keyword have. *)
ValueType(key) == {l.value : l \in {k \in LineType : k.key = key /\ k # Line("Replaces", "*")}}

(* What one line adds to the values of a keyword. *)
AddValue(values, l, key) ==
  IF l.key = key /\ l # Line("Replaces", "*") THEN Append(values, l.value) ELSE values

(* The function that FoldLeft chooses. *)
IsReading(it, lines, key) ==
  it = [S \in SUBSET DOMAIN lines |->
          IF S = {} THEN <<>>
          ELSE AddValue(it[S \ {Max(S)}], lines[Max(S)], key)]

LEMMA ReadingExists ==
  ASSUME NEW lines \in Seq(LineType), NEW key
  PROVE  \E it : IsReading(it, lines, key) /\ ValuesOf(lines, key) = it[1 .. Len(lines)]
<1> DEFINE n == Len(lines)
           X == Seq(ValueType(key))
           F == [p \in (1 .. n) \X X |-> AddValue(p[2], lines[p[1]], key)]
<1>1. n \in Nat /\ <<>> \in X /\ DOMAIN lines = 1 .. n
      /\ \A i \in 1 .. n : lines[i] \in LineType
  OBVIOUS
<1>2. \A i \in 1 .. n, values \in X : AddValue(values, lines[i], key) \in X
  BY <1>1 DEF AddValue, ValueType
<1> HIDE DEF X, n
<1>3. F \in [(1 .. n) \X X -> X]
  BY <1>2
<1>4. PICK it : IsFold(it, n, X, <<>>, F)
  BY <1>1, <1>3, FoldExists
<1>5. ASSUME NEW S \in SUBSET (1 .. n), S # {}
      PROVE  it[S] = AddValue(it[S \ {Max(S)}], lines[Max(S)], key)
  <2>1. Max(S) \in 1 .. n
    BY <1>1, <1>5, MaxIn
  <2>2. it[S \ {Max(S)}] \in X
    BY <1>4 DEF IsFold
  <2>3. it[S] = F[<<Max(S), it[S \ {Max(S)}]>>]
    BY <1>4, <1>5 DEF IsFold
  <2> QED
    BY <2>1, <2>2, <2>3
<1>6. it[{}] = <<>> /\ it = [S \in SUBSET (1 .. n) |-> it[S]]
  BY <1>4 DEF IsFold
<1>7. IsReading(it, lines, key)
  BY <1>1, <1>5, <1>6 DEF IsReading
<1>8. IsReading(CHOOSE r : IsReading(r, lines, key), lines, key)
  BY <1>7
<1>9. ValuesOf(lines, key) = (CHOOSE r : IsReading(r, lines, key))[DOMAIN lines]
  BY DEF ValuesOf, FoldLeft, MapThenFoldSet, IsReading, AddValue
<1> QED
  BY <1>1, <1>8, <1>9 DEF n

(* It goes through the lines from the first to the last. *)
LEMMA ReadingStep ==
  ASSUME NEW lines \in Seq(LineType), NEW key, NEW it, IsReading(it, lines, key)
  PROVE  /\ it[1 .. 0] = <<>>
         /\ \A k \in 1 .. Len(lines) :
              it[1 .. k] = AddValue(it[1 .. k - 1], lines[k], key)
<1>1. Len(lines) \in Nat /\ DOMAIN lines = 1 .. Len(lines)
  OBVIOUS
<1>2. it[1 .. 0] = <<>>
  <2>1. 1 .. 0 = {}
    OBVIOUS
  <2> QED
    BY <2>1 DEF IsReading
<1>3. ASSUME NEW k \in 1 .. Len(lines)
      PROVE  it[1 .. k] = AddValue(it[1 .. k - 1], lines[k], key)
  <2>1. k \in Nat /\ k > 0 /\ 1 .. k \in SUBSET DOMAIN lines
    BY <1>1
  <2>2. Max(1 .. k) = k /\ (1 .. k) \ {k} = 1 .. k - 1 /\ 1 .. k # {}
    BY <2>1, MaxUpTo
  <2> QED
    BY <2>1, <2>2 DEF IsReading
<1> QED
  BY <1>2, <1>3

(* parseTic reads on: the next line adds its value, or nothing. *)
LEMMA ValuesOfAppend ==
  ASSUME NEW lines \in Seq(LineType), NEW l \in LineType, NEW key
  PROVE  /\ ValuesOf(<<>>, key) = <<>>
         /\ ValuesOf(Append(lines, l), key) = AddValue(ValuesOf(lines, key), l, key)
<1>1. ValuesOf(<<>>, key) = <<>>
  <2>1. <<>> \in Seq(LineType) /\ Len(<<>>) = 0
    OBVIOUS
  <2>2. PICK it : IsReading(it, <<>>, key) /\ ValuesOf(<<>>, key) = it[1 .. Len(<<>>)]
    BY <2>1, ReadingExists
  <2>3. it[1 .. 0] = <<>>
    BY <2>1, <2>2, ReadingStep
  <2> QED
    BY <2>1, <2>2, <2>3
<1> DEFINE more == Append(lines, l)
           n == Len(lines)
<1>2. /\ more \in Seq(LineType) /\ n \in Nat /\ Len(more) = n + 1
      /\ more[n + 1] = l /\ \A k \in 1 .. n : more[k] = lines[k]
  OBVIOUS
<1>3. PICK it : IsReading(it, lines, key) /\ ValuesOf(lines, key) = it[1 .. n]
  BY ReadingExists
<1>4. PICK on : IsReading(on, more, key) /\ ValuesOf(more, key) = on[1 .. n + 1]
  BY <1>2, ReadingExists
<1>5. /\ it[1 .. 0] = <<>>
      /\ \A k \in 1 .. n : it[1 .. k] = AddValue(it[1 .. k - 1], lines[k], key)
  BY <1>3, ReadingStep
<1> HIDE DEF more
<1>6. /\ on[1 .. 0] = <<>>
      /\ \A k \in 1 .. n + 1 : on[1 .. k] = AddValue(on[1 .. k - 1], more[k], key)
  BY <1>2, <1>4, ReadingStep
<1> HIDE DEF n
<1> DEFINE T == {k \in Nat : k <= n => it[1 .. k] = on[1 .. k]}
<1>7. 0 \in T
  BY <1>5, <1>6
<1>8. ASSUME NEW k \in Nat, k \in T PROVE k + 1 \in T
  <2> SUFFICES ASSUME k + 1 <= n PROVE it[1 .. k + 1] = on[1 .. k + 1]
    OBVIOUS
  <2>1. k + 1 \in 1 .. n /\ k + 1 \in 1 .. n + 1 /\ (k + 1) - 1 = k
    BY <1>2
  <2> QED
    BY <1>2, <1>5, <1>6, <1>8, <2>1
<1>9. \A k \in Nat : k \in T
  <2> HIDE DEF T
  <2> QED
    BY <1>7, <1>8, NatInduct
<1>10. n + 1 \in 1 .. n + 1 /\ (n + 1) - 1 = n /\ it[1 .. n] = on[1 .. n]
  BY <1>2, <1>9
<1>11. on[1 .. n + 1] = AddValue(on[1 .. n], more[n + 1], key)
  BY <1>6, <1>10
<1> QED
  BY <1>1, <1>2, <1>3, <1>4, <1>10, <1>11 DEF more

(* An empty text has no values. *)
LEMMA ValuesOfNothing ==
  ASSUME NEW key
  PROVE  ValuesOf(<<>>, key) = <<>>
<1>1. Line("File", "f") \in LineType /\ <<>> \in Seq(LineType)
  BY DEF Line, LineType, Keywords, Values, Words
<1> QED
  BY <1>1, ValuesOfAppend

(* Values are those of lines with the keyword. *)
LEMMA ValuesOfType ==
  ASSUME NEW key
  PROVE  \A lines \in Seq(LineType) : ValuesOf(lines, key) \in Seq(ValueType(key))
<1> DEFINE T == {lines \in Seq(LineType) : ValuesOf(lines, key) \in Seq(ValueType(key))}
<1>1. <<>> \in T
  <2>1. <<>> \in Seq(LineType) /\ <<>> \in Seq(ValueType(key))
    OBVIOUS
  <2> QED
    BY <2>1, ValuesOfNothing
<1>2. ASSUME NEW lines \in Seq(LineType), NEW l \in LineType, lines \in T
      PROVE  Append(lines, l) \in T
  <2>1. ValuesOf(Append(lines, l), key) = AddValue(ValuesOf(lines, key), l, key)
    BY ValuesOfAppend
  <2>2. ValuesOf(lines, key) \in Seq(ValueType(key))
    BY <1>2
  <2>3. AddValue(ValuesOf(lines, key), l, key) \in Seq(ValueType(key))
    BY <2>2 DEF AddValue, ValueType
  <2>4. Append(lines, l) \in Seq(LineType)
    OBVIOUS
  <2> QED
    BY <2>1, <2>3, <2>4
<1>3. \A lines \in Seq(LineType) : lines \in T
  <2> HIDE DEF T
  <2> QED
    BY <1>1, <1>2, SeqInduct
<1> QED
  BY <1>3

LEMMA AddValueConcat ==
  ASSUME NEW V, NEW s \in Seq(V), NEW t \in Seq(V), NEW l, NEW key,
         l.key = key /\ l # Line("Replaces", "*") => l.value \in V
  PROVE  AddValue(s \o t, l, key) = s \o AddValue(t, l, key)
<1>1. CASE l.key = key /\ l # Line("Replaces", "*")
  <2>1. \A v \in V : Append(s \o t, v) = s \o Append(t, v)
    OBVIOUS
  <2> QED
    BY <1>1, <2>1 DEF AddValue
<1>2. CASE ~(l.key = key /\ l # Line("Replaces", "*"))
  BY <1>2 DEF AddValue
<1> QED
  BY <1>1, <1>2

(* A text in two parts has the values of the first and then of the second. *)
LEMMA ValuesOfConcat ==
  ASSUME NEW a \in Seq(LineType), NEW key
  PROVE  \A b \in Seq(LineType) :
           ValuesOf(a \o b, key) = ValuesOf(a, key) \o ValuesOf(b, key)
<1> DEFINE T == {b \in Seq(LineType) :
                   ValuesOf(a \o b, key) = ValuesOf(a, key) \o ValuesOf(b, key)}
<1>1. <<>> \in T
  <2>1. <<>> \in Seq(LineType) /\ a \o <<>> = a
    OBVIOUS
  <2>2. ValuesOf(a, key) \in Seq(ValueType(key))
    BY ValuesOfType
  <2>3. ValuesOf(a, key) \o <<>> = ValuesOf(a, key)
    BY <2>2
  <2> QED
    BY <2>1, <2>3, ValuesOfNothing
<1>2. ASSUME NEW b \in Seq(LineType), NEW l \in LineType, b \in T
      PROVE  Append(b, l) \in T
  <2>1. a \o b \in Seq(LineType) /\ a \o Append(b, l) = Append(a \o b, l)
        /\ Append(b, l) \in Seq(LineType)
    OBVIOUS
  <2> DEFINE va == ValuesOf(a, key)
             vb == ValuesOf(b, key)
  <2>2. va \in Seq(ValueType(key)) /\ vb \in Seq(ValueType(key))
    BY ValuesOfType
  <2>3. /\ ValuesOf(Append(a \o b, l), key) = AddValue(ValuesOf(a \o b, key), l, key)
        /\ ValuesOf(Append(b, l), key) = AddValue(vb, l, key)
    BY <2>1, ValuesOfAppend
  <2>4. ValuesOf(a \o b, key) = va \o vb
    BY <1>2
  <2> HIDE DEF va, vb
  <2>5. AddValue(va \o vb, l, key) = va \o AddValue(vb, l, key)
    <3>1. l.key = key /\ l # Line("Replaces", "*") => l.value \in ValueType(key)
      BY DEF ValueType
    <3> QED
      BY <2>2, <3>1, AddValueConcat
  <2> QED
    BY <2>1, <2>3, <2>4, <2>5 DEF va
<1>3. \A b \in Seq(LineType) : b \in T
  <2> HIDE DEF T
  <2> QED
    BY <1>1, <1>2, SeqInduct
<1> QED
  BY <1>3

(* One line. *)
LEMMA ValuesOfOne ==
  ASSUME NEW l \in LineType, NEW key
  PROVE  /\ <<l>> \in Seq(LineType)
         /\ ValuesOf(<<l>>, key) = AddValue(<<>>, l, key)
<1>1. <<>> \in Seq(LineType) /\ <<l>> = Append(<<>>, l) /\ <<l>> \in Seq(LineType)
  OBVIOUS
<1> QED
  BY <1>1, ValuesOfAppend

LEMMA ValuesOfLine ==
  ASSUME NEW l \in LineType, NEW key, l # Line("Replaces", "*")
  PROVE  /\ <<l>> \in Seq(LineType)
         /\ ValuesOf(<<l>>, key) = IF key = l.key THEN <<l.value>> ELSE <<>>
<1>1. Append(<<>>, l.value) = <<l.value>>
  OBVIOUS
<1> QED
  BY <1>1, ValuesOfOne DEF AddValue

(* Several lines of one keyword. *)
LEMMA ValuesOfEach ==
  ASSUME NEW k, NEW V, k # "Replaces", \A v \in V : Line(k, v) \in LineType, NEW key
  PROVE  \A values \in Seq(V) :
           /\ Each(k, values) \in Seq(LineType)
           /\ ValuesOf(Each(k, values), key) = IF key = k THEN values ELSE <<>>
<1> DEFINE T == {values \in Seq(V) :
                   /\ Each(k, values) \in Seq(LineType)
                   /\ ValuesOf(Each(k, values), key) = IF key = k THEN values ELSE <<>>}
<1>1. <<>> \in T
  <2>1. <<>> \in Seq(V) /\ <<>> \in Seq(LineType) /\ Each(k, <<>>) = <<>>
    BY DEF Each
  <2> QED
    BY <2>1, ValuesOfNothing
<1>2. ASSUME NEW values \in Seq(V), NEW v \in V, values \in T
      PROVE  Append(values, v) \in T
  <2> DEFINE l == Line(k, v)
  <2>1. l \in LineType /\ l.key = k /\ l.value = v /\ l # Line("Replaces", "*")
    BY DEF Line
  <2>2. Each(k, Append(values, v)) = Append(Each(k, values), l)
    <3>1. Len(values) \in Nat /\ DOMAIN values = 1 .. Len(values)
          /\ DOMAIN Append(values, v) = 1 .. Len(values) + 1
          /\ Append(values, v)[Len(values) + 1] = v
          /\ \A i \in 1 .. Len(values) : Append(values, v)[i] = values[i]
      OBVIOUS
    <3>2. Each(k, values) = [i \in 1 .. Len(values) |-> Line(k, values[i])]
      BY <3>1 DEF Each
    <3>3. Each(k, Append(values, v))
            = [i \in 1 .. Len(values) + 1 |-> Line(k, Append(values, v)[i])]
      BY <3>1 DEF Each
    <3> DEFINE s == Each(k, values)
               w == Each(k, Append(values, v))
    <3>4. s \in Seq(LineType) /\ Len(s) = Len(values)
      BY <1>2, <3>1, <3>2
    <3>5. w = [i \in 1 .. Len(s) + 1 |-> IF i = Len(s) + 1 THEN l ELSE s[i]]
      BY <3>1, <3>2, <3>3, <3>4
    <3> HIDE DEF s, w
    <3>6. w \in Seq(LineType) /\ Len(w) = Len(s) + 1
      BY <2>1, <3>4, <3>5
    <3>7. Append(s, l) \in Seq(LineType) /\ Len(Append(s, l)) = Len(s) + 1
      BY <2>1, <3>4
    <3>8. \A i \in 1 .. Len(s) + 1 : w[i] = Append(s, l)[i]
      BY <2>1, <3>4, <3>5
    <3>9. w = Append(s, l)
      BY <3>6, <3>7, <3>8, SeqEqual
    <3> QED
      BY <3>9 DEF s, w
  <2> HIDE DEF l
  <2>3. /\ Each(k, values) \in Seq(LineType)
        /\ ValuesOf(Each(k, values), key) = IF key = k THEN values ELSE <<>>
    BY <1>2
  <2>4. ValuesOf(Append(Each(k, values), l), key)
          = AddValue(ValuesOf(Each(k, values), key), l, key)
    BY <2>1, <2>3, ValuesOfAppend
  <2>5. Append(Each(k, values), l) \in Seq(LineType) /\ Append(values, v) \in Seq(V)
    BY <2>1, <2>3
  <2> QED
    BY <2>1, <2>2, <2>3, <2>4, <2>5 DEF AddValue
<1>3. \A values \in Seq(V) : values \in T
  <2> HIDE DEF T
  <2> QED
    BY <1>1, <1>2, SeqInduct
<1> QED
  BY <1>3

(* One value or none. *)
Given(cond, v) == IF cond THEN <<v>> ELSE <<>>

(* A line that is written or not. *)
LEMMA ValuesOfIf ==
  ASSUME NEW cond \in BOOLEAN, NEW k, NEW v,
         cond => Line(k, v) \in LineType /\ Line(k, v) # Line("Replaces", "*")
  PROVE  /\ If(cond, k, v) \in Seq(LineType)
         /\ \A key : ValuesOf(If(cond, k, v), key)
                      = IF key = k THEN Given(cond, v) ELSE <<>>
<1>1. CASE cond
  <2> DEFINE l == Line(k, v)
  <2>1. l \in LineType /\ l.key = k /\ l.value = v /\ l # Line("Replaces", "*")
        /\ If(cond, k, v) = <<l>> /\ Given(cond, v) = <<v>>
    BY <1>1 DEF Line, If, Given
  <2> HIDE DEF l
  <2> QED
    BY <2>1, ValuesOfLine
<1>2. CASE ~cond
  <2>1. If(cond, k, v) = <<>> /\ Given(cond, v) = <<>> /\ <<>> \in Seq(LineType)
    BY <1>2 DEF If, Given
  <2> QED
    BY <2>1, ValuesOfNothing
<1> QED
  BY <1>1, <1>2

-----------------------------------------------------------------------------
(* Writing and reading again. *)

(* Tickets in the memory of a node. *)
TicType ==
  [file : Values \cup {NoValue}, area : Values \cup {NoValue},
   desc : Seq(Values), ldesc : Seq(Values), replaces : (Values \ {"*"}) \cup {NoValue},
   from : Values, to : 0 .. MaxHops + 1, origin : Values, size : Nat \cup {-1},
   date : Values, crc : Nat \ {99}, hasCrc : BOOLEAN, path : Seq(Values),
   pw : Values \cup {NoValue}]

(* What a written text says under each keyword. *)
WrittenValues(t, seenby, key) ==
  CASE key = "File" -> <<t.file>>
    [] key = "Area" -> <<t.area>>
    [] key = "Desc" -> t.desc
    [] key = "LDesc" -> t.ldesc
    [] key = "Replaces" -> Given(t.replaces # NoValue, t.replaces)
    [] key = "From" -> Given(t.from # 0, t.from)
    [] key = "To" -> Given(t.to # 0, t.to)
    [] key = "Origin" -> Given(t.origin # 0, t.origin)
    [] key = "Size" -> Given(t.size >= 0, t.size)
    [] key = "Date" -> Given(t.date # 0, t.date)
    [] key = "Crc" -> Given(t.hasCrc \/ t.crc # 0, t.crc)
    [] key = "Path" -> t.path
    [] key = "Seenby" -> seenby
    [] key = "Pw" -> Given(t.pw # NoValue, t.pw)
    [] OTHER -> <<>>

(* One more part of the text, with lines of a keyword that is new. *)
LEMMA AddPart ==
  ASSUME NEW w \in Seq(LineType), NEW part \in Seq(LineType), NEW k, NEW values,
         \A key : ValuesOf(part, key) = IF key = k THEN values ELSE <<>>,
         ValuesOf(w, k) = <<>>, NEW V, values \in Seq(V)
  PROVE  /\ w \o part \in Seq(LineType)
         /\ \A key : ValuesOf(w \o part, key) = IF key = k THEN values ELSE ValuesOf(w, key)
<1>1. w \o part \in Seq(LineType)
  OBVIOUS
<1> SUFFICES ASSUME NEW key
             PROVE  ValuesOf(w \o part, key) = IF key = k THEN values ELSE ValuesOf(w, key)
  BY <1>1
<1>2. ValuesOf(w \o part, key) = ValuesOf(w, key) \o ValuesOf(part, key)
  BY ValuesOfConcat
<1>3. ValuesOf(w, key) \in Seq(ValueType(key))
  BY ValuesOfType
<1>4. CASE key = k
  <2>1. <<>> \o values = values
    OBVIOUS
  <2> QED
    BY <1>2, <1>4, <2>1
<1>5. CASE key # k
  <2>1. ValuesOf(w, key) \o <<>> = ValuesOf(w, key)
    BY <1>3
  <2> QED
    BY <1>2, <1>5, <2>1
<1> QED
  BY <1>4, <1>5

(* Every line that writeTic writes is one that a ticket may have. *)
LEMMA LinesOfTic ==
  ASSUME NEW t \in TicType
  PROVE  /\ t.file # NoValue => Line("File", t.file) \in LineType
         /\ t.area # NoValue => Line("Area", t.area) \in LineType
         /\ \A k \in {"Desc", "LDesc", "Path"}, v \in Values : Line(k, v) \in LineType
         /\ t.replaces # NoValue => Line("Replaces", t.replaces) \in LineType
                                     /\ t.replaces # "*"
         /\ Line("From", t.from) \in LineType /\ Line("Origin", t.origin) \in LineType
         /\ Line("Date", t.date) \in LineType
         /\ Line("To", t.to) \in LineType
         /\ t.size >= 0 => Line("Size", t.size) \in LineType
         /\ Line("Crc", t.crc) \in LineType
         /\ \A a \in Addresses : Line("Seenby", a) \in LineType
         /\ t.pw # NoValue => Line("Pw", t.pw) \in LineType
<1>1. \A k \in Keywords \ {"Seenby", "To", "Size", "Crc"}, v \in Values :
        Line(k, v) \in LineType
  BY DEF LineType, Line
<1>2. \A a \in Addresses : Line("Seenby", a) \in LineType
  BY SeenByAssumption DEF LineType, Line, Keywords, Values
<1>3. /\ Line("To", t.to) \in LineType
      /\ t.size >= 0 => Line("Size", t.size) \in LineType
      /\ Line("Crc", t.crc) \in LineType
  BY TicAssumption DEF TicType, LineType, Line, Keywords, Values
<1>4. {"File", "Area", "Desc", "LDesc", "Replaces", "From", "Origin", "Date", "Path", "Pw"}
        \subseteq Keywords \ {"Seenby", "To", "Size", "Crc"}
  BY DEF Keywords
<1>5. /\ t.file \in Values \cup {NoValue} /\ t.area \in Values \cup {NoValue}
      /\ t.replaces \in (Values \ {"*"}) \cup {NoValue} /\ t.from \in Values
      /\ t.origin \in Values /\ t.date \in Values /\ t.pw \in Values \cup {NoValue}
  BY DEF TicType
<1>6. \A k \in {"Desc", "LDesc", "Path"}, v \in Values : Line(k, v) \in LineType
  BY <1>1, <1>4
<1> QED
  BY <1>1, <1>2, <1>3, <1>4, <1>5, <1>6

(* What writeTic writes under a keyword is what parseTic finds under it.   *)
LEMMA Written ==
  ASSUME NEW t \in TicType, t.file # NoValue, t.area # NoValue,
         NEW seenby \in Seq(Addresses)
  PROVE  /\ WriteTic(t, seenby) \in Seq(LineType)
         /\ \A key : ValuesOf(WriteTic(t, seenby), key) = WrittenValues(t, seenby, key)
<1> DEFINE
  w1 == <<Line("File", t.file), Line("Area", t.area)>>
  w2 == w1 \o Each("Desc", t.desc)
  w3 == w2 \o Each("LDesc", t.ldesc)
  w4 == w3 \o If(t.replaces # NoValue, "Replaces", t.replaces)
  w5 == w4 \o If(t.from # 0, "From", t.from)
  w6 == w5 \o If(t.to # 0, "To", t.to)
  w7 == w6 \o If(t.origin # 0, "Origin", t.origin)
  w8 == w7 \o If(t.size >= 0, "Size", t.size)
  w9 == w8 \o If(t.date # 0, "Date", t.date)
  w10 == w9 \o CrcLine(t)
  w11 == w10 \o Each("Path", t.path)
  w12 == w11 \o Each("Seenby", seenby)
  w13 == w12 \o If(t.pw # NoValue, "Pw", t.pw)
  k1 == {"File", "Area"}
  k2 == k1 \cup {"Desc"}
  k3 == k2 \cup {"LDesc"}
  k4 == k3 \cup {"Replaces"}
  k5 == k4 \cup {"From"}
  k6 == k5 \cup {"To"}
  k7 == k6 \cup {"Origin"}
  k8 == k7 \cup {"Size"}
  k9 == k8 \cup {"Date"}
  k10 == k9 \cup {"Crc"}
  k11 == k10 \cup {"Path"}
  k12 == k11 \cup {"Seenby"}
  k13 == k12 \cup {"Pw"}
  Said(key) == WrittenValues(t, seenby, key)
  Says(w, keys) == /\ w \in Seq(LineType)
                   /\ \A key : ValuesOf(w, key) = IF key \in keys THEN Said(key) ELSE <<>>
<1>1. WriteTic(t, seenby) = w13
  BY DEF WriteTic
<1>2. Says(w1, k1)
  <2> DEFINE a == <<Line("File", t.file)>>
             b == <<Line("Area", t.area)>>
  <2>1. /\ a \in Seq(LineType) /\ b \in Seq(LineType)
        /\ \A key : ValuesOf(a, key) = IF key = "File" THEN <<t.file>> ELSE <<>>
        /\ \A key : ValuesOf(b, key) = IF key = "Area" THEN <<t.area>> ELSE <<>>
    <3>1. Line("File", t.file) \in LineType /\ Line("Area", t.area) \in LineType
      BY LinesOfTic
    <3>2. Line("File", t.file) # Line("Replaces", "*") /\ Line("Area", t.area) # Line("Replaces", "*")
      BY DEF Line
    <3>3. /\ Line("File", t.file).key = "File" /\ Line("File", t.file).value = t.file
          /\ Line("Area", t.area).key = "Area" /\ Line("Area", t.area).value = t.area
      BY DEF Line
    <3> QED
      BY <3>1, <3>2, <3>3, ValuesOfLine
  <2>2. w1 = a \o b
    OBVIOUS
  <2> HIDE DEF a, b, w1
  <2>3. /\ w1 \in Seq(LineType)
        /\ \A key : ValuesOf(w1, key) = IF key = "Area" THEN <<t.area>> ELSE ValuesOf(a, key)
    <3> DEFINE k == "Area"
               values == <<t.area>>
               V == {t.area}
    <3>1. values \in Seq(V) /\ ValuesOf(a, k) = <<>>
          /\ \A key : ValuesOf(b, key) = IF key = k THEN values ELSE <<>>
      BY <2>1
    <3> HIDE DEF k, values, V
    <3>2. /\ a \o b \in Seq(LineType)
          /\ \A key : ValuesOf(a \o b, key) = IF key = k THEN values ELSE ValuesOf(a, key)
      BY <2>1, <3>1, AddPart
    <3> QED
      BY <2>2, <3>2 DEF k, values
  <2> QED
    BY <2>1, <2>3 DEF WrittenValues
<1>3. ASSUME NEW w, NEW keys, Says(w, keys), NEW k, k \notin keys,
             NEW V, Said(k) \in Seq(V), NEW part \in Seq(LineType),
             \A key : ValuesOf(part, key) = IF key = k THEN Said(k) ELSE <<>>
      PROVE  Says(w \o part, keys \cup {k})
  <2>1. ValuesOf(w, k) = <<>>
    BY <1>3
  <2>2. /\ w \o part \in Seq(LineType)
        /\ \A key : ValuesOf(w \o part, key) = IF key = k THEN Said(k) ELSE ValuesOf(w, key)
    BY <1>3, <2>1, AddPart
  <2> QED
    BY <1>3, <2>2
<1>4. ASSUME NEW w, NEW keys, Says(w, keys), NEW k, k \notin keys, k # "Replaces",
             NEW V, Said(k) \in Seq(V), \A v \in V : Line(k, v) \in LineType
      PROVE  Says(w \o Each(k, Said(k)), keys \cup {k})
  <2> HIDE DEF Says, Said
  <2>1. /\ Each(k, Said(k)) \in Seq(LineType)
        /\ \A key : ValuesOf(Each(k, Said(k)), key) = IF key = k THEN Said(k) ELSE <<>>
    BY <1>4, ValuesOfEach
  <2> QED
    BY <1>3, <1>4, <2>1
<1>5. ASSUME NEW w, NEW keys, Says(w, keys), NEW k, k \notin keys,
             NEW cond \in BOOLEAN, NEW v, Said(k) = Given(cond, v),
             cond => Line(k, v) \in LineType /\ Line(k, v) # Line("Replaces", "*")
      PROVE  Says(w \o If(cond, k, v), keys \cup {k})
  <2> HIDE DEF Says, Said
  <2>1. /\ If(cond, k, v) \in Seq(LineType)
        /\ \A key : ValuesOf(If(cond, k, v), key) = IF key = k THEN Said(k) ELSE <<>>
    BY <1>5, ValuesOfIf
  <2>2. Said(k) \in Seq({v})
    <3>1. <<>> \in Seq({v}) /\ <<v>> \in Seq({v})
      OBVIOUS
    <3> QED
      BY <1>5, <3>1 DEF Given
  <2> QED
    BY <1>3, <1>5, <2>1, <2>2
<1>6. /\ t.desc \in Seq(Values) /\ t.ldesc \in Seq(Values) /\ t.path \in Seq(Values)
      /\ t.hasCrc \in BOOLEAN
  BY DEF TicType
<1>7. /\ Said("Desc") = t.desc /\ Said("LDesc") = t.ldesc /\ Said("Path") = t.path
      /\ Said("Seenby") = seenby
      /\ Said("Replaces") = Given(t.replaces # NoValue, t.replaces)
      /\ Said("From") = Given(t.from # 0, t.from)
      /\ Said("To") = Given(t.to # 0, t.to)
      /\ Said("Origin") = Given(t.origin # 0, t.origin)
      /\ Said("Size") = Given(t.size >= 0, t.size)
      /\ Said("Date") = Given(t.date # 0, t.date)
      /\ Said("Crc") = Given(t.hasCrc \/ t.crc # 0, t.crc)
      /\ Said("Pw") = Given(t.pw # NoValue, t.pw)
  BY DEF WrittenValues
<1>8. Says(w2, k2)
  <2>1. Says(w1, k1) /\ "Desc" \notin k1
    BY <1>2
  <2> HIDE DEF Says, Said, w1, k1
  <2> QED
    BY <1>4, <1>6, <1>7, <2>1, LinesOfTic
<1>9. Says(w3, k3)
  <2>1. Says(w2, k2) /\ "LDesc" \notin k2
    BY <1>8
  <2> HIDE DEF Says, Said, w2, k2
  <2> QED
    BY <1>4, <1>6, <1>7, <2>1, LinesOfTic
<1>10. Says(w4, k4)
  <2>1. Says(w3, k3) /\ "Replaces" \notin k3
    BY <1>9
  <2> HIDE DEF Says, Said, w3, k3
  <2>2. t.replaces # NoValue => Line("Replaces", t.replaces) \in LineType /\ Line("Replaces", t.replaces) # Line("Replaces", "*")
    BY LinesOfTic DEF Line
  <2>3. (t.replaces # NoValue) \in BOOLEAN /\ Said("Replaces") = Given(t.replaces # NoValue, t.replaces)
    BY <1>6, <1>7
  <2> QED
    BY <1>5, <2>1, <2>2, <2>3
<1>11. Says(w5, k5)
  <2>1. Says(w4, k4) /\ "From" \notin k4
    BY <1>10
  <2> HIDE DEF Says, Said, w4, k4
  <2>2. t.from # 0 => Line("From", t.from) \in LineType /\ Line("From", t.from) # Line("Replaces", "*")
    BY LinesOfTic DEF Line
  <2>3. (t.from # 0) \in BOOLEAN /\ Said("From") = Given(t.from # 0, t.from)
    BY <1>6, <1>7
  <2> QED
    BY <1>5, <2>1, <2>2, <2>3
<1>12. Says(w6, k6)
  <2>1. Says(w5, k5) /\ "To" \notin k5
    BY <1>11
  <2> HIDE DEF Says, Said, w5, k5
  <2>2. t.to # 0 => Line("To", t.to) \in LineType /\ Line("To", t.to) # Line("Replaces", "*")
    BY LinesOfTic DEF Line
  <2>3. (t.to # 0) \in BOOLEAN /\ Said("To") = Given(t.to # 0, t.to)
    BY <1>6, <1>7
  <2> QED
    BY <1>5, <2>1, <2>2, <2>3
<1>13. Says(w7, k7)
  <2>1. Says(w6, k6) /\ "Origin" \notin k6
    BY <1>12
  <2> HIDE DEF Says, Said, w6, k6
  <2>2. t.origin # 0 => Line("Origin", t.origin) \in LineType /\ Line("Origin", t.origin) # Line("Replaces", "*")
    BY LinesOfTic DEF Line
  <2>3. (t.origin # 0) \in BOOLEAN /\ Said("Origin") = Given(t.origin # 0, t.origin)
    BY <1>6, <1>7
  <2> QED
    BY <1>5, <2>1, <2>2, <2>3
<1>14. Says(w8, k8)
  <2>1. Says(w7, k7) /\ "Size" \notin k7
    BY <1>13
  <2> HIDE DEF Says, Said, w7, k7
  <2>2. t.size >= 0 => Line("Size", t.size) \in LineType /\ Line("Size", t.size) # Line("Replaces", "*")
    BY LinesOfTic DEF Line
  <2>3. (t.size >= 0) \in BOOLEAN /\ Said("Size") = Given(t.size >= 0, t.size)
    BY <1>6, <1>7
  <2> QED
    BY <1>5, <2>1, <2>2, <2>3
<1>15. Says(w9, k9)
  <2>1. Says(w8, k8) /\ "Date" \notin k8
    BY <1>14
  <2> HIDE DEF Says, Said, w8, k8
  <2>2. t.date # 0 => Line("Date", t.date) \in LineType /\ Line("Date", t.date) # Line("Replaces", "*")
    BY LinesOfTic DEF Line
  <2>3. (t.date # 0) \in BOOLEAN /\ Said("Date") = Given(t.date # 0, t.date)
    BY <1>6, <1>7
  <2> QED
    BY <1>5, <2>1, <2>2, <2>3
<1>16. Says(w10, k10)
  <2>1. Says(w9, k9) /\ "Crc" \notin k9
    BY <1>15
  <2> HIDE DEF Says, Said, w9, k9
  <2>2. t.hasCrc \/ t.crc # 0 => Line("Crc", t.crc) \in LineType /\ Line("Crc", t.crc) # Line("Replaces", "*")
    BY LinesOfTic DEF Line
  <2>3. (t.hasCrc \/ t.crc # 0) \in BOOLEAN /\ Said("Crc") = Given(t.hasCrc \/ t.crc # 0, t.crc)
    BY <1>6, <1>7
  <2> QED
    BY <1>5, <2>1, <2>2, <2>3 DEF CrcLine
<1>17. Says(w11, k11)
  <2>1. Says(w10, k10) /\ "Path" \notin k10
    BY <1>16
  <2> HIDE DEF Says, Said, w10, k10
  <2> QED
    BY <1>4, <1>6, <1>7, <2>1, LinesOfTic
<1>18. Says(w12, k12)
  <2>1. Says(w11, k11) /\ "Seenby" \notin k11
    BY <1>17
  <2> HIDE DEF Says, Said, w11, k11
  <2> QED
    BY <1>4, <1>6, <1>7, <2>1, LinesOfTic
<1>19. Says(w13, k13)
  <2>1. Says(w12, k12) /\ "Pw" \notin k12
    BY <1>18
  <2> HIDE DEF Says, Said, w12, k12
  <2>2. t.pw # NoValue => Line("Pw", t.pw) \in LineType /\ Line("Pw", t.pw) # Line("Replaces", "*")
    BY LinesOfTic DEF Line
  <2>3. (t.pw # NoValue) \in BOOLEAN /\ Said("Pw") = Given(t.pw # NoValue, t.pw)
    BY <1>6, <1>7
  <2> QED
    BY <1>5, <2>1, <2>2, <2>3
<1>20. \A key : key \notin k13 => Said(key) = <<>>
  BY DEF WrittenValues
<1> HIDE DEF w13, k13
<1> QED
  BY <1>1, <1>19, <1>20

(* What the reader of a ticket makes of its last line with a keyword.      *)
LEMMA LastGiven ==
  ASSUME NEW lines, NEW key, NEW default
  PROVE  /\ \A v : ValuesOf(lines, key) = <<v>> => LastOf(lines, key, default) = v
         /\ ValuesOf(lines, key) = <<>> => LastOf(lines, key, default) = default
<1>1. \A v : <<v>> # <<>> /\ Len(<<v>>) = 1 /\ <<v>>[1] = v
  OBVIOUS
<1> QED
  BY <1>1 DEF LastOf, Last

(* What a ticket becomes by being written and read: a description is never *)
(* missing, and a checksum that is not 0 counts as given.                  *)
Described(t) == [t EXCEPT !.desc = IF @ = <<>> THEN <<"no desc">> ELSE @]
Reread(t) == [Described(t) EXCEPT !.hasCrc = @ \/ t.crc # 0]

(* parseTic understands what writeTic wrote: every field of every ticket,  *)
(* and its seen-by list, come back as they were, but for a description,    *)
(* which is made up when there was none, and for the flag that a checksum  *)
(* was given.                                                              *)
THEOREM RoundTrip ==
  ASSUME NEW t \in TicType, t.file # NoValue, t.area # NoValue,
         NEW seenby \in Seq(Addresses)
  PROVE  /\ ParsedTic(WriteTic(t, seenby)) = Reread(t)
         /\ ValuesOf(WriteTic(t, seenby), "Seenby") = seenby
<1> DEFINE w == WriteTic(t, seenby)
<1>1. \A key : ValuesOf(w, key) = WrittenValues(t, seenby, key)
  BY Written
<1> HIDE DEF w
<1>2. /\ ValuesOf(w, "Desc") = t.desc
      /\ ValuesOf(w, "LDesc") = t.ldesc
      /\ ValuesOf(w, "Path") = t.path
      /\ ValuesOf(w, "Seenby") = seenby
  BY <1>1 DEF WrittenValues
<1>3. /\ LastOf(w, "File", NoValue) = t.file
      /\ LastOf(w, "Area", NoValue) = t.area
  <2>1. ValuesOf(w, "File") = <<t.file>> /\ ValuesOf(w, "Area") = <<t.area>>
    BY <1>1 DEF WrittenValues
  <2> QED
    BY <2>1, LastGiven
<1>4. /\ LastOf(w, "Replaces", NoValue) = t.replaces
      /\ LastOf(w, "Pw", NoValue) = t.pw
      /\ LastOf(w, "From", 0) = t.from
      /\ LastOf(w, "To", 0) = t.to
      /\ LastOf(w, "Origin", 0) = t.origin
      /\ LastOf(w, "Date", 0) = t.date
  <2>1. LastOf(w, "Replaces", NoValue) = t.replaces
    <3>1. ValuesOf(w, "Replaces") = IF t.replaces # NoValue THEN <<t.replaces>> ELSE <<>>
      BY <1>1 DEF WrittenValues, Given
    <3> QED
      BY <3>1, LastGiven
  <2>2. LastOf(w, "Pw", NoValue) = t.pw
    <3>1. ValuesOf(w, "Pw") = IF t.pw # NoValue THEN <<t.pw>> ELSE <<>>
      BY <1>1 DEF WrittenValues, Given
    <3> QED
      BY <3>1, LastGiven
  <2>3. LastOf(w, "From", 0) = t.from
    <3>1. ValuesOf(w, "From") = IF t.from # 0 THEN <<t.from>> ELSE <<>>
      BY <1>1 DEF WrittenValues, Given
    <3> QED
      BY <3>1, LastGiven
  <2>4. LastOf(w, "To", 0) = t.to
    <3>1. ValuesOf(w, "To") = IF t.to # 0 THEN <<t.to>> ELSE <<>>
      BY <1>1 DEF WrittenValues, Given
    <3> QED
      BY <3>1, LastGiven
  <2>5. LastOf(w, "Origin", 0) = t.origin
    <3>1. ValuesOf(w, "Origin") = IF t.origin # 0 THEN <<t.origin>> ELSE <<>>
      BY <1>1 DEF WrittenValues, Given
    <3> QED
      BY <3>1, LastGiven
  <2>6. LastOf(w, "Date", 0) = t.date
    <3>1. ValuesOf(w, "Date") = IF t.date # 0 THEN <<t.date>> ELSE <<>>
      BY <1>1 DEF WrittenValues, Given
    <3> QED
      BY <3>1, LastGiven
  <2> QED
    BY <2>1, <2>2, <2>3, <2>4, <2>5, <2>6
<1>5. LastOf(w, "Size", -1) = t.size
  <2>1. ValuesOf(w, "Size") = IF t.size >= 0 THEN <<t.size>> ELSE <<>>
    BY <1>1 DEF WrittenValues, Given
  <2>2. t.size \in Nat \cup {-1}
    BY DEF TicType
  <2>3. ~(t.size >= 0) => t.size = -1
    BY <2>2
  <2> HIDE <2>2
  <2> QED
    BY <2>1, <2>3, LastGiven
<1>6. LastOf(w, "Crc", 0) = t.crc /\ (ValuesOf(w, "Crc") # <<>> <=> t.hasCrc \/ t.crc # 0)
  <2>1. ValuesOf(w, "Crc") = IF t.hasCrc \/ t.crc # 0 THEN <<t.crc>> ELSE <<>>
    BY <1>1 DEF WrittenValues, Given
  <2>2. LastOf(w, "Crc", 0) = t.crc
    BY <2>1, LastGiven
  <2>3. <<t.crc>> # <<>>
    OBVIOUS
  <2> QED
    BY <2>1, <2>2, <2>3
<1>7. ParsedTic(w) = Reread(t)
  <2> DEFINE d == IF t.desc = <<>> THEN <<"no desc">> ELSE t.desc
             h == t.hasCrc \/ t.crc # 0
  <2>1. (ValuesOf(w, "Crc") # <<>>) = h
    <3>1. t.hasCrc \in BOOLEAN
      BY DEF TicType
    <3> QED
      BY <1>6, <3>1
  <2>2. ParsedTic(w) = [file |-> t.file, area |-> t.area, desc |-> d, ldesc |-> t.ldesc,
             replaces |-> t.replaces, from |-> t.from, to |-> t.to, origin |-> t.origin,
             size |-> t.size, date |-> t.date, crc |-> t.crc, hasCrc |-> h,
             path |-> t.path, pw |-> t.pw]
    BY <1>2, <1>3, <1>4, <1>5, <1>6, <2>1 DEF ParsedTic
  <2> HIDE DEF d
  <2>3. t = [file |-> t.file, area |-> t.area, desc |-> t.desc, ldesc |-> t.ldesc,
             replaces |-> t.replaces, from |-> t.from, to |-> t.to, origin |-> t.origin,
             size |-> t.size, date |-> t.date, crc |-> t.crc, hasCrc |-> t.hasCrc,
             path |-> t.path, pw |-> t.pw]
    BY DEF TicType
  <2>4. Described(t)
          = [file |-> t.file, area |-> t.area, desc |-> d, ldesc |-> t.ldesc,
             replaces |-> t.replaces, from |-> t.from, to |-> t.to, origin |-> t.origin,
             size |-> t.size, date |-> t.date, crc |-> t.crc, hasCrc |-> t.hasCrc,
             path |-> t.path, pw |-> t.pw]
    <3>1. Described(t) = [t EXCEPT !.desc = d]
      BY DEF Described, d
    <3> QED
      BY <2>3, <3>1
  <2>5. Reread(t) = [Described(t) EXCEPT !.hasCrc = h]
    BY <2>4 DEF Reread
  <2> HIDE DEF h
  <2> QED
    BY <2>2, <2>4, <2>5
<1> QED
  BY <1>2, <1>7 DEF w

(* What is read from lines is a ticket. *)
LEMMA LastType ==
  ASSUME NEW lines \in Seq(LineType), NEW key, NEW default
  PROVE  LastOf(lines, key, default) \in ValueType(key) \cup {default}
<1> DEFINE v == ValuesOf(lines, key)
<1>1. v \in Seq(ValueType(key))
  BY ValuesOfType
<1>2. LastOf(lines, key, default) = IF v = <<>> THEN default ELSE v[Len(v)]
  BY DEF LastOf, Last
<1> HIDE DEF v
<1>3. v # <<>> => v[Len(v)] \in ValueType(key)
  BY <1>1
<1> QED
  BY <1>2, <1>3

LEMMA ValueTypes ==
  /\ \A key : ValueType(key) \subseteq Values
  /\ ValueType("Seenby") \subseteq Addresses
  /\ ValueType("Replaces") \subseteq Values \ {"*"}
  /\ ValueType("To") \subseteq 0 .. MaxHops + 1
  /\ ValueType("Size") \subseteq Nat
  /\ ValueType("Crc") \subseteq Nat \ {99}
<1>1. \A key : ValueType(key) \subseteq Values
  BY DEF ValueType, LineType
<1>2. "*" \notin ValueType("Replaces")
  <2> SUFFICES ASSUME NEW l \in LineType, l.key = "Replaces", l # Line("Replaces", "*"),
                      l.value = "*"
               PROVE  FALSE
    BY DEF ValueType
  <2>1. l = [key |-> "Replaces", value |-> "*"]
    BY DEF LineType
  <2> QED
    BY <2>1 DEF Line
<1>3. /\ ValueType("Seenby") \subseteq Addresses
      /\ ValueType("To") \subseteq 0 .. MaxHops + 1
      /\ ValueType("Size") \subseteq Nat
      /\ ValueType("Crc") \subseteq Nat \ {99}
  BY DEF ValueType, LineType
<1> QED
  BY <1>1, <1>2, <1>3

LEMMA ParsedType ==
  ASSUME NEW lines \in Seq(LineType)
  PROVE  /\ ParsedTic(lines) \in TicType
         /\ ParsedTic(lines).desc # <<>>
         /\ ValuesOf(lines, "Seenby") \in Seq(Addresses)
<1> DEFINE t == ParsedTic(lines)
<1>1. /\ t = [file |-> t.file, area |-> t.area, desc |-> t.desc, ldesc |-> t.ldesc,
              replaces |-> t.replaces, from |-> t.from, to |-> t.to, origin |-> t.origin,
              size |-> t.size, date |-> t.date, crc |-> t.crc, hasCrc |-> t.hasCrc,
              path |-> t.path, pw |-> t.pw]
      /\ t.file = LastOf(lines, "File", NoValue) /\ t.area = LastOf(lines, "Area", NoValue)
      /\ t.desc = IF ValuesOf(lines, "Desc") = <<>> THEN <<"no desc">>
                  ELSE ValuesOf(lines, "Desc")
      /\ t.ldesc = ValuesOf(lines, "LDesc")
      /\ t.replaces = LastOf(lines, "Replaces", NoValue)
      /\ t.from = LastOf(lines, "From", 0) /\ t.to = LastOf(lines, "To", 0)
      /\ t.origin = LastOf(lines, "Origin", 0) /\ t.size = LastOf(lines, "Size", -1)
      /\ t.date = LastOf(lines, "Date", 0) /\ t.crc = LastOf(lines, "Crc", 0)
      /\ t.hasCrc = (ValuesOf(lines, "Crc") # <<>>)
      /\ t.path = ValuesOf(lines, "Path") /\ t.pw = LastOf(lines, "Pw", NoValue)
  BY DEF ParsedTic
<1> HIDE DEF t
<1>2. /\ t.file \in Values \cup {NoValue} /\ t.area \in Values \cup {NoValue}
      /\ t.replaces \in (Values \ {"*"}) \cup {NoValue} /\ t.pw \in Values \cup {NoValue}
  <2>1. \A key : LastOf(lines, key, NoValue) \in ValueType(key) \cup {NoValue}
    BY LastType
  <2>2. \A key : LastOf(lines, key, NoValue) \in Values \cup {NoValue}
    BY <2>1, ValueTypes
  <2>3. LastOf(lines, "Replaces", NoValue) \in (Values \ {"*"}) \cup {NoValue}
    BY <2>1, ValueTypes
  <2> QED
    BY <1>1, <2>2, <2>3
<1>3. /\ t.from \in Values /\ t.origin \in Values /\ t.date \in Values
      /\ t.to \in 0 .. MaxHops + 1 /\ t.size \in Nat \cup {-1} /\ t.crc \in Nat \ {99}
  <2>1. 0 \in Values /\ 0 \in 0 .. MaxHops + 1 /\ 0 \in Nat \ {99}
    BY TicAssumption DEF Values
  <2>2. \A key, default : LastOf(lines, key, default) \in ValueType(key) \cup {default}
    BY LastType
  <2>3. \A key : LastOf(lines, key, 0) \in Values
    BY <2>1, <2>2, ValueTypes
  <2>4. /\ LastOf(lines, "To", 0) \in 0 .. MaxHops + 1
        /\ LastOf(lines, "Size", -1) \in Nat \cup {-1}
        /\ LastOf(lines, "Crc", 0) \in Nat \ {99}
    BY <2>1, <2>2, ValueTypes
  <2> QED
    BY <1>1, <2>3, <2>4
<1>4. \A key : ValuesOf(lines, key) \in Seq(Values)
  <2> SUFFICES ASSUME NEW key PROVE ValuesOf(lines, key) \in Seq(Values)
    OBVIOUS
  <2>1. ValuesOf(lines, key) \in Seq(ValueType(key)) /\ ValueType(key) \subseteq Values
    BY ValuesOfType, ValueTypes
  <2> QED
    BY <2>1
<1>5. "no desc" \in Values
  BY DEF Values, Words
<1>6. <<"no desc">> \in Seq(Values) /\ <<"no desc">> # <<>>
  <2>1. \A v \in Values : <<v>> \in Seq(Values) /\ <<v>> # <<>>
    OBVIOUS
  <2> QED
    BY <1>5, <2>1
<1>7. t.desc \in Seq(Values) /\ t.desc # <<>> /\ t.ldesc \in Seq(Values) /\ t.path \in Seq(Values)
      /\ t.hasCrc \in BOOLEAN
  BY <1>1, <1>4, <1>6
<1>8. t \in TicType
  BY <1>1, <1>2, <1>3, <1>7 DEF TicType
<1>9. ValuesOf(lines, "Seenby") \in Seq(Addresses)
  <2>1. ValuesOf(lines, "Seenby") \in Seq(ValueType("Seenby"))
    BY ValuesOfType
  <2> QED
    BY <2>1, ValueTypes
<1> QED
  BY <1>7, <1>8, <1>9 DEF t

(* A line is found under its keyword. *)
LEMMA Found ==
  \A lines \in Seq(LineType) : \A i \in DOMAIN lines :
    lines[i] # Line("Replaces", "*") =>
      \E j \in DOMAIN ValuesOf(lines, lines[i].key) :
        ValuesOf(lines, lines[i].key)[j] = lines[i].value
<1> DEFINE Finds(lines, l) ==
             l # Line("Replaces", "*") =>
               \E j \in DOMAIN ValuesOf(lines, l.key) : ValuesOf(lines, l.key)[j] = l.value
           T == {lines \in Seq(LineType) : \A i \in DOMAIN lines : Finds(lines, lines[i])}
<1>1. <<>> \in T
  OBVIOUS
<1>2. ASSUME NEW lines \in Seq(LineType), NEW l \in LineType, lines \in T
      PROVE  Append(lines, l) \in T
  <2> DEFINE more == Append(lines, l)
  <2>1. /\ more \in Seq(LineType) /\ DOMAIN more = DOMAIN lines \cup {Len(lines) + 1}
        /\ more[Len(lines) + 1] = l /\ \A i \in DOMAIN lines : more[i] = lines[i]
        /\ \A i \in DOMAIN lines : lines[i] \in LineType
    OBVIOUS
  <2>2. \A key : ValuesOf(more, key) = AddValue(ValuesOf(lines, key), l, key)
    BY ValuesOfAppend
  <2> HIDE DEF more
  <2>3. ASSUME NEW k \in LineType, Finds(lines, k) \/ k = l
        PROVE  Finds(more, k)
    <3> SUFFICES ASSUME k # Line("Replaces", "*")
                 PROVE  \E j \in DOMAIN ValuesOf(more, k.key) :
                          ValuesOf(more, k.key)[j] = k.value
      OBVIOUS
    <3> DEFINE v == ValuesOf(lines, k.key)
    <3>1. v \in Seq(ValueType(k.key))
      BY ValuesOfType
    <3>2. ValuesOf(more, k.key) = AddValue(v, l, k.key)
      BY <2>2
    <3>3. k # l => \E j \in DOMAIN v : v[j] = k.value
      BY <2>3
    <3> HIDE DEF v
    <3>4. ASSUME NEW x
          PROVE  /\ \A j \in DOMAIN v : j \in DOMAIN Append(v, x) /\ Append(v, x)[j] = v[j]
                 /\ Len(v) + 1 \in DOMAIN Append(v, x) /\ Append(v, x)[Len(v) + 1] = x
      <4>1. v \in Seq({v[j] : j \in DOMAIN v} \cup {x}) /\ x \in {v[j] : j \in DOMAIN v} \cup {x}
        BY <3>1
      <4> HIDE <3>1
      <4> QED
        BY <4>1
    <3> QED
      BY <3>2, <3>3, <3>4 DEF AddValue
  <2>4. \A i \in DOMAIN lines : Finds(lines, lines[i])
    BY <1>2
  <2> HIDE DEF Finds
  <2>5. \A i \in DOMAIN more : Finds(more, more[i])
    BY <2>1, <2>3, <2>4
  <2> QED
    BY <2>1, <2>5 DEF more
<1>3. \A lines \in Seq(LineType) : lines \in T
  <2> HIDE DEF T
  <2> QED
    BY <1>1, <1>2, SeqInduct
<1> QED
  BY <1>3

(* No node finds fault with a ticket that was written with its names, a    *)
(* sender, a size and a checksum.                                          *)
LEMMA WrittenGood ==
  ASSUME NEW t \in TicType, t.file # NoValue, t.area # NoValue, t.from # 0,
         t.size > 0, t.crc # 0, NEW seenby \in Seq(Addresses), NEW n
  PROVE  ~Bad(n, WriteTic(t, seenby))
<1> DEFINE w == WriteTic(t, seenby)
<1>1. w \in Seq(LineType) /\ \A key : ValuesOf(w, key) = WrittenValues(t, seenby, key)
  BY Written
<1>2. ParsedTic(w) = Reread(t)
  BY RoundTrip
<1> HIDE DEF w
<1>3. /\ ValuesOf(w, "Strange") = <<>>
      /\ ValuesOf(w, "Size") = <<t.size>>
      /\ ValuesOf(w, "To") = IF t.to # 0 THEN <<t.to>> ELSE <<>>
  <2>1. WrittenValues(t, seenby, "Strange") = <<>>
    BY DEF WrittenValues
  <2>2. WrittenValues(t, seenby, "Size") = <<t.size>>
    BY DEF WrittenValues, Given, TicType
  <2>3. WrittenValues(t, seenby, "To") = IF t.to # 0 THEN <<t.to>> ELSE <<>>
    BY DEF WrittenValues, Given
  <2> QED
    BY <1>1, <2>1, <2>2, <2>3
<1>4. ASSUME NEW i \in DOMAIN w
      PROVE  /\ w[i] # Line("Size", 0) /\ w[i] # Line("To", 0)
             /\ w[i].key # "Strange"
  <2> DEFINE v == ValuesOf(w, w[i].key)
  <2>1. w[i] # Line("Replaces", "*") => \E j \in DOMAIN v : v[j] = w[i].value
    BY <1>1, Found
  <2>2. \A x : DOMAIN <<x>> = {1} /\ <<x>>[1] = x
    OBVIOUS
  <2>3. DOMAIN <<>> = {}
    OBVIOUS
  <2>4. t.size # 0
    BY DEF TicType
  <2>5. ASSUME w[i].key = "Strange" PROVE FALSE
    <3>1. w[i] # Line("Replaces", "*") /\ v = <<>>
      BY <1>3, <2>5 DEF Line
    <3> QED
      BY <2>1, <2>3, <3>1
  <2>6. ASSUME w[i] = Line("Size", 0) PROVE FALSE
    <3>1. w[i] # Line("Replaces", "*") /\ v = <<t.size>> /\ w[i].value = 0
      BY <1>3, <2>6 DEF Line
    <3> HIDE DEF v
    <3> QED
      BY <2>1, <2>2, <2>4, <3>1
  <2>7. ASSUME w[i] = Line("To", 0) PROVE FALSE
    <3>1. /\ w[i] # Line("Replaces", "*") /\ w[i].value = 0
          /\ v = IF t.to # 0 THEN <<t.to>> ELSE <<>>
      BY <1>3, <2>7 DEF Line
    <3> HIDE DEF v
    <3> QED
      BY <2>1, <2>2, <2>3, <3>1
  <2> QED
    BY <2>5, <2>6, <2>7
<1>5. ~ParseBad(n, w)
  BY <1>4 DEF ParseBad
<1> DEFINE r == Reread(t)
<1>6. /\ r.file = t.file /\ r.area = t.area /\ r.crc = t.crc /\ r.size = t.size
      /\ r.from = t.from
  BY DEF Reread, Described, TicType
<1> HIDE DEF r
<1>7. t.size # 0
  BY DEF TicType
<1>8. ~CheckBad(r)
  BY <1>6, <1>7 DEF CheckBad
<1> QED
  BY <1>2, <1>5, <1>8 DEF Bad, w, r

(* One more ticker on the path. *)
LEMMA PathGrows ==
  ASSUME NEW p \in Seq(Values), NEW n \in Nat
  PROVE  /\ p \o [i \in 1 .. 0 |-> i] = p
         /\ Append(p \o [i \in 1 .. n |-> i], n + 1) = p \o [i \in 1 .. n + 1 |-> i]
         /\ p \o [i \in 1 .. n |-> i] \in Seq(Values)
<1> DEFINE c == [i \in 1 .. n |-> i]
           d == [i \in 1 .. n + 1 |-> i]
<1>1. /\ c \in Seq(Values) /\ Len(c) = n /\ \A i \in 1 .. n : c[i] = i
      /\ d \in Seq(Values) /\ Len(d) = n + 1 /\ \A i \in 1 .. n + 1 : d[i] = i
      /\ n + 1 \in Values
  BY DEF Values
<1>2. p \o [i \in 1 .. 0 |-> i] = p
  <2>1. [i \in 1 .. 0 |-> i] = <<>> /\ p \o <<>> = p
    OBVIOUS
  <2> QED
    BY <2>1
<1> HIDE DEF c, d
<1>3. Append(p \o c, n + 1) = p \o d
  <2> DEFINE s == Append(p \o c, n + 1)
             u == p \o d
  <2>1. p \o c \in Seq(Values) /\ Len(p \o c) = Len(p) + n
        /\ \A i \in 1 .. Len(p) + n : (p \o c)[i] = IF i <= Len(p) THEN p[i] ELSE i - Len(p)
    BY <1>1
  <2>2. s \in Seq(Values) /\ Len(s) = Len(p) + n + 1
        /\ \A i \in 1 .. Len(p) + n + 1 :
             s[i] = IF i <= Len(p) THEN p[i] ELSE i - Len(p)
    <3> DEFINE q == p \o c
    <3>1. q \in Seq(Values) /\ Len(q) = Len(p) + n /\ s = Append(q, n + 1)
          /\ \A i \in 1 .. Len(p) + n : q[i] = IF i <= Len(p) THEN p[i] ELSE i - Len(p)
      BY <2>1
    <3> HIDE DEF q, s
    <3> QED
      BY <1>1, <3>1
  <2>3. u \in Seq(Values) /\ Len(u) = Len(p) + n + 1
        /\ \A i \in 1 .. Len(p) + n + 1 :
             u[i] = IF i <= Len(p) THEN p[i] ELSE i - Len(p)
    BY <1>1
  <2> HIDE DEF s, u
  <2>4. s = u
    <3>1. \A i \in 1 .. Len(s) : s[i] = u[i]
      BY <2>2, <2>3
    <3> QED
      BY <2>2, <2>3, <3>1, SeqEqual
  <2> QED
    BY <2>4 DEF s, u
<1>4. p \o c \in Seq(Values)
  BY <1>1
<1> QED
  BY <1>2, <1>3, <1>4 DEF c, d

(* The ticket for the next node. *)
LEMMA AddressedType ==
  ASSUME NEW t \in TicType, NEW n \in 1 .. MaxHops
  PROVE  /\ Addressed(n, t) \in TicType
         /\ Addressed(n, t).from = n
         /\ Addressed(n, t).size = t.size /\ Addressed(n, t).crc = t.crc
         /\ Content(Addressed(n, t)) = [Content(t) EXCEPT !.path = Append(@, n)]
<1> DEFINE pw == IF n % 2 = 1 THEN "secret" ELSE NoValue
           path == Append(t.path, n)
           u == Addressed(n, t)
<1>1. /\ pw \in Values \cup {NoValue} /\ path \in Seq(Values)
      /\ n \in Values /\ n + 1 \in 0 .. MaxHops + 1
  <2>1. n \in Values /\ n + 1 \in 0 .. MaxHops + 1 /\ "secret" \in Values
    <3>1. MaxHops \in Nat
      BY TicAssumption
    <3>2. n \in Int /\ n + 1 \in 0 .. MaxHops + 1
      BY <3>1
    <3>3. "secret" \in Values
      BY DEF Values, Words
    <3> QED
      BY <3>2, <3>3 DEF Values
  <2>2. t.path \in Seq(Values)
    BY DEF TicType
  <2> QED
    BY <2>1, <2>2
<1> HIDE DEF pw, path
<1>2. t = [file |-> t.file, area |-> t.area, desc |-> t.desc, ldesc |-> t.ldesc,
           replaces |-> t.replaces, from |-> t.from, to |-> t.to, origin |-> t.origin,
           size |-> t.size, date |-> t.date, crc |-> t.crc, hasCrc |-> t.hasCrc,
           path |-> t.path, pw |-> t.pw]
  BY DEF TicType
<1> DEFINE a == [t EXCEPT !.path = path]
           b == [a EXCEPT !.from = n]
           c == [b EXCEPT !.to = n + 1]
           d == [c EXCEPT !.pw = pw]
<1>3. u = d
  BY DEF Addressed, pw, path
<1>4. a = [file |-> t.file, area |-> t.area, desc |-> t.desc, ldesc |-> t.ldesc,
           replaces |-> t.replaces, from |-> t.from, to |-> t.to, origin |-> t.origin,
           size |-> t.size, date |-> t.date, crc |-> t.crc, hasCrc |-> t.hasCrc,
           path |-> path, pw |-> t.pw]
  BY <1>2
<1> HIDE DEF a
<1>5. b = [file |-> t.file, area |-> t.area, desc |-> t.desc, ldesc |-> t.ldesc,
           replaces |-> t.replaces, from |-> n, to |-> t.to, origin |-> t.origin,
           size |-> t.size, date |-> t.date, crc |-> t.crc, hasCrc |-> t.hasCrc,
           path |-> path, pw |-> t.pw]
  BY <1>4
<1> HIDE DEF b
<1>6. c = [file |-> t.file, area |-> t.area, desc |-> t.desc, ldesc |-> t.ldesc,
           replaces |-> t.replaces, from |-> n, to |-> n + 1, origin |-> t.origin,
           size |-> t.size, date |-> t.date, crc |-> t.crc, hasCrc |-> t.hasCrc,
           path |-> path, pw |-> t.pw]
  BY <1>5
<1> HIDE DEF c
<1>7. d = [file |-> t.file, area |-> t.area, desc |-> t.desc, ldesc |-> t.ldesc,
           replaces |-> t.replaces, from |-> n, to |-> n + 1, origin |-> t.origin,
           size |-> t.size, date |-> t.date, crc |-> t.crc, hasCrc |-> t.hasCrc,
           path |-> path, pw |-> pw]
  BY <1>6
<1> HIDE DEF d, u
<1>8. u \in TicType
  BY <1>1, <1>3, <1>7 DEF TicType
<1>9. Content(u) = [Content(t) EXCEPT !.path = path]
  BY <1>3, <1>7 DEF Content
<1>10. Content(t).path = t.path
  BY DEF Content
<1> QED
  BY <1>3, <1>7, <1>8, <1>9, <1>10 DEF u, path

(* A text says something of the size and the checksum. *)
SaysOf(w, size, crc) ==
  w \in Seq(LineType) /\ ValuesOf(w, "Size") = size /\ ValuesOf(w, "Crc") = crc

LEMMA SaysMore ==
  ASSUME NEW w, NEW size, NEW crc, SaysOf(w, size, crc),
         NEW part, NEW s, NEW c, SaysOf(part, s, c)
  PROVE  SaysOf(w \o part, size \o s, crc \o c)
<1>1. w \in Seq(LineType) /\ part \in Seq(LineType)
  BY DEF SaysOf
<1>2. w \o part \in Seq(LineType)
  BY <1>1
<1>3. \A key : ValuesOf(w \o part, key) = ValuesOf(w, key) \o ValuesOf(part, key)
  BY <1>1, ValuesOfConcat
<1> QED
  BY <1>2, <1>3 DEF SaysOf

(* Lines with keywords that htick does not know say nothing of them. *)
LEMMA StrangeSays ==
  \A lines \in Seq([key : {"Strange"}, value : Words]) : SaysOf(lines, <<>>, <<>>)
<1> DEFINE S == [key : {"Strange"}, value : Words]
           T == {lines \in Seq(S) : SaysOf(lines, <<>>, <<>>)}
<1>1. <<>> \in T
  <2>1. <<>> \in Seq(LineType) /\ <<>> \in Seq(S)
    OBVIOUS
  <2> QED
    BY <2>1, ValuesOfNothing DEF SaysOf
<1>2. ASSUME NEW lines \in Seq(S), NEW l \in S, lines \in T
      PROVE  Append(lines, l) \in T
  <2>1. l \in LineType /\ l.key # "Size" /\ l.key # "Crc"
    BY DEF LineType, Keywords, Values
  <2>2. SaysOf(lines, <<>>, <<>>) /\ Append(lines, l) \in Seq(S)
    BY <1>2
  <2>3. lines \in Seq(LineType)
    BY <2>2 DEF SaysOf
  <2>4. Append(lines, l) \in Seq(LineType)
    BY <2>1, <2>3
  <2>5. \A key : ValuesOf(Append(lines, l), key) = AddValue(ValuesOf(lines, key), l, key)
    BY <2>1, <2>3, ValuesOfAppend
  <2>6. SaysOf(Append(lines, l), <<>>, <<>>)
    BY <2>1, <2>2, <2>4, <2>5 DEF SaysOf, AddValue
  <2> QED
    BY <2>2, <2>6
<1>3. \A lines \in Seq(S) : lines \in T
  <2> HIDE DEF T
  <2> QED
    BY <1>1, <1>2, SeqInduct
<1> QED
  BY <1>3

(* A ticket from another ticker has lines of the right types, and says the *)
(* size and the checksum of its file where it does not lack them.          *)
LEMMA ForeignSays ==
  ASSUME NEW size \in Sizes, NEW lack, NEW strange \in Strange, NEW seen \in Sighted
  PROVE  SaysOf(ForeignLines(size, lack, strange, seen),
                Given("Size" \notin lack, size), Given("Crc" \notin lack, CrcOf(size)))
<1> DEFINE Has(key, value) == If(key \notin lack, key, value)
           addresses == [i \in DOMAIN seen |-> HsAddress[seen[i]]]
  w0 == strange.before
  w1 == w0 \o Has("File", "f")
  w2 == w1 \o Has("Area", "a")
  w3 == w2 \o Has("Desc", "d")
  w4 == w3 \o Has("LDesc", "l")
  w5 == w4 \o Has("LDesc", "m")
  w6 == w5 \o Has("Replaces", "*")
  w7 == w6 \o Has("Replaces", "g")
  w8 == w7 \o Has("From", 9)
  w9 == w8 \o Has("To", 1)
  w10 == w9 \o Has("Origin", 9)
  w11 == w10 \o Has("Size", size)
  w12 == w11 \o Has("Date", 5)
  w13 == w12 \o Has("Crc", CrcOf(size))
  w14 == w13 \o Has("Path", 9)
  w15 == w14 \o Each("Seenby", addresses)
  w16 == w15 \o strange.after
  gs == Given("Size" \notin lack, size)
  gc == Given("Crc" \notin lack, CrcOf(size))
<1>1. ForeignLines(size, lack, strange, seen) = w16
  BY DEF ForeignLines
<1>2. SaysOf(strange.before, <<>>, <<>>) /\ SaysOf(strange.after, <<>>, <<>>)
  BY StrangeSays, TicAssumption
<1>3. SaysOf(Each("Seenby", addresses), <<>>, <<>>)
  <2>1. seen \in Seq(DOMAIN HsAddress) /\ HsAddress \in [DOMAIN HsAddress -> Addresses]
    BY TicAssumption
  <2>2. addresses \in Seq(Addresses)
    BY <2>1
  <2>3. \A a \in Addresses : Line("Seenby", a) \in LineType
    BY SeenByAssumption DEF LineType, Line, Keywords, Values
  <2> HIDE DEF addresses
  <2> QED
    BY <2>2, <2>3, ValuesOfEach DEF SaysOf
<1>4. ASSUME NEW k \in Keywords \ {"Seenby", "To", "Size", "Crc"}, NEW v \in Words \cup Int
      PROVE  SaysOf(Has(k, v), <<>>, <<>>)
  <2>1. Line(k, v) \in LineType
    BY DEF LineType, Line, Values
  <2>2. CASE k \in lack
    <3>1. Has(k, v) = <<>> /\ <<>> \in Seq(LineType)
      BY <2>2 DEF If
    <3> QED
      BY <3>1, ValuesOfNothing DEF SaysOf
  <2>3. CASE k \notin lack
    <3> DEFINE l == Line(k, v)
    <3>1. Has(k, v) = <<l>> /\ l \in LineType /\ l.key \notin {"Size", "Crc"}
      BY <2>1, <2>3 DEF If, Line
    <3> HIDE DEF l, Has
    <3>2. <<l>> \in Seq(LineType) /\ \A key : ValuesOf(<<l>>, key) = AddValue(<<>>, l, key)
      BY <3>1, ValuesOfOne
    <3> QED
      BY <3>1, <3>2 DEF SaysOf, AddValue
  <2> QED
    BY <2>2, <2>3
<1>5. SaysOf(Has("To", 1), <<>>, <<>>) /\ SaysOf(Has("Size", size), gs, <<>>)
      /\ SaysOf(Has("Crc", CrcOf(size)), <<>>, gc)
  <2>1. ASSUME NEW k, NEW v, Line(k, v) \in LineType, Line(k, v) # Line("Replaces", "*")
        PROVE  /\ Has(k, v) \in Seq(LineType)
               /\ \A key : ValuesOf(Has(k, v), key)
                             = IF key = k THEN Given(k \notin lack, v) ELSE <<>>
    <3> DEFINE cond == k \notin lack
    <3>1. cond \in BOOLEAN /\ Has(k, v) = If(cond, k, v)
      OBVIOUS
    <3> HIDE DEF cond, Has
    <3>2. /\ If(cond, k, v) \in Seq(LineType)
          /\ \A key : ValuesOf(If(cond, k, v), key) = IF key = k THEN Given(cond, v) ELSE <<>>
      BY <2>1, <3>1, ValuesOfIf
    <3> QED
      BY <3>1, <3>2 DEF cond
  <2>2. /\ size \in Nat /\ size \in Values /\ CrcOf(size) \in Nat \ {99}
        /\ CrcOf(size) \in Values /\ 1 \in 0 .. MaxHops + 1 /\ 1 \in Values
    <3>1. size \in Nat /\ MaxHops \in Nat
      BY TicAssumption
    <3> QED
      BY <3>1 DEF CrcOf, Values
  <2>3. /\ Line("To", 1) \in LineType /\ Line("To", 1) # Line("Replaces", "*")
        /\ Line("Size", size) \in LineType /\ Line("Size", size) # Line("Replaces", "*")
        /\ Line("Crc", CrcOf(size)) \in LineType
        /\ Line("Crc", CrcOf(size)) # Line("Replaces", "*")
    BY <2>2 DEF LineType, Line, Keywords
  <2> HIDE DEF Has
  <2> QED
    BY <2>1, <2>3 DEF SaysOf
<1>6. ASSUME NEW w, NEW s \in {<<>>, gs}, NEW c \in {<<>>, gc}, SaysOf(w, s, c),
             NEW part, SaysOf(part, <<>>, <<>>)
      PROVE  SaysOf(w \o part, s, c)
  <2>1. gs \in Seq({size}) /\ gc \in Seq({CrcOf(size)})
    <3>1. \A x : <<>> \in Seq({x}) /\ <<x>> \in Seq({x})
      OBVIOUS
    <3> QED
      BY <3>1 DEF Given
  <2> HIDE DEF gs, gc
  <2>2. s \o <<>> = s /\ c \o <<>> = c
    BY <2>1
  <2>3. SaysOf(w \o part, s \o <<>>, c \o <<>>)
    BY <1>6, SaysMore
  <2> QED
    BY <2>2, <2>3
<1>7. {"File", "Area", "Desc", "LDesc", "Replaces", "From", "Origin", "Date", "Path"}
        \subseteq Keywords \ {"Seenby", "To", "Size", "Crc"}
      /\ {"f", "a", "d", "l", "m", "*", "g"} \subseteq Words /\ {5, 9} \subseteq Int
  BY DEF Keywords, Words
<1>8. <<>> \o gs = gs /\ <<>> \o gc = gc /\ gs \o <<>> = gs /\ <<>> \o <<>> = <<>>
  BY DEF Given
<1> HIDE DEF Has, gs, gc
<1>9. SaysOf(w1, <<>>, <<>>)
  <2>1. SaysOf(w0, <<>>, <<>>)
    BY <1>2
  <2> HIDE DEF w0
  <2> QED
    BY <1>4, <1>6, <1>7, <2>1
<1>10. SaysOf(w2, <<>>, <<>>)
  <2>1. SaysOf(w1, <<>>, <<>>)
    BY <1>9
  <2> HIDE DEF w1
  <2> QED
    BY <1>4, <1>6, <1>7, <2>1
<1>11. SaysOf(w3, <<>>, <<>>)
  <2>1. SaysOf(w2, <<>>, <<>>)
    BY <1>10
  <2> HIDE DEF w2
  <2> QED
    BY <1>4, <1>6, <1>7, <2>1
<1>12. SaysOf(w4, <<>>, <<>>)
  <2>1. SaysOf(w3, <<>>, <<>>)
    BY <1>11
  <2> HIDE DEF w3
  <2> QED
    BY <1>4, <1>6, <1>7, <2>1
<1>13. SaysOf(w5, <<>>, <<>>)
  <2>1. SaysOf(w4, <<>>, <<>>)
    BY <1>12
  <2> HIDE DEF w4
  <2> QED
    BY <1>4, <1>6, <1>7, <2>1
<1>14. SaysOf(w6, <<>>, <<>>)
  <2>1. SaysOf(w5, <<>>, <<>>)
    BY <1>13
  <2> HIDE DEF w5
  <2> QED
    BY <1>4, <1>6, <1>7, <2>1
<1>15. SaysOf(w7, <<>>, <<>>)
  <2>1. SaysOf(w6, <<>>, <<>>)
    BY <1>14
  <2> HIDE DEF w6
  <2> QED
    BY <1>4, <1>6, <1>7, <2>1
<1>16. SaysOf(w8, <<>>, <<>>)
  <2>1. SaysOf(w7, <<>>, <<>>)
    BY <1>15
  <2> HIDE DEF w7
  <2> QED
    BY <1>4, <1>6, <1>7, <2>1
<1>17. SaysOf(w9, <<>>, <<>>)
  <2>1. SaysOf(w8, <<>>, <<>>)
    BY <1>16
  <2> HIDE DEF w8
  <2> QED
    BY <1>5, <1>6, <2>1
<1>18. SaysOf(w10, <<>>, <<>>)
  <2>1. SaysOf(w9, <<>>, <<>>)
    BY <1>17
  <2> HIDE DEF w9
  <2> QED
    BY <1>4, <1>6, <1>7, <2>1
<1>19. SaysOf(w11, gs, <<>>)
  <2>1. SaysOf(w10, <<>>, <<>>)
    BY <1>18
  <2> HIDE DEF w10
  <2> QED
    BY <1>5, <1>8, <2>1, SaysMore
<1>20. SaysOf(w12, gs, <<>>)
  <2>1. SaysOf(w11, gs, <<>>)
    BY <1>19
  <2> HIDE DEF w11
  <2> QED
    BY <1>4, <1>6, <1>7, <2>1
<1>21. SaysOf(w13, gs, gc)
  <2>1. SaysOf(w12, gs, <<>>)
    BY <1>20
  <2> HIDE DEF w12
  <2> QED
    BY <1>5, <1>8, <2>1, SaysMore
<1>22. SaysOf(w14, gs, gc)
  <2>1. SaysOf(w13, gs, gc)
    BY <1>21
  <2> HIDE DEF w13
  <2> QED
    BY <1>4, <1>6, <1>7, <2>1
<1>23. SaysOf(w15, gs, gc)
  <2>1. SaysOf(w14, gs, gc)
    BY <1>22
  <2> HIDE DEF w14, addresses
  <2> QED
    BY <1>3, <1>6, <2>1
<1>24. SaysOf(w16, gs, gc)
  <2>1. SaysOf(w15, gs, gc)
    BY <1>23
  <2> HIDE DEF w15, addresses
  <2> QED
    BY <1>2, <1>6, <2>1
<1> HIDE DEF w16
<1> QED
  BY <1>1, <1>24 DEF gs, gc

-----------------------------------------------------------------------------
(* The ticket on its way. *)

ContentType ==
  [file : Values \cup {NoValue}, area : Values \cup {NoValue},
   desc : Seq(Values), ldesc : Seq(Values), replaces : Values \cup {NoValue},
   origin : Values, date : Values, path : Seq(Values)]

(* What the ticket must say after n tickers. *)
Extended(n) == [first EXCEPT !.path = @ \o [i \in 1 .. n |-> i]]

(* The inductive invariant.  The types: *)
TicTypes ==
  /\ Exact /\ fate \in Fates /\ hop \in 0 .. MaxHops
  /\ file \in [size : Sizes \cup {0}, crc : {CrcOf(s) : s \in Sizes} \cup {0, 99}]
  /\ text \in Seq(LineType) /\ todo \in Seq(Addresses)
  /\ fate # "none" => first \in ContentType

(* the ticket in memory, while it is read from the text and then as it     *)
(* will be written;                                                        *)
InMemory ==
  /\ fate = "none" => hop = 0
  /\ fate \in {"reading", "adding"} => hop < MaxHops
  /\ fate = "reading" => tic = ParsedTic(text)
  /\ fate = "adding" =>
       /\ tic \in TicType /\ tic.file # NoValue /\ tic.area # NoValue /\ tic.desc # <<>>
       /\ Content(tic) = Extended(hop)

(* the text of a ticket that is under way, or has been;                    *)
InText ==
  fate # "none" /\ (fate = "adding" => hop > 0) =>
    Content(ParsedTic(text)) = Extended(hop)

(* and the file, which a node that compares checksums has found intact.    *)
Intact ==
  fate = "adding" /\ file.crc = 99 /\ ParsedTic(text).hasCrc => hop + 1 \in NoCrcArea

TicInv == TicTypes /\ InMemory /\ InText /\ Intact

tvars == <<text, file, first, hop, fate, tic, todo>>

LEMMA ContentOf ==
  ASSUME NEW t \in TicType
  PROVE  /\ Content(t) \in ContentType
         /\ Content([t EXCEPT !.size = file.size]) = Content(t)
         /\ t.desc # <<>> => Content(Reread(t)) = Content(t)
<1>1. Content(t) \in ContentType
  BY DEF Content, ContentType, TicType
<1>2. Content([t EXCEPT !.size = file.size]) = Content(t)
  BY DEF Content, TicType
<1>3. ASSUME t.desc # <<>> PROVE Content(Reread(t)) = Content(t)
  <2> DEFINE d == Described(t)
  <2>1. d = t
    BY <1>3 DEF Described, TicType
  <2>2. Reread(t) = [t EXCEPT !.hasCrc = t.hasCrc \/ t.crc # 0]
    BY <2>1 DEF Reread
  <2> DEFINE h == t.hasCrc \/ t.crc # 0
  <2> HIDE DEF h
  <2>3. Content([t EXCEPT !.hasCrc = h]) = Content(t)
    BY DEF Content, TicType
  <2> QED
    BY <2>2, <2>3 DEF h
<1> QED
  BY <1>1, <1>2, <1>3

LEMMA AdditionsType ==
  ASSUME NEW n \in 1 .. MaxHops, NEW t, t.to \in 0 .. MaxHops + 1, NEW seenby
  PROVE  Additions(n, t, seenby) \in Seq(Addresses)
<1>1. /\ MaxHops \in Nat /\ HsAddress \in [DOMAIN HsAddress -> Addresses]
      /\ \A m \in 1 .. MaxHops + 1 : m \in DOMAIN HsAddress
      /\ 9 \in DOMAIN HsAddress
  BY TicAssumption
<1>2. \A m \in 1 .. MaxHops + 1 : HsAddress[m] \in Addresses
  BY <1>1
<1> DEFINE a == HsAddress[Upstream(n)]
           b == HsAddress[n + 1]
           c == HsAddress[IF t.to = 0 THEN n ELSE t.to]
<1>3. a \in Addresses
  <2>1. Upstream(n) = 9 \/ Upstream(n) \in 1 .. MaxHops + 1
    BY <1>1 DEF Upstream
  <2> QED
    BY <1>1, <1>2, <2>1
<1>4. b \in Addresses
  <2>1. n + 1 \in 1 .. MaxHops + 1
    BY <1>1
  <2> QED
    BY <1>2, <2>1
<1>5. c \in Addresses
  <2>1. (IF t.to = 0 THEN n ELSE t.to) \in 1 .. MaxHops + 1
    BY <1>1
  <2> QED
    BY <1>2, <2>1
<1>6. Additions(n, t, seenby) = (IF seenby = <<>> THEN <<>> ELSE <<a, b>>) \o <<c>>
  BY DEF Additions
<1> HIDE DEF a, b, c
<1>7. <<a, b>> \in Seq(Addresses) /\ <<c>> \in Seq(Addresses) /\ <<>> \in Seq(Addresses)
  BY <1>3, <1>4, <1>5
<1>8. \A s, u \in Seq(Addresses) : s \o u \in Seq(Addresses)
  OBVIOUS
<1> QED
  BY <1>6, <1>7, <1>8

(* Every step of a ticker is one of the seen-by list, or leaves it alone.  *)
LEMMA ListSteps ==
  ASSUME TicTypes, [Next]_vars
  PROVE  [ListNext]_svars
<1>1. HsAddress[1] \in Addresses
  BY TicAssumption
<1>2. ASSUME NEW size, NEW ldesc, NEW replaces, Hatch(size, ldesc, replaces)
      PROVE  ListNext
  BY <1>1, <1>2 DEF Hatch, ListNext
<1>3. ASSUME AddNext PROVE ListNext
  <2>1. Head(todo) \in Addresses
    BY <1>3 DEF AddNext, TicTypes
  <2> QED
    BY <1>3, <2>1 DEF AddNext, ListNext
<1>4. Open => ListNext
  BY DEF Open, ListNext
<1>5. Relay => ListNext
  BY DEF Relay, ListNext
<1>6. ASSUME NEW size, NEW lack, NEW strange, NEW seen, Foreign(size, lack, strange, seen)
      PROVE  UNCHANGED svars
  BY <1>6 DEF Foreign, svars
<1>7. Refuse \/ Wait \/ Accept \/ Spoil \/ UNCHANGED vars => UNCHANGED svars
  BY DEF Refuse, Wait, Accept, Spoil, vars, svars
<1> QED
  BY <1>2, <1>3, <1>4, <1>5, <1>6, <1>7 DEF Next

LEMMA TicInit == Init => TicInv
<1> SUFFICES ASSUME Init PROVE TicInv
  OBVIOUS
<1>1. Exact
  BY ListInitOK DEF Init
<1>2. MaxHops \in Nat
  BY TicAssumption
<1>3. TicTypes
  BY <1>1, <1>2 DEF Init, TicTypes, Fates
<1> QED
  BY <1>3 DEF Init, TicInv, InMemory, InText, Intact

(* Node 1 hatches a file. *)
LEMMA HatchOK ==
  ASSUME TicInv, NEW size \in Sizes, NEW ldesc \in {<<>>, <<"l", "m">>},
         NEW replaces \in {NoValue, "g"}, Hatch(size, ldesc, replaces)
  PROVE  TicInv'
<1>1. Exact'
  <2>1. [ListNext]_svars
    BY ListSteps DEF Next, TicInv
  <2> QED
    BY <2>1, ExactStep DEF TicInv, TicTypes
<1>2. /\ fate = "none" /\ fate' = "adding" /\ hop' = hop /\ text' = text /\ hop = 0
      /\ file' = [size |-> size, crc |-> CrcOf(size)]
      /\ tic' = Hatched(size, ldesc, replaces) /\ first' = Content(tic')
      /\ todo' = Additions(1, tic', list')
  BY DEF Hatch, TicInv, InMemory
<1>3. MaxHops \in Nat \ {0} /\ size \in Nat /\ NoValue \notin Words
  BY TicAssumption
<1>4. CrcOf(size) \in Nat \ {99}
  BY <1>3 DEF CrcOf
<1> DEFINE t == Hatched(size, ldesc, replaces)
<1>5. /\ t \in TicType /\ t.file # NoValue /\ t.area # NoValue /\ t.desc # <<>> /\ t.to = 0
  <2>1. /\ "f" \in Values /\ "a" \in Values /\ "d" \in Values /\ "l" \in Values
        /\ "m" \in Values /\ 0 \in Values /\ 1 \in Values
        /\ replaces \in (Values \ {"*"}) \cup {NoValue}
    <3>1. {"f", "a", "d", "l", "m", "g"} \subseteq Words /\ "g" # "*"
      BY DEF Words
    <3> QED
      BY <3>1 DEF Values
  <2>2. NoValue # "f" /\ NoValue # "a"
    BY <1>3 DEF Words
  <2>3. ldesc \in Seq(Values) /\ <<>> \in Seq(Values) /\ <<"d">> \in Seq(Values) /\ <<"d">> # <<>>
    <3>1. \A x, y \in Values : <<x, y>> \in Seq(Values)
      OBVIOUS
    <3>2. \A x \in Values : <<x>> \in Seq(Values) /\ <<x>> # <<>>
      OBVIOUS
    <3>3. <<>> \in Seq(Values)
      OBVIOUS
    <3> QED
      BY <2>1, <3>1, <3>2, <3>3
  <2>4. 0 \in 0 .. MaxHops + 1
    BY <1>3
  <2> DEFINE crc == CrcOf(size)
             desc == <<"d">>
  <2> HIDE DEF crc, desc
  <2>5. t = [file |-> "f", area |-> "a", desc |-> desc, ldesc |-> ldesc,
             replaces |-> replaces, from |-> 1, to |-> 0, origin |-> 1, size |-> size,
             date |-> 0, crc |-> crc, hasCrc |-> FALSE, path |-> <<>>, pw |-> NoValue]
    BY DEF Hatched, crc, desc
  <2>6. crc \in Nat \ {99} /\ desc \in Seq(Values) /\ desc # <<>>
    BY <1>4, <2>3 DEF crc, desc
  <2> HIDE DEF t
  <2>7. t \in TicType
    BY <1>3, <2>1, <2>3, <2>4, <2>5, <2>6 DEF TicType
  <2> QED
    BY <2>2, <2>5, <2>6, <2>7
<1> HIDE DEF t
<1>6. TicTypes'
  <2>1. file' \in [size : Sizes \cup {0}, crc : {CrcOf(s) : s \in Sizes} \cup {0, 99}]
    BY <1>2
  <2>2. todo' \in Seq(Addresses)
    <3>1. 1 \in 1 .. MaxHops /\ 0 \in 0 .. MaxHops + 1
      BY <1>3
    <3>2. tic' = t /\ t.to \in 0 .. MaxHops + 1
      BY <1>2, <1>5, <3>1 DEF t
    <3> QED
      BY <1>2, <3>1, <3>2, AdditionsType
  <2>3. first' \in ContentType
    BY <1>2, <1>5, ContentOf DEF t
  <2> QED
    BY <1>1, <1>2, <2>1, <2>2, <2>3 DEF TicInv, TicTypes, Fates
<1>7. Content(tic') = Extended(hop)'
  <2>1. first'.path \in Seq(Values) /\ first' = [first' EXCEPT !.path = first'.path]
    BY <1>6, <1>2 DEF TicTypes, ContentType
  <2>2. first'.path \o [i \in 1 .. 0 |-> i] = first'.path
    BY <2>1, PathGrows
  <2>3. hop' = 0
    BY <1>2
  <2> QED
    BY <1>2, <2>1, <2>2, <2>3 DEF Extended
<1>8. InMemory'
  BY <1>2, <1>3, <1>5, <1>7 DEF InMemory, t
<1>9. InText' /\ Intact'
  BY <1>2, <1>4 DEF InText, Intact
<1> QED
  BY <1>6, <1>8, <1>9 DEF TicInv

(* Another ticker sends a file. *)
LEMMA ForeignOK ==
  ASSUME TicInv, NEW size \in Sizes, NEW lack \in Lacking, NEW strange \in Strange,
         NEW seen \in Sighted, Foreign(size, lack, strange, seen)
  PROVE  TicInv'
<1>1. Exact'
  <2>1. [ListNext]_svars
    BY ListSteps DEF Next, TicInv
  <2> QED
    BY <2>1, ExactStep DEF TicInv, TicTypes
<1>2. /\ fate = "none" /\ fate' = "way" /\ hop' = hop /\ hop = 0 /\ todo' = todo
      /\ file' = [size |-> size, crc |-> CrcOf(size)]
      /\ text' = ForeignLines(size, lack, strange, seen)
      /\ first' = Content(ParsedTic(text'))
  BY DEF Foreign, TicInv, InMemory
<1>3. text' \in Seq(LineType)
  BY <1>2, ForeignSays DEF SaysOf
<1>4. first' \in ContentType
  BY <1>2, <1>3, ParsedType, ContentOf
<1>5. TicTypes'
  BY <1>1, <1>2, <1>3, <1>4 DEF TicInv, TicTypes, Fates
<1>6. first' = Extended(hop)'
  <2>1. first'.path \in Seq(Values) /\ first' = [first' EXCEPT !.path = first'.path]
    BY <1>4 DEF ContentType
  <2>2. first'.path \o [i \in 1 .. 0 |-> i] = first'.path
    BY <2>1, PathGrows
  <2>3. hop' = 0
    BY <1>2
  <2> QED
    BY <1>2, <2>1, <2>2, <2>3 DEF Extended
<1> QED
  BY <1>2, <1>5, <1>6 DEF TicInv, InMemory, InText, Intact

(* A node reads a ticket. *)
LEMMA OpenOK ==
  ASSUME TicInv, Open
  PROVE  TicInv'
<1>1. Exact'
  <2>1. [ListNext]_svars
    BY ListSteps DEF Next, TicInv
  <2> QED
    BY <2>1, ExactStep DEF TicInv, TicTypes
<1>2. /\ fate = "way" /\ hop < MaxHops /\ fate' = "reading" /\ tic' = ParsedTic(text)
      /\ todo' = ValuesOf(text, "Seenby") /\ UNCHANGED <<text, file, first, hop>>
  BY DEF Open
<1>3. todo' \in Seq(Addresses)
  BY <1>2, ParsedType DEF TicInv, TicTypes
<1>4. TicTypes'
  BY <1>1, <1>2, <1>3 DEF TicInv, TicTypes, Fates
<1>5. Extended(hop)' = Extended(hop) /\ ParsedTic(text)' = ParsedTic(text)
  BY <1>2 DEF Extended
<1> QED
  BY <1>2, <1>4, <1>5 DEF TicInv, InMemory, InText, Intact

(* It adds an address to the seen-by list. *)
LEMMA AddNextOK ==
  ASSUME TicInv, AddNext
  PROVE  TicInv'
<1>1. Exact'
  <2>1. [ListNext]_svars
    BY ListSteps DEF Next, TicInv
  <2> QED
    BY <2>1, ExactStep DEF TicInv, TicTypes
<1>2. UNCHANGED <<text, file, first, hop, fate, tic>> /\ todo' = Tail(todo) /\ todo # <<>>
  BY DEF AddNext
<1>3. todo' \in Seq(Addresses)
  BY <1>2 DEF TicInv, TicTypes
<1>4. TicTypes'
  BY <1>1, <1>2, <1>3 DEF TicInv, TicTypes
<1>5. Extended(hop)' = Extended(hop) /\ ParsedTic(text)' = ParsedTic(text)
  BY <1>2 DEF Extended
<1> QED
  BY <1>2, <1>4, <1>5 DEF TicInv, InMemory, InText, Intact

(* It refuses the ticket, waits for the file, or the file is damaged.      *)
LEMMA SetAsideOK ==
  ASSUME TicInv, Refuse \/ Wait \/ Spoil
  PROVE  TicInv'
<1>1. UNCHANGED <<text, first, hop, todo, svars>>
  BY DEF Refuse, Wait, Spoil, svars
<1>2. /\ \/ fate = "reading" /\ fate' \in {"bad", "waiting"} /\ file' = file
         \/ fate = "way" /\ fate' = "way" /\ file' = [file EXCEPT !.crc = 99] /\ tic' = tic
  BY DEF Refuse, Wait, Spoil, Read
<1>3. Exact'
  BY <1>1, ExactStep DEF TicInv, TicTypes
<1>4. file' \in [size : Sizes \cup {0}, crc : {CrcOf(s) : s \in Sizes} \cup {0, 99}]
  BY <1>2 DEF TicInv, TicTypes
<1>5. TicTypes'
  BY <1>1, <1>2, <1>3, <1>4 DEF TicInv, TicTypes, Fates
<1>6. Extended(hop)' = Extended(hop) /\ ParsedTic(text)' = ParsedTic(text)
  BY <1>1 DEF Extended
<1> QED
  BY <1>1, <1>2, <1>5, <1>6 DEF TicInv, InMemory, InText, Intact

(* It accepts the ticket and the file. *)
LEMMA AcceptOK ==
  ASSUME TicInv, Accept
  PROVE  TicInv'
<1>1. Exact'
  <2>1. [ListNext]_svars
    BY ListSteps DEF Next, TicInv
  <2> QED
    BY <2>1, ExactStep DEF TicInv, TicTypes
<1>2. /\ fate = "reading" /\ fate' = "adding" /\ UNCHANGED <<text, file, first, hop>>
      /\ ~Bad(hop + 1, text) /\ Matches(hop + 1, tic)
      /\ tic' = [tic EXCEPT !.size = file.size]
      /\ todo' = Additions(hop + 1, tic, list)
  BY DEF Accept, Read
<1>3. /\ tic = ParsedTic(text) /\ hop < MaxHops /\ hop \in Nat /\ hop + 1 \in 1 .. MaxHops
      /\ text \in Seq(LineType) /\ Content(ParsedTic(text)) = Extended(hop)
  BY <1>2, TicAssumption DEF TicInv, InMemory, InText, TicTypes
<1>4. tic \in TicType /\ tic.desc # <<>>
  BY <1>3, ParsedType
<1>5. tic.file # NoValue /\ tic.area # NoValue
  BY <1>2, <1>3 DEF Bad, CheckBad
<1>6. todo' \in Seq(Addresses)
  <2>1. tic.to \in 0 .. MaxHops + 1
    BY <1>4 DEF TicType
  <2> QED
    BY <1>2, <1>3, <2>1, AdditionsType
<1>7. TicTypes'
  BY <1>1, <1>2, <1>6 DEF TicInv, TicTypes, Fates
<1>8. Content(tic') = Content(tic)
  BY <1>2, <1>4, ContentOf
<1>9. /\ tic' \in TicType /\ tic'.file = tic.file /\ tic'.area = tic.area
      /\ tic'.desc = tic.desc
  <2>1. file.size \in Nat
    BY TicAssumption DEF TicInv, TicTypes
  <2> DEFINE size == file.size
  <2> HIDE DEF size
  <2>2. tic' = [tic EXCEPT !.size = size] /\ size \in Nat
    BY <1>2, <2>1 DEF size
  <2> QED
    BY <1>4, <2>2 DEF TicType
<1>10. Extended(hop)' = Extended(hop) /\ ParsedTic(text)' = ParsedTic(text)
  BY <1>2 DEF Extended
<1>11. InMemory'
  BY <1>2, <1>3, <1>4, <1>5, <1>8, <1>9, <1>10 DEF InMemory
<1>12. InText'
  BY <1>2, <1>3, <1>10 DEF InText
<1>13. Intact'
  <2> SUFFICES ASSUME file.crc = 99, tic.hasCrc PROVE hop + 1 \in NoCrcArea
    BY <1>2, <1>3, <1>10 DEF Intact
  <2>1. tic.crc # 99
    BY <1>4 DEF TicType
  <2> QED
    BY <1>2, <2>1 DEF Matches
<1> QED
  BY <1>7, <1>11, <1>12, <1>13 DEF TicInv

(* It forwards the ticket. *)
LEMMA RelayOK ==
  ASSUME TicInv, Relay
  PROVE  /\ TicInv'
         /\ list' \in Seq(Addresses)
         /\ Addressed(hop + 1, tic) \in TicType
         /\ Addressed(hop + 1, tic).file # NoValue /\ Addressed(hop + 1, tic).area # NoValue
<1>1. Exact'
  <2>1. [ListNext]_svars
    BY ListSteps DEF Next, TicInv
  <2> QED
    BY <2>1, ExactStep DEF TicInv, TicTypes
<1> DEFINE u == Addressed(hop + 1, tic)
<1>2. /\ fate = "adding" /\ fate' = "way" /\ hop' = hop + 1 /\ UNCHANGED <<file, first, todo>>
      /\ text' = WriteTic(u, list')
  BY DEF Relay
<1>3. /\ hop \in Nat /\ hop + 1 \in 1 .. MaxHops /\ hop' \in 0 .. MaxHops
      /\ tic \in TicType /\ tic.file # NoValue /\ tic.area # NoValue /\ tic.desc # <<>>
      /\ Content(tic) = Extended(hop)
  BY <1>2, TicAssumption DEF TicInv, InMemory, TicTypes
<1>4. /\ u \in TicType /\ Content(u) = [Content(tic) EXCEPT !.path = Append(@, hop + 1)]
  BY <1>3, AddressedType
<1>5. list' \in Seq(Addresses)
  <2>1. list' \in Seq(HsAddr) /\ Listed(list)' \subseteq Addresses
    BY <1>1 DEF Exact, ListTypeOK
  <2>2. \A i \in DOMAIN list' : list'[i] \in Addresses
    BY <2>1 DEF Listed
  <2> QED
    BY <2>1, <2>2
<1>6. u.file = tic.file /\ u.area = tic.area /\ u.desc = tic.desc
  <2>1. /\ Content(u).file = u.file /\ Content(u).area = u.area /\ Content(u).desc = u.desc
        /\ Content(tic).file = tic.file /\ Content(tic).area = tic.area
        /\ Content(tic).desc = tic.desc
    BY DEF Content
  <2>2. /\ Content(u).file = Content(tic).file /\ Content(u).area = Content(tic).area
        /\ Content(u).desc = Content(tic).desc
    <3>1. Content(tic) \in ContentType
      BY <1>3, ContentOf
    <3> QED
      BY <1>4, <3>1 DEF ContentType
  <2> QED
    BY <2>1, <2>2
<1> HIDE DEF u
<1>7. text' \in Seq(LineType) /\ ParsedTic(text') = Reread(u)
  BY <1>2, <1>3, <1>4, <1>5, <1>6, Written, RoundTrip
<1>8. Content(ParsedTic(text')) = Content(u)
  BY <1>3, <1>4, <1>6, <1>7, ContentOf
<1>9. Content(u) = Extended(hop)'
  <2> DEFINE p == first.path
             c == [i \in 1 .. hop |-> i]
             d == [i \in 1 .. hop + 1 |-> i]
  <2>1. first \in ContentType /\ p \in Seq(Values)
    BY <1>2 DEF TicInv, TicTypes, ContentType
  <2>2. Append(p \o c, hop + 1) = p \o d
    BY <1>3, <2>1, PathGrows
  <2>3. Content(tic) = [first EXCEPT !.path = p \o c] /\ Extended(hop)' = [first EXCEPT !.path = p \o d]
    BY <1>2, <1>3 DEF Extended
  <2> HIDE DEF p, c, d
  <2>4. Content(tic).path = p \o c
    BY <2>1, <2>3 DEF ContentType
  <2> DEFINE pc == p \o c
             pd == p \o d
  <2>5. Content(u) = [Content(tic) EXCEPT !.path = pd]
    BY <1>4, <2>2, <2>4
  <2>6. Content(tic) = [first EXCEPT !.path = pc]
    BY <2>3
  <2> HIDE DEF pc, pd
  <2>7. Content(u) = [first EXCEPT !.path = pd]
    BY <2>1, <2>5, <2>6 DEF ContentType
  <2> QED
    BY <2>3, <2>7 DEF pd
<1>10. TicTypes'
  BY <1>1, <1>2, <1>3, <1>7 DEF TicInv, TicTypes, Fates
<1>11. TicInv'
  BY <1>2, <1>3, <1>8, <1>9, <1>10 DEF TicInv, InMemory, InText, Intact
<1> QED
  BY <1>3, <1>4, <1>5, <1>6, <1>11 DEF u

LEMMA TicStep == TicInv /\ [Next]_vars => TicInv'
<1> SUFFICES ASSUME TicInv, [Next]_vars PROVE TicInv'
  OBVIOUS
<1>1. CASE UNCHANGED vars
  <2>1. UNCHANGED <<text, file, first, hop, fate, tic, todo, svars>>
    BY <1>1 DEF vars, svars
  <2>2. Exact'
    BY <2>1, ExactStep DEF TicInv, TicTypes
  <2>3. Extended(hop)' = Extended(hop) /\ ParsedTic(text)' = ParsedTic(text)
    BY <2>1 DEF Extended
  <2> QED
    BY <2>1, <2>2, <2>3 DEF TicInv, TicTypes, InMemory, InText, Intact
<1> QED
  BY <1>1, HatchOK, ForeignOK, OpenOK, AddNextOK, SetAsideOK, AcceptOK, RelayOK DEF Next

LEMMA TicInvariant == Spec => []TicInv
BY TicInit, TicStep, PTL DEF Spec

(* The variables have their types, and no ticket has a line without a      *)
(* value.                                                                  *)
THEOREM TypeCorrect == Spec => []TypeOK
<1>1. TicInv => TypeOK
  <2> SUFFICES ASSUME TicInv PROVE TypeOK
    OBVIOUS
  <2>1. ASSUME NEW i \in DOMAIN text
        PROVE  DOMAIN text[i] = {"key", "value"} /\ text[i].value # NoValue
    <3>1. text[i] \in LineType
      BY DEF TicInv, TicTypes
    <3>2. DOMAIN text[i] = {"key", "value"} /\ text[i].value \in Values
      BY <3>1 DEF LineType
    <3> QED
      BY <3>2, TicAssumption DEF Values
  <2>2. ToSet(todo) \subseteq Addresses
    BY DEF TicInv, TicTypes, ToSet
  <2> QED
    BY <2>1, <2>2 DEF TicInv, TicTypes, Exact, TypeOK
<1> QED
  BY <1>1, TicInvariant, PTL

(* However many tickers a file goes through, and whatever the first ticket *)
(* lacked: its ticket keeps saying what the first one said, and its path   *)
(* names the tickers in order.                                             *)
THEOREM ContentIsKept == Spec => []ContentKept
<1>1. TicInv => ContentKept
  BY DEF TicInv, TicTypes, InMemory, InText, ContentKept, Extended
<1> QED
  BY <1>1, TicInvariant, PTL

(* A damaged file is not forwarded by a node that compares checksums.      *)
THEOREM DamageIsStopped == Spec => DamageStops
<1>1. TicInv /\ [Next]_vars =>
        [file.crc = 99 /\ hop' > hop /\ ParsedTic(text).hasCrc => hop + 1 \in NoCrcArea]_vars
  <2> SUFFICES ASSUME TicInv, Next, hop' > hop, file.crc = 99, ParsedTic(text).hasCrc
               PROVE  hop + 1 \in NoCrcArea
    OBVIOUS
  <2>1. ~(hop > hop)
    BY TicAssumption DEF TicInv, TicTypes
  <2>2. Relay
    BY <2>1 DEF Next, Hatch, Foreign, Open, AddNext, Refuse, Wait, Accept, Spoil
  <2> QED
    BY <2>2 DEF Relay, TicInv, Intact
<1> QED
  BY <1>1, TicInvariant, PTL DEF Spec, DamageStops

(* The seen-by list of a ticket, on its way through any number of tickers, *)
(* is a set, and the order of its lines depends on the addresses only.     *)
THEOREM TicketListIsSet == Spec => [](ListIsSet /\ SortCanonical)
<1>1. Exact => ListIsSet
  BY DEF Exact, ListIsSet, Listed, SeenbyComp
<1>2. Exact => SortCanonical
  BY SortedOnce DEF Exact, ListTypeOK, NoRepeats, SortCanonical
<1> QED
  BY <1>1, <1>2, TicInvariant, PTL DEF TicInv, TicTypes

-----------------------------------------------------------------------------
(* What an htick writes, an htick accepts. *)

(* The tickets that tickers exchange have a size or a checksum, and have   *)
(* both when an htick has written them.                                    *)
Readable ==
  /\ fate # "none" => file.size > 0
  /\ fate \in {"way", "reading"} =>
       /\ ParsedTic(text).crc = 0 => ParsedTic(text).size > 0
       /\ hop > 0 => \A n : ~Bad(n, text)
  /\ fate = "adding" => tic.crc # 0 /\ tic.size > 0
  /\ fate = "bad" => hop = 0

LEMMA ReadableStep ==
  ASSUME 0 \notin Sizes, \A lack \in Lacking : ~Unsound(lack),
         TicInv, Readable, [Next]_vars
  PROVE  Readable'
<1>1. \A size \in Sizes : size \in Nat /\ size > 0 /\ CrcOf(size) # 0
  BY TicAssumption DEF CrcOf
<1>2. ASSUME NEW size \in Sizes, NEW ldesc, NEW replaces, Hatch(size, ldesc, replaces)
      PROVE  Readable'
  <2>1. /\ fate' = "adding" /\ file' = [size |-> size, crc |-> CrcOf(size)]
        /\ tic' = Hatched(size, ldesc, replaces)
    BY <1>2 DEF Hatch
  <2>2. Hatched(size, ldesc, replaces).crc = CrcOf(size)
        /\ Hatched(size, ldesc, replaces).size = size
    BY DEF Hatched
  <2>3. file'.size = size
    BY <2>1
  <2> QED
    BY <1>1, <2>1, <2>2, <2>3 DEF Readable
<1>3. ASSUME NEW size \in Sizes, NEW lack \in Lacking, NEW strange \in Strange,
             NEW seen \in Sighted, Foreign(size, lack, strange, seen)
      PROVE  Readable'
  <2>1. /\ fate' = "way" /\ hop' = 0 /\ file' = [size |-> size, crc |-> CrcOf(size)]
        /\ text' = ForeignLines(size, lack, strange, seen)
    BY <1>3 DEF Foreign, TicInv, InMemory
  <2>2. /\ ValuesOf(text', "Size") = Given("Size" \notin lack, size)
        /\ ValuesOf(text', "Crc") = Given("Crc" \notin lack, CrcOf(size))
    BY <2>1, ForeignSays DEF SaysOf
  <2>3. "Crc" \notin lack \/ "Size" \notin lack
    BY DEF Unsound
  <2>4. ParsedTic(text').crc = LastOf(text', "Crc", 0)
        /\ ParsedTic(text').size = LastOf(text', "Size", -1)
    BY DEF ParsedTic
  <2>5. "Crc" \notin lack => ParsedTic(text').crc = CrcOf(size)
    BY <2>2, <2>4, LastGiven DEF Given
  <2>6. "Size" \notin lack => ParsedTic(text').size = size
    BY <2>2, <2>4, LastGiven DEF Given
  <2>7. file'.size = size
    BY <2>1
  <2> QED
    BY <1>1, <2>1, <2>3, <2>5, <2>6, <2>7 DEF Readable
<1>4. ASSUME Open PROVE Readable'
  BY <1>4 DEF Open, Readable
<1>5. ASSUME AddNext PROVE Readable'
  BY <1>5 DEF AddNext, Readable
<1>6. ASSUME Refuse PROVE Readable'
  <2>1. fate = "reading" /\ Bad(hop + 1, text) /\ fate' = "bad" /\ UNCHANGED <<file, hop>>
        /\ hop \in Nat
    BY <1>6, TicAssumption DEF Refuse, Read, TicInv, TicTypes
  <2>2. ~(hop > 0)
    BY <2>1 DEF Readable
  <2> QED
    BY <2>1, <2>2 DEF Readable
<1>7. ASSUME Wait PROVE Readable'
  BY <1>7 DEF Wait, Read, Readable
<1>8. ASSUME Accept PROVE Readable'
  <2>1. /\ fate = "reading" /\ fate' = "adding" /\ UNCHANGED file /\ tic = ParsedTic(text)
        /\ ~Bad(hop + 1, text) /\ tic' = [tic EXCEPT !.size = file.size]
    BY <1>8 DEF Accept, Read, TicInv, InMemory
  <2>2. tic \in TicType
    BY <2>1, ParsedType DEF TicInv, TicTypes
  <2>3. tic.crc = 0 => ~(tic.size > 0)
    BY <2>1 DEF Bad, CheckBad
  <2>4. tic.crc # 0 /\ file.size > 0
    BY <2>1, <2>3 DEF Readable
  <2> DEFINE size == file.size
  <2> HIDE DEF size
  <2>5. tic' = [tic EXCEPT !.size = size]
    BY <2>1 DEF size
  <2>6. tic'.crc = tic.crc /\ tic'.size = size
    BY <2>2, <2>5 DEF TicType
  <2> QED
    BY <2>1, <2>4, <2>6 DEF Readable, size
<1>9. ASSUME Relay PROVE Readable'
  <2> DEFINE u == Addressed(hop + 1, tic)
  <2>1. /\ fate = "adding" /\ fate' = "way" /\ UNCHANGED file /\ text' = WriteTic(u, list')
    BY <1>9 DEF Relay
  <2>2. /\ u \in TicType /\ u.file # NoValue /\ u.area # NoValue /\ list' \in Seq(Addresses)
    BY <1>9, RelayOK
  <2>3. hop \in Nat /\ hop + 1 \in 1 .. MaxHops /\ tic \in TicType
    BY <2>1, TicAssumption DEF TicInv, InMemory, TicTypes
  <2>4. u.from = hop + 1 /\ u.size = tic.size /\ u.crc = tic.crc
    BY <2>3, AddressedType
  <2>5. u.from # 0 /\ u.size > 0 /\ u.crc # 0
    BY <2>1, <2>3, <2>4 DEF Readable
  <2> HIDE DEF u
  <2>6. \A n : ~Bad(n, text')
    BY <2>1, <2>2, <2>5, WrittenGood
  <2>7. ParsedTic(text') = Reread(u)
    BY <2>1, <2>2, RoundTrip
  <2>8. Reread(u).size = u.size
    BY <2>2 DEF Reread, Described, TicType
  <2> QED
    BY <2>1, <2>5, <2>6, <2>7, <2>8 DEF Readable
<1>10. ASSUME Spoil PROVE Readable'
  <2>1. /\ UNCHANGED <<text, hop, fate, tic>> /\ fate = "way"
        /\ file' = [file EXCEPT !.crc = 99]
    BY <1>10 DEF Spoil
  <2>2. file'.size = file.size
    BY <2>1 DEF TicInv, TicTypes
  <2> QED
    BY <2>1, <2>2 DEF Readable
<1>11. ASSUME UNCHANGED vars PROVE Readable'
  BY <1>11 DEF vars, Readable
<1> QED
  BY <1>2, <1>3, <1>4, <1>5, <1>6, <1>7, <1>8, <1>9, <1>10, <1>11 DEF Next

(* No htick refuses what an htick has written, as long as no file is empty *)
(* and no ticket comes in with neither a size nor a checksum.              *)
THEOREM WrittenIsAccepted ==
  ASSUME 0 \notin Sizes, \A lack \in Lacking : ~Unsound(lack)
  PROVE  Spec => []WrittenIsRead
<1>1. Init => Readable
  BY DEF Init, Readable
<1>2. TicInv /\ Readable /\ [Next]_vars => Readable'
  BY ReadableStep
<1>3. TicInv /\ Readable => WrittenIsRead
  BY TicAssumption DEF TicInv, TicTypes, Readable, WrittenIsRead
<1> QED
  BY <1>1, <1>2, <1>3, TicInvariant, PTL DEF Spec
=============================================================================
