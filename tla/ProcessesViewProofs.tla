------------------------ MODULE ProcessesViewProofs -------------------------
(***************************************************************************)
(* That the view never loses a process the manager lists, whatever         *)
(* snapshots fail; and, if none fails, that rows, infos and the manager    *)
(* agree, that the filter decides what is drawn and that only rows of      *)
(* exited processes are erased.  For any processes, intervals and filters. *)
(***************************************************************************)
EXTENDS ProcessesView, SequenceTheorems, FiniteSetTheorems, TLAPS

UniqueKeys(s) == \A m, n \in DOMAIN s : s[m].Key = s[n].Key => m = n

TwoRows(s, k) ==
    \E m, n \in DOMAIN s : m # n /\ s[m].Key = k /\ s[n].Key = k

-----------------------------------------------------------------------------
(* Sequences. *)

\* The sequences of a finite set list each of its elements once.
LEMMA SetToSeqsFacts ==
    ASSUME NEW S, IsFiniteSet(S), NEW s \in SetToSeqs(S)
    PROVE  /\ s \in Seq(S)
           /\ s \in [1 .. Cardinality(S) -> S]
           /\ Range(s) = S
           /\ \A m, n \in DOMAIN s : s[m] = s[n] => m = n
<1>. DEFINE D == 1 .. Cardinality(S)
<1>1. Cardinality(S) \in Nat
  BY FS_CardinalityType
<1>2. /\ s \in [D -> S]
      /\ \A m, n \in D : m # n => s[m] # s[n]
  BY DEF SetToSeqs
<1>3. s \in Injection(D, S)
  BY <1>2 DEF Injection, IsInjective
<1>4. Cardinality(D) = Cardinality(S)
  BY <1>1, FS_Interval
<1>5. s \in Surjection(D, S)
  BY <1>3, <1>4, FS_Injection
<1>6. \A x \in S : \E n \in D : s[n] = x
  BY <1>5 DEF Surjection
<1>7. Range(s) = S
  BY <1>2, <1>6 DEF Range
<1>8. s \in Seq(S)
  BY <1>1, <1>2
<1>9. QED
  BY <1>2, <1>7, <1>8

\* A sort rearranges the rows.
LEMMA SortedFacts ==
    ASSUME NEW T, NEW s \in Seq(T), NEW doSort, NEW t \in MayBeSorted(s, doSort)
    PROVE  /\ t \in Seq(T)
           /\ Len(t) = Len(s)
           /\ Range(t) = Range(s)
           /\ UniqueKeys(s) => UniqueKeys(t)
           /\ \A k : TwoRows(s, k) => TwoRows(t, k)
<1>1. /\ Len(s) \in Nat
      /\ DOMAIN s = 1 .. Len(s)
      /\ s \in [1 .. Len(s) -> T]
  BY LenProperties
<1>2. CASE t = s
  BY <1>2
<1>3. CASE t \in Sorted(s)
  <2>. DEFINE D == 1 .. Len(s)
  <2>1. IsFiniteSet(D) /\ Cardinality(D) = Len(s)
    BY <1>1, FS_Interval
  <2>2. PICK p \in SetToSeqs(D) : t = [n \in D |-> s[p[n]]]
    BY <1>1, <1>3 DEF Sorted
  <2>3. /\ p \in [D -> D]
        /\ Range(p) = D
        /\ \A m, n \in D : p[m] = p[n] => m = n
    BY <2>1, SetToSeqsFacts
  <2>4. \A d \in D : \E n \in D : p[n] = d
    BY <2>3 DEF Range
  <2>5. t \in [D -> T] /\ \A n \in D : t[n] = s[p[n]]
    BY <1>1, <2>2, <2>3
  <2>6. t \in Seq(T) /\ Len(t) = Len(s) /\ DOMAIN t = D
    BY <1>1, <2>5
  <2>7. Range(t) = Range(s)
    <3>1. ASSUME NEW m \in D PROVE t[m] \in Range(s)
      BY <1>1, <2>3, <2>5 DEF Range
    <3>2. ASSUME NEW d \in D PROVE s[d] \in Range(t)
      <4>1. PICK n \in D : p[n] = d
        BY <2>4
      <4>2. QED
        BY <2>5, <2>6, <4>1 DEF Range
    <3>3. QED
      BY <1>1, <2>6, <3>1, <3>2 DEF Range
  <2>8. UniqueKeys(s) => UniqueKeys(t)
    BY <1>1, <2>3, <2>5, <2>6 DEF UniqueKeys
  <2>9. ASSUME NEW k, TwoRows(s, k) PROVE TwoRows(t, k)
    <3>1. PICK m, n \in D : m # n /\ s[m].Key = k /\ s[n].Key = k
      BY <1>1, <2>9 DEF TwoRows
    <3>2. PICK a \in D : p[a] = m
      BY <2>4
    <3>3. PICK b \in D : p[b] = n
      BY <2>4
    <3>4. QED
      BY <2>5, <2>6, <3>1, <3>2, <3>3 DEF TwoRows
  <2>10. QED
    BY <2>6, <2>7, <2>8, <2>9
<1>4. QED
  BY <1>2, <1>3 DEF MayBeSorted

\* What is known of a list after others are pushed to its end.
LEMMA ConcatFacts ==
    ASSUME NEW T, NEW s \in Seq(T), NEW t \in Seq(T)
    PROVE  /\ s \o t \in Seq(T)
           /\ Range(s \o t) = Range(s) \cup Range(t)
           /\ UniqueKeys(s) /\ UniqueKeys(t)
                /\ Keys(Range(s)) \cap Keys(Range(t)) = {}
              => UniqueKeys(s \o t)
           /\ \A k : TwoRows(s, k) => TwoRows(s \o t, k)
           /\ \A k \in Keys(Range(s)) \cap Keys(Range(t)) : TwoRows(s \o t, k)
<1>. DEFINE u == s \o t
<1>1. /\ Len(s) \in Nat /\ Len(t) \in Nat
      /\ DOMAIN s = 1 .. Len(s) /\ DOMAIN t = 1 .. Len(t)
  BY LenProperties
<1>2. /\ u \in Seq(T)
      /\ DOMAIN u = 1 .. Len(s) + Len(t)
      /\ \A n \in 1 .. Len(s) + Len(t) :
             u[n] = IF n <= Len(s) THEN s[n] ELSE t[n - Len(s)]
  BY ConcatProperties, LenProperties
<1>. HIDE DEF u
<1>3. /\ \A n \in DOMAIN s : n \in DOMAIN u /\ u[n] = s[n]
      /\ \A n \in DOMAIN t : /\ n + Len(s) \in DOMAIN u
                             /\ u[n + Len(s)] = t[n]
      /\ \A n \in DOMAIN u : \/ n \in DOMAIN s /\ u[n] = s[n]
                             \/ /\ n - Len(s) \in DOMAIN t
                                /\ u[n] = t[n - Len(s)]
  BY <1>1, <1>2
<1>4. Range(u) = Range(s) \cup Range(t)
  BY <1>3 DEF Range
<1>5. ASSUME UniqueKeys(s), UniqueKeys(t),
             Keys(Range(s)) \cap Keys(Range(t)) = {},
             NEW m \in DOMAIN u, NEW n \in DOMAIN u, u[m].Key = u[n].Key
      PROVE  m = n
  <2>1. CASE m \in DOMAIN s /\ n \in DOMAIN s
    BY <1>3, <1>5, <2>1, <1>1, <1>2 DEF UniqueKeys
  <2>2. CASE m \notin DOMAIN s /\ n \notin DOMAIN s
    <3>1. /\ m - Len(s) \in DOMAIN t /\ n - Len(s) \in DOMAIN t
          /\ u[m] = t[m - Len(s)] /\ u[n] = t[n - Len(s)]
      BY <1>3, <2>2
    <3>2. m - Len(s) = n - Len(s)
      BY <1>5, <3>1 DEF UniqueKeys
    <3>3. QED
      BY <1>1, <1>2, <3>2
  <2>3. CASE m \in DOMAIN s /\ n \notin DOMAIN s
    <3>1. u[m] \in Range(s) /\ u[n] \in Range(t)
      BY <1>1, <1>2, <1>3, <2>3 DEF Range
    <3>2. QED
      BY <1>5, <3>1 DEF Keys
  <2>4. CASE m \notin DOMAIN s /\ n \in DOMAIN s
    <3>1. u[n] \in Range(s) /\ u[m] \in Range(t)
      BY <1>1, <1>2, <1>3, <2>4 DEF Range
    <3>2. QED
      BY <1>5, <3>1 DEF Keys
  <2>5. QED
    BY <2>1, <2>2, <2>3, <2>4
<1>6. ASSUME NEW k, TwoRows(s, k) PROVE TwoRows(u, k)
  BY <1>3, <1>6 DEF TwoRows
<1>7. ASSUME NEW k \in Keys(Range(s)) \cap Keys(Range(t)) PROVE TwoRows(u, k)
  <2>1. PICK m \in DOMAIN s : s[m].Key = k
    BY DEF Keys, Range
  <2>2. PICK n \in DOMAIN t : t[n].Key = k
    BY DEF Keys, Range
  <2>3. /\ m \in DOMAIN u /\ u[m].Key = k
        /\ n + Len(s) \in DOMAIN u /\ u[n + Len(s)].Key = k
    BY <1>3, <2>1, <2>2
  <2>4. m # n + Len(s)
    BY <1>1, <2>1, <2>2
  <2>5. QED
    BY <2>3, <2>4 DEF TwoRows
<1>8. UniqueKeys(s) /\ UniqueKeys(t)
        /\ Keys(Range(s)) \cap Keys(Range(t)) = {} => UniqueKeys(u)
  BY <1>5 DEF UniqueKeys
<1>9. QED
  BY <1>2, <1>4, <1>6, <1>7, <1>8 DEF u

\* What erasing an element of a list leaves.
LEMMA RemoveAtFacts ==
    ASSUME NEW T, NEW s \in Seq(T), NEW x \in 1 .. Len(s)
    PROVE  /\ RemoveAt(s, x) \in Seq(T)
           /\ Len(RemoveAt(s, x)) = Len(s) - 1
           /\ DOMAIN RemoveAt(s, x) = 1 .. Len(s) - 1
           /\ \A n \in 1 .. Len(s) - 1 :
                  RemoveAt(s, x)[n] = IF n < x THEN s[n] ELSE s[n + 1]
<1>. DEFINE a == SubSeq(s, 1, x - 1)
            b == SubSeq(s, x + 1, Len(s))
<1>1. Len(s) \in Nat /\ x \in Nat /\ \A n \in 1 .. Len(s) : s[n] \in T
  BY LenProperties, ElementOfSeq
<1>2. /\ a \in Seq(T)
      /\ Len(a) = x - 1
      /\ \A n \in 1 .. x - 1 : a[n] = s[n]
  <2>1. \A n \in 1 .. x - 1 : s[n] \in T
    BY <1>1
  <2>2. 1 \in Int /\ x - 1 \in Int
    BY <1>1
  <2>3. QED
    BY <1>1, <2>1, <2>2, SubSeqProperties
<1>3. /\ b \in Seq(T)
      /\ Len(b) = Len(s) - x
      /\ \A n \in 1 .. Len(s) - x : b[n] = s[x + n]
  <2>1. \A n \in x + 1 .. Len(s) : s[n] \in T
    BY <1>1
  <2>2. x + 1 \in Int /\ Len(s) \in Int
    BY <1>1
  <2>3. QED
    BY <1>1, <2>1, <2>2, SubSeqProperties
<1>4. RemoveAt(s, x) = a \o b
  BY DEF RemoveAt
<1>. HIDE DEF a, b
<1>5. /\ a \o b \in Seq(T)
      /\ Len(a \o b) = Len(s) - 1
      /\ \A n \in 1 .. Len(s) - 1 :
             (a \o b)[n] = IF n <= x - 1 THEN a[n] ELSE b[n - (x - 1)]
  <2>1. a \in Seq(T) /\ b \in Seq(T)
    BY <1>2, <1>3
  <2>2. /\ a \o b \in Seq(T)
        /\ Len(a \o b) = Len(a) + Len(b)
        /\ \A n \in 1 .. Len(a) + Len(b) :
               (a \o b)[n] = IF n <= Len(a) THEN a[n] ELSE b[n - Len(a)]
    BY <2>1, ConcatProperties
  <2>3. Len(a) = x - 1 /\ Len(a) + Len(b) = Len(s) - 1
    BY <1>1, <1>2, <1>3
  <2>4. QED
    BY <2>2, <2>3
<1>6. \A n \in 1 .. Len(s) - 1 :
          (a \o b)[n] = IF n < x THEN s[n] ELSE s[n + 1]
  <2>1. ASSUME NEW n \in 1 .. Len(s) - 1, n < x
        PROVE  (a \o b)[n] = s[n]
    <3>1. n \in 1 .. x - 1
      BY <1>1, <2>1
    <3>2. QED
      BY <1>1, <1>2, <1>5, <2>1, <3>1
  <2>2. ASSUME NEW n \in 1 .. Len(s) - 1, ~(n < x)
        PROVE  (a \o b)[n] = s[n + 1]
    <3>1. /\ n - (x - 1) \in 1 .. Len(s) - x
          /\ x + (n - (x - 1)) = n + 1
          /\ ~(n <= x - 1)
      BY <1>1, <2>2
    <3>2. b[n - (x - 1)] = s[n + 1]
      BY <1>3, <3>1
    <3>3. QED
      BY <1>5, <3>1, <3>2
  <2>3. QED
    BY <2>1, <2>2
<1>7. QED
  BY <1>4, <1>5, <1>6, LenProperties
-----------------------------------------------------------------------------
(* ProcessInfoEx. *)

\* A key without an info has none of the infos.
LEMMA NoInfoIsOther == NoInfo \notin Info
<1>. SUFFICES ASSUME NoInfo \in Info PROVE FALSE
  OBVIOUS
<1>1. DOMAIN NoInfo = {"missing"}
  BY DEF NoInfo
<1>2. "isNew" \in DOMAIN NoInfo
  BY DEF Info
<1>3. QED
  BY <1>1, <1>2

\* What is done to an info keeps its object, and New, the passing of time and
\* an update that does not remove the row keep whether it is terminated.
LEMMA InfoFacts ==
    ASSUME NEW x \in Info
    PROVE  /\ /\ New(x) \in Info
              /\ New(x).pi = x.pi /\ New(x).isTerminated = x.isTerminated
           /\ /\ Term(x) \in Info
              /\ Term(x).pi = x.pi /\ Term(x).isTerminated = TRUE
           /\ /\ Passed(x) \in Info
              /\ Passed(x).pi = x.pi /\ Passed(x).filtered = x.filtered
              /\ Passed(x).isTerminated = x.isTerminated
           /\ /\ Updated(x) \in Info
              /\ Updated(x).pi = x.pi
              /\ ~Update(x) => Updated(x).isTerminated = x.isTerminated
<1>. USE HoldIsNat
<1>1. New(x) \in Info /\ New(x).pi = x.pi
        /\ New(x).isTerminated = x.isTerminated
  <2>1. Hold \in -1 .. Hold
    OBVIOUS
  <2>2. New(x) \in Info
    BY <2>1 DEF New, Info
  <2>3. New(x).pi = x.pi
    BY DEF New, Info
  <2>4. New(x).isTerminated = x.isTerminated
    BY DEF New, Info
  <2>5. QED
    BY <2>2, <2>3, <2>4
<1>2. Term(x) \in Info /\ Term(x).pi = x.pi /\ Term(x).isTerminated = TRUE
  <2>1. Hold \in -1 .. Hold
    OBVIOUS
  <2>2. Term(x) \in Info
    BY <2>1 DEF Term, Info
  <2>3. Term(x).pi = x.pi
    BY DEF Term, Info
  <2>4. Term(x).isTerminated = TRUE
    BY DEF Term, Info
  <2>5. QED
    BY <2>2, <2>3, <2>4
<1>3. Passed(x) \in Info /\ Passed(x).pi = x.pi
        /\ Passed(x).filtered = x.filtered
        /\ Passed(x).isTerminated = x.isTerminated
  <2>1. CASE x # NoInfo /\ x.left >= 0
    BY <2>1 DEF Passed, Info
  <2>2. CASE ~(x # NoInfo /\ x.left >= 0)
    BY <2>2 DEF Passed
  <2>3. QED
    BY <2>1, <2>2
<1>4. Updated(x) \in Info /\ Updated(x).pi = x.pi
        /\ (~Update(x) => Updated(x).isTerminated = x.isTerminated)
  <2>1. CASE Expires(x)
    <3>1. /\ Updated(x) = [x EXCEPT !.isNew = FALSE, !.isTerminated = FALSE]
          /\ ~Update(x) => ~x.isTerminated
      BY <2>1 DEF Updated, Update
    <3>2. Updated(x) \in Info /\ Updated(x).pi = x.pi
            /\ Updated(x).isTerminated = FALSE
      BY <3>1 DEF Info
    <3>3. x.isTerminated \in BOOLEAN
      BY DEF Info
    <3>4. QED
      BY <3>1, <3>2, <3>3, Zenon
  <2>2. CASE ~Expires(x)
    BY <2>2 DEF Updated
  <2>3. QED
    BY <2>1, <2>2
<1>5. QED
  BY <1>1, <1>2, <1>3, <1>4

Flagged(x, k) == [x EXCEPT !.filtered = k \in hidden]

\* The flag of the filter is set alone.
LEMMA FlaggedFacts ==
    ASSUME NEW x \in Info, NEW k
    PROVE  /\ Flagged(x, k) \in Info /\ Flagged(x, k).pi = x.pi
           /\ Flagged(x, k).isTerminated = x.isTerminated
           /\ Flagged(x, k).filtered = (k \in hidden)
<1>. USE DEF Flagged
<1>1. CASE k \in hidden
  <2>1. (k \in hidden) = TRUE
    BY <1>1
  <2>2. [x EXCEPT !.filtered = k \in hidden] = [x EXCEPT !.filtered = TRUE]
    BY <2>1, Zenon
  <2>3. LET y == [x EXCEPT !.filtered = TRUE] IN
        /\ y \in Info /\ y.pi = x.pi
        /\ y.isTerminated = x.isTerminated
        /\ y.filtered = TRUE
    BY DEF Info
  <2>4. QED
    BY <2>1, <2>2, <2>3, Zenon
<1>2. CASE k \notin hidden
  <2>1. (k \in hidden) = FALSE
    BY <1>2
  <2>2. [x EXCEPT !.filtered = k \in hidden] = [x EXCEPT !.filtered = FALSE]
    BY <2>1, Zenon
  <2>3. LET y == [x EXCEPT !.filtered = FALSE] IN
        /\ y \in Info /\ y.pi = x.pi
        /\ y.isTerminated = x.isTerminated
        /\ y.filtered = FALSE
    BY DEF Info
  <2>4. QED
    BY <2>1, <2>2, <2>3, Zenon
<1>3. QED
  BY <1>1, <1>2

\* An info that is found or made is one, of the object it has or is made for.
LEMMA GetInfoFacts ==
    ASSUME NEW f \in [Key -> Info \cup {NoInfo}], NEW o \in Object
    PROVE  /\ GetInfo(f, o) \in Info
           /\ f[o.Key] = NoInfo => /\ GetInfo(f, o).pi = o
                                   /\ ~GetInfo(f, o).isTerminated
           /\ f[o.Key] # NoInfo => GetInfo(f, o) = f[o.Key]
<1>1. o.Key \in Key
  BY DEF Object
<1>2. NewInfo(o) \in Info /\ NewInfo(o).pi = o /\ ~NewInfo(o).isTerminated
  BY HoldIsNat DEF NewInfo, Info
<1>3. QED
  BY <1>1, <1>2 DEF GetInfo

\* So is an info that is marked.
LEMMA MarkedInfoType ==
    ASSUME NEW f \in [Key -> Info \cup {NoInfo}], NEW o \in Object
    PROVE  New(GetInfo(f, o)) \in Info /\ Term(GetInfo(f, o)) \in Info
<1>1. GetInfo(f, o) \in Info
  BY GetInfoFacts
<1>. HIDE DEF GetInfo
<1>2. QED
  BY <1>1, InfoFacts, Zenon

-----------------------------------------------------------------------------
(* The invariant for any failures. *)

\* The first pause saves the interval.
IntervalIsSaved == interval = 0 => oldInterval \in Intervals

Finite == IsFiniteSet(started) /\ IsFiniteSet(pm)

\* The indices collected so far are of rows that were visited.
IndicesAreVisited == pc = "loop" => \A n \in DOMAIN indices : indices[n] < i

InfosHaveRows ==
    \A k \in Key : info[k] # NoInfo =>
        info[k].pi.Key = k /\ k \in Keys(RowSet)

ListedHaveRows == Keys(pm) \subseteq Keys(RowSet)

\* If a listed process still has the mark of an older object, both objects
\* have a row: the one the mark removes is not the last.
MarkedHaveTwoRows ==
    \A k \in Keys(pm) : info[k] # NoInfo /\ info[k].isTerminated =>
        TwoRows(rows, k)

RowInv == InfosHaveRows /\ ListedHaveRows /\ MarkedHaveTwoRows

Inv == TypeOK /\ IntervalIsSaved /\ Finite /\ IndicesAreVisited /\ RowInv

LEMMA MaxAgeIsNat == MaxAge \in Nat /\ \A n \in Intervals : n <= MaxAge
<1>1. PICK n \in Intervals : \A m \in Intervals : n >= m
  BY OneIsLongest
<1>2. Max(Intervals) \in Intervals /\ \A m \in Intervals : Max(Intervals) >= m
  BY <1>1 DEF Max
<1>3. QED
  BY <1>2, IntervalsArePositive DEF MaxAge

\* A row at an index is in the set of rows.
LEMMA RowFacts ==
    ASSUME TypeOK
    PROVE  /\ DOMAIN rows = 1 .. Len(rows)
           /\ Len(rows) \in Nat
           /\ RowSet \subseteq Object
           /\ \A n \in DOMAIN rows : /\ rows[n] \in Object
                                     /\ rows[n] \in RowSet
                                     /\ rows[n].Key \in Key
                                     /\ rows[n].Key \in Keys(RowSet)
           /\ \A k : HasRow(k) <=> k \in Keys(RowSet)
           /\ Keys(RowSet) \subseteq Key
           /\ Keys(pm) \subseteq Key
<1>1. /\ DOMAIN rows = 1 .. Len(rows) /\ Len(rows) \in Nat
      /\ \A n \in DOMAIN rows : rows[n] \in Object
  BY LenProperties DEF TypeOK
<1>2. \A o \in Object : o.Key \in Key
  BY DEF Object
<1>3. RowSet \subseteq Object
  BY <1>1 DEF RowSet, Range
<1>4. \A n \in DOMAIN rows : rows[n] \in RowSet /\ rows[n].Key \in Keys(RowSet)
  BY DEF RowSet, Range, Keys
<1>5. \A k : HasRow(k) <=> k \in Keys(RowSet)
  BY DEF HasRow, RowSet, Range, Keys
<1>6. Keys(RowSet) \subseteq Key /\ Keys(pm) \subseteq Key
  BY <1>2, <1>3 DEF Keys, TypeOK
<1>7. QED
  BY <1>1, <1>2, <1>3, <1>4, <1>5, <1>6

LEMMA InvInit == Init => Inv
<1>. SUFFICES ASSUME Init PROVE Inv
  OBVIOUS
<1>. USE DEF Init
<1>1. /\ rows \in Seq(Object) /\ Len(rows) = 0 /\ DOMAIN rows = {}
      /\ indices \in Seq(1 .. Len(rows)) /\ DOMAIN indices = {}
  BY EmptySeq
<1>2. TypeOK
  <2>1. age \in 0 .. MaxAge /\ failed \in 0 .. MaxFailed
          /\ i \in 1 .. Len(rows) + 1
    BY <1>1, MaxAgeIsNat, MaxFailedIsNat
  <2>2. builds \in [Key -> Nat] /\ info \in [Key -> Info \cup {NoInfo}]
    OBVIOUS
  <2>3. specs \in BOOLEAN /\ wrapped \in BOOLEAN
          /\ pc \in {"input", "loop", "draw", "drawSorted"}
    OBVIOUS
  <2>4. interval \in Intervals \cup {0} /\ oldInterval \in Intervals \cup {Unset}
    OBVIOUS
  <2>5. QED
    BY <1>1, <2>1, <2>2, <2>3, <2>4, Zenon DEF TypeOK
<1>3. IntervalIsSaved
  BY IntervalsArePositive DEF IntervalIsSaved
<1>4. Finite
  BY FS_EmptySet DEF Finite
<1>5. IndicesAreVisited
  BY <1>1 DEF IndicesAreVisited
<1>6. RowInv
  BY DEF RowInv, InfosHaveRows, ListedHaveRows, MarkedHaveTwoRows, Keys
<1>7. QED
  BY <1>2, <1>3, <1>4, <1>5, <1>6 DEF Inv

\* What leaves the rows, the manager and the infos alone keeps RowInv.
LEMMA RowInvKept ==
    ASSUME RowInv, UNCHANGED <<rows, pm, info>>
    PROVE  RowInv'
BY DEF RowInv, InfosHaveRows, ListedHaveRows, MarkedHaveTwoRows, RowSet, Keys

LEMMA InvSystem == ASSUME Inv, System PROVE Inv'
<1>. USE DEF Inv, pmVars, viewVars, userVars, clockVars
<1>1. /\ UNCHANGED <<pmVars, viewVars, userVars, age, specs, pc, i, indices,
                     failed>>
      /\ started' \subseteq Key /\ alive' \subseteq started'
      /\ wrapped' \in BOOLEAN
  BY DEF System, StartProcess, ExitProcess, Wrap, TypeOK, systemVars
<1>2. IsFiniteSet(started')
  <2>1. started' = started \/ \E k : started' = started \cup {k}
    BY DEF System, StartProcess, ExitProcess, Wrap, systemVars
  <2>2. QED
    BY <2>1, FS_AddElement DEF Finite
<1>3. TypeOK'
  BY <1>1 DEF TypeOK
<1>4. (IntervalIsSaved /\ Finite /\ IndicesAreVisited)'
  BY <1>1, <1>2 DEF IntervalIsSaved, Finite, IndicesAreVisited
<1>5. RowInv'
  BY <1>1, RowInvKept
<1>6. QED
  BY <1>3, <1>4, <1>5

LEMMA InvTick == ASSUME Inv, Tick PROVE Inv'
<1>. USE DEF Inv, systemVars, pmVars, userVars
<1>1. /\ UNCHANGED <<systemVars, pmVars, rows, userVars, wrapped, specs, pc, i,
                     indices, failed>>
      /\ age' = IF age < MaxAge THEN age + 1 ELSE age
      /\ info' = [k \in Key |-> Passed(info[k])]
  BY DEF Tick
<1>2. \A k \in Key : /\ info'[k] \in Info \cup {NoInfo}
                     /\ info'[k] # NoInfo => info[k] # NoInfo
                     /\ info'[k] # NoInfo =>
                            /\ info'[k].pi = info[k].pi
                            /\ info'[k].isTerminated = info[k].isTerminated
  <2>1. SUFFICES ASSUME NEW k \in Key
                 PROVE  /\ Passed(info[k]) \in Info \cup {NoInfo}
                        /\ Passed(info[k]) # NoInfo =>
                              /\ info[k] # NoInfo
                              /\ Passed(info[k]).pi = info[k].pi
                              /\ Passed(info[k]).isTerminated
                                     = info[k].isTerminated
    BY <1>1
  <2>2. CASE info[k] = NoInfo
    BY <2>2 DEF Passed
  <2>3. CASE info[k] \in Info
    BY <2>3, InfoFacts, NoInfoIsOther
  <2>4. QED
    BY <2>2, <2>3 DEF TypeOK
<1>3. age' \in 0 .. MaxAge
  BY <1>1, MaxAgeIsNat DEF TypeOK
<1>4. TypeOK'
  BY <1>1, <1>2, <1>3 DEF TypeOK
<1>5. (IntervalIsSaved /\ Finite /\ IndicesAreVisited)'
  BY <1>1 DEF IntervalIsSaved, Finite, IndicesAreVisited
<1>6. RowInv'
  BY <1>1, <1>2, RowFacts
     DEF RowInv, InfosHaveRows, ListedHaveRows, MarkedHaveTwoRows, RowSet, Keys
<1>7. QED
  BY <1>4, <1>5, <1>6

LEMMA InvUser == ASSUME Inv, User PROVE Inv'
<1>. USE DEF Inv, systemVars, pmVars, viewVars, clockVars
<1>1. UNCHANGED <<systemVars, pmVars, viewVars, clockVars, specs, pc, i,
                  indices, failed>>
  BY DEF User, ChooseInterval, TogglePause, SetFilter
<1>2. hidden' \subseteq Key
  BY FiltersHideKeys DEF User, ChooseInterval, TogglePause, SetFilter, TypeOK
<1>3. /\ interval' \in Intervals \cup {0}
      /\ oldInterval' \in Intervals \cup {Unset}
      /\ interval' = 0 => oldInterval' \in Intervals
  <2>1. CASE \E n \in Intervals : ChooseInterval(n)
    BY <2>1, IntervalsArePositive DEF ChooseInterval, TypeOK
  <2>2. CASE TogglePause
    BY <2>2, IntervalsArePositive DEF TogglePause, TypeOK, IntervalIsSaved
  <2>3. CASE \E S \in Filters : SetFilter(S)
    BY <2>3 DEF SetFilter, TypeOK, IntervalIsSaved
  <2>4. QED
    BY <2>1, <2>2, <2>3 DEF User
<1>4. TypeOK'
  BY <1>1, <1>2, <1>3 DEF TypeOK
<1>5. (IntervalIsSaved /\ Finite /\ IndicesAreVisited)'
  BY <1>1, <1>3 DEF IntervalIsSaved, Finite, IndicesAreVisited
<1>6. RowInv'
  BY <1>1, RowInvKept
<1>7. QED
  BY <1>4, <1>5, <1>6

-----------------------------------------------------------------------------
(* The refresh. *)

Snapshot(ok) == IF ok THEN alive ELSE {}

\* What EnumProcesses makes of a snapshot: an object is built for each key that
\* was not listed, listed objects stay if their key is in the snapshot.
LEMMA EnumFacts ==
    ASSUME TypeOK, Finite, NEW S, S \subseteq Key, IsFiniteSet(S)
    PROVE  /\ NewObjects(S) \subseteq Object /\ IsFiniteSet(NewObjects(S))
           /\ \A o, q \in NewObjects(S) : o.Key = q.Key => o = q
           /\ Keys(NewObjects(S)) = S \ Keys(pm)
           /\ Kept(S) \subseteq pm /\ Keys(Kept(S)) \subseteq S
           /\ Gone(S) = {o \in pm : o.Key \notin S}
           /\ IsFiniteSet(Kept(S) \cup NewObjects(S))
<1>. DEFINE N == NewObjects(S)
<1>1. \A k \in Key : builds[k] + 1 \in Nat
  BY DEF TypeOK
<1>2. /\ \A o \in N : \E k \in S \ Keys(pm) :
                          o = [Key |-> k, Serial |-> builds[k] + 1]
      /\ \A k \in S \ Keys(pm) : [Key |-> k, Serial |-> builds[k] + 1] \in N
  BY DEF NewObjects
<1>3. \A o \in N : /\ o.Key \in S \ Keys(pm)
                   /\ o = [Key |-> o.Key, Serial |-> builds[o.Key] + 1]
  BY <1>2
<1>4. N \subseteq Object
  BY <1>1, <1>3 DEF Object
<1>5. \A o, q \in N : o.Key = q.Key => o = q
  BY <1>3
<1>6. Keys(N) = S \ Keys(pm)
  <2>1. ASSUME NEW k \in S \ Keys(pm) PROVE \E o \in N : o.Key = k
    <3>1. [Key |-> k, Serial |-> builds[k] + 1] \in N
      BY <1>2
    <3>2. QED
      BY <3>1
  <2>2. QED
    BY <1>3, <2>1 DEF Keys
<1>7. IsFiniteSet(N)
  <2>. DEFINE f == [o \in N |-> o.Key]
  <2>1. f \in [N -> S] /\ \A o, q \in N : f[o] = f[q] => o = q
    BY <1>3, <1>5
  <2>2. f \in Injection(N, S)
    BY <2>1 DEF Injection, IsInjective
  <2>3. QED
    BY <2>2, FS_Injection
<1>8. /\ Kept(S) \subseteq pm /\ Keys(Kept(S)) \subseteq S
      /\ Gone(S) = {o \in pm : o.Key \notin S}
  BY DEF Kept, Gone, Keys
<1>9. IsFiniteSet(Kept(S) \cup N)
  BY <1>7, <1>8, FS_Subset, FS_Union DEF Finite
<1>10. QED
  BY <1>4, <1>5, <1>6, <1>7, <1>8, <1>9

\* What DoUpdate makes of the infos.
LEMMA MarkFacts ==
    ASSUME TypeOK, NEW N, N \subseteq Object, NEW G, G \subseteq Object,
           Keys(N) \cap Keys(G) = {}, NEW k \in Key
    PROVE  LET f == MarkTerminated(MarkNew(info, N), G) IN
           /\ f \in [Key -> Info \cup {NoInfo}]
           /\ k \notin Keys(N) \cup Keys(G) => f[k] = info[k]
           /\ k \in Keys(N) =>
                 \E o \in N : o.Key = k /\ f[k] = New(GetInfo(info, o))
           /\ k \in Keys(G) =>
                 \E o \in G : o.Key = k /\ f[k] = Term(GetInfo(info, o))
<1>. DEFINE g == MarkNew(info, N)
            f == MarkTerminated(g, G)
<1>1. ASSUME NEW l \in Key
      PROVE  /\ l \notin Keys(N) => g[l] = info[l]
             /\ l \in Keys(N) =>
                   \E o \in N : o.Key = l /\ g[l] = New(GetInfo(info, o))
  BY DEF MarkNew, Keys
<1>2. g \in [Key -> Info \cup {NoInfo}]
  <2>1. g = [l \in Key |-> g[l]]
    BY DEF MarkNew
  <2>2. ASSUME NEW l \in Key PROVE g[l] \in Info \cup {NoInfo}
    <3>1. CASE l \notin Keys(N)
      BY <1>1, <3>1 DEF TypeOK
    <3>2. CASE l \in Keys(N)
      <4>1. PICK o \in N : g[l] = New(GetInfo(info, o))
        BY <1>1, <3>2
      <4>2. QED
        BY <4>1, MarkedInfoType DEF TypeOK
    <3>3. QED
      BY <3>1, <3>2
  <2>. HIDE DEF g
  <2>3. QED
    BY <2>1, <2>2
<1>3. ASSUME NEW l \in Key
      PROVE  /\ l \notin Keys(G) => f[l] = g[l]
             /\ l \in Keys(G) =>
                   \E o \in G : o.Key = l /\ f[l] = Term(GetInfo(g, o))
  BY DEF MarkTerminated, Keys
<1>4. f = [l \in Key |-> f[l]]
  BY DEF MarkTerminated
<1>. HIDE DEF f, g
<1>5. f \in [Key -> Info \cup {NoInfo}]
  <2>1. ASSUME NEW l \in Key PROVE f[l] \in Info \cup {NoInfo}
    <3>1. CASE l \notin Keys(G)
      BY <1>2, <1>3, <3>1
    <3>2. CASE l \in Keys(G)
      <4>1. PICK o \in G : f[l] = Term(GetInfo(g, o))
        BY <1>3, <3>2
      <4>2. QED
        BY <1>2, <4>1, MarkedInfoType
    <3>3. QED
      BY <3>1, <3>2
  <2>2. QED
    BY <1>4, <2>1
<1>6. k \in Keys(G) => \E o \in G : o.Key = k /\ f[k] = Term(GetInfo(info, o))
  <2>1. k \in Keys(G) => g[k] = info[k]
    BY <1>1
  <2>2. QED
    BY <1>3, <2>1 DEF GetInfo
<1>7. /\ k \notin Keys(N) \cup Keys(G) => f[k] = info[k]
      /\ k \in Keys(N) =>
            \E o \in N : o.Key = k /\ f[k] = New(GetInfo(info, o))
  BY <1>1, <1>3
<1>8. QED
  BY <1>5, <1>6, <1>7 DEF f, g

\* A refresh adds rows for the new objects to those there are, in any order if
\* a sort is on, and changes no infos but those of new and gone objects.
LEMMA RefreshFacts ==
    ASSUME Inv, NEW ok \in BOOLEAN, Refresh(ok)
    PROVE  LET S == Snapshot(ok)
               N == NewObjects(S)
               G == Gone(S)
           IN  /\ S \subseteq started /\ IsFiniteSet(S)
               /\ pm' = Kept(S) \cup N /\ pmTerminated' = G
               /\ rows' \in Seq(Object)
               /\ Range(rows') = RowSet \cup N
               /\ UniqueKeys(rows) /\ Keys(RowSet) \cap Keys(N) = {}
                     => UniqueKeys(rows')
               /\ \A k : TwoRows(rows, k) => TwoRows(rows', k)
               /\ \A k \in Keys(RowSet) \cap Keys(N) : TwoRows(rows', k)
               /\ info' \in [Key -> Info \cup {NoInfo}]
               /\ \A k \in Key :
                     \/ info'[k] = NoInfo
                     \/ k \notin Keys(N) \cup Keys(G) /\ info'[k] = info[k]
                     \/ \E o \in N : /\ o.Key = k
                                     /\ info'[k] = New(GetInfo(info, o))
                     \/ \E o \in G : /\ o.Key = k
                                     /\ info'[k] = Term(GetInfo(info, o))
               /\ \A k \in Keys(G) : info'[k] # NoInfo
               /\ \A k \in Key \ (Keys(N) \cup Keys(G)) : info'[k] = info[k]
               /\ \A k \in Key : info[k] # NoInfo => info'[k] # NoInfo
<1>. DEFINE S == Snapshot(ok)
            N == NewObjects(S)
            G == Gone(S)
            K == Kept(S)
<1>1. S \subseteq started /\ S \subseteq Key
  BY DEF Snapshot, Inv, TypeOK
<1>2. IsFiniteSet(S)
  BY <1>1, FS_Subset DEF Inv, Finite
<1>3. pm' = K \cup N /\ pmTerminated' = G
  BY DEF Refresh, EnumProcesses, Snapshot
<1>4. IF rows = <<>>
      THEN (\E s \in SetToSeqs(K \cup N) : rows' \in MayBeSorted(s, specs))
           /\ info' = info
      ELSE DoUpdate(N, G)
  BY DEF Refresh, Snapshot
<1>. HIDE DEF S
<1>5. /\ N \subseteq Object /\ IsFiniteSet(N)
      /\ \A o, q \in N : o.Key = q.Key => o = q
      /\ Keys(N) \cap Keys(pm) = {}
      /\ K \subseteq pm /\ G \subseteq pm
      /\ G \subseteq Object
  <2>1. TypeOK /\ Finite /\ pm \subseteq Object
    BY DEF Inv, TypeOK
  <2>2. /\ N \subseteq Object /\ IsFiniteSet(N)
        /\ \A o, q \in N : o.Key = q.Key => o = q
        /\ Keys(N) = S \ Keys(pm)
        /\ K \subseteq pm
        /\ G = {o \in pm : o.Key \notin S}
    BY <1>1, <1>2, <2>1, EnumFacts
  <2>. HIDE DEF N, G, K
  <2>3. QED
    BY <2>1, <2>2
<1>6. Keys(N) \cap Keys(G) = {}
  BY <1>5 DEF Keys
<1>7. rows = <<>> => RowSet = {} /\ pm = {} /\ K = {} /\ G = {}
  <2>. SUFFICES ASSUME rows = <<>> PROVE RowSet = {} /\ pm = {} /\ K = {} /\ G = {}
    OBVIOUS
  <2>1. RowSet = {}
    BY DEF RowSet, Range
  <2>2. pm = {}
    BY <2>1 DEF Inv, RowInv, ListedHaveRows, Keys
  <2>3. QED
    BY <1>5, <2>1, <2>2
<1>. HIDE DEF N, G, K
<1>8. PICK s \in SetToSeqs(N) : rows' \in MayBeSorted(rows \o s, specs)
  <2>1. CASE rows = <<>>
    <3>1. PICK s \in SetToSeqs(N) : rows' \in MayBeSorted(s, specs)
      <4>1. K \cup N = N
        BY <1>7, <2>1
      <4>2. QED
        BY <1>4, <2>1, <4>1
    <3>2. s \in Seq(N)
      BY <1>5, SetToSeqsFacts
    <3>3. rows \o s = s
      BY <2>1, <3>2, ConcatEmptySeq
    <3>4. QED
      BY <3>1, <3>3
  <2>2. CASE rows # <<>>
    BY <1>4, <2>2 DEF DoUpdate
  <2>3. QED
    BY <2>1, <2>2
<1>9. /\ s \in Seq(Object) /\ Range(s) = N /\ UniqueKeys(s)
  <2>1. s \in Seq(N) /\ Range(s) = N /\ s \in [1 .. Cardinality(N) -> N]
          /\ \A m, n \in DOMAIN s : s[m] = s[n] => m = n
    BY <1>5, SetToSeqsFacts
  <2>2. s \in Seq(Object)
    BY <1>5, <2>1, SeqMonotonic
  <2>3. UniqueKeys(s)
    BY <1>5, <2>1 DEF UniqueKeys
  <2>4. QED
    BY <2>1, <2>2, <2>3
<1>10. /\ rows \o s \in Seq(Object)
       /\ Range(rows \o s) = RowSet \cup N
       /\ UniqueKeys(rows) /\ Keys(RowSet) \cap Keys(N) = {}
             => UniqueKeys(rows \o s)
       /\ \A k : TwoRows(rows, k) => TwoRows(rows \o s, k)
       /\ \A k \in Keys(RowSet) \cap Keys(N) : TwoRows(rows \o s, k)
  <2>1. rows \in Seq(Object)
    BY DEF Inv, TypeOK
  <2>2. QED
    BY <1>9, <2>1, ConcatFacts, Zenon DEF RowSet
<1>11. /\ rows' \in Seq(Object)
       /\ Range(rows') = RowSet \cup N
       /\ UniqueKeys(rows) /\ Keys(RowSet) \cap Keys(N) = {}
             => UniqueKeys(rows')
       /\ \A k : TwoRows(rows, k) => TwoRows(rows', k)
       /\ \A k \in Keys(RowSet) \cap Keys(N) : TwoRows(rows', k)
  BY <1>8, <1>10, SortedFacts, Zenon
<1>12. CASE rows = <<>>
  <2>1. info' = info
    BY <1>4, <1>12
  <2>2. \A k \in Key : info[k] = NoInfo
    BY <1>7, <1>12 DEF Inv, RowInv, InfosHaveRows, Keys
  <2>3. Keys(G) = {}
    BY <1>7, <1>12 DEF Keys
  <2>4. info \in [Key -> Info \cup {NoInfo}]
    BY DEF Inv, TypeOK
  <2>5. QED
    BY <1>1, <1>2, <1>3, <1>11, <2>1, <2>2, <2>3, <2>4 DEF S, N, G, K
<1>13. CASE rows # <<>>
  <2>1. info' = MarkTerminated(MarkNew(info, N), G)
    BY <1>4, <1>13 DEF DoUpdate
  <2>2. TypeOK
    BY DEF Inv
  <2>3. \A k \in Key : 
           /\ info' \in [Key -> Info \cup {NoInfo}]
           /\ k \notin Keys(N) \cup Keys(G) => info'[k] = info[k]
           /\ k \in Keys(N) =>
                 \E o \in N : o.Key = k /\ info'[k] = New(GetInfo(info, o))
           /\ k \in Keys(G) =>
                 \E o \in G : o.Key = k /\ info'[k] = Term(GetInfo(info, o))
    BY <1>5, <1>6, <2>1, <2>2, MarkFacts
  <2>4. info' \in [Key -> Info \cup {NoInfo}]
    <3>1. info' = [k \in Key |-> info'[k]]
      BY <2>1 DEF MarkTerminated
    <3>2. \A k \in Key : info'[k] \in Info \cup {NoInfo}
      BY <2>3
    <3>3. QED
      BY <3>1, <3>2
  <2>5. \A k \in Keys(N) \cup Keys(G) : k \in Key
    BY <1>5 DEF Keys, Object
  <2>6. \A k \in Keys(N) \cup Keys(G) : info'[k] # NoInfo
    <3>1. ASSUME NEW k \in Keys(N) PROVE info'[k] # NoInfo
      <4>1. PICK o \in N : info'[k] = New(GetInfo(info, o))
        BY <2>3, <2>5
      <4>2. New(GetInfo(info, o)) \in Info
        BY <1>5, MarkedInfoType DEF Inv, TypeOK
      <4>3. QED
        BY <4>1, <4>2, NoInfoIsOther
    <3>2. ASSUME NEW k \in Keys(G) PROVE info'[k] # NoInfo
      <4>1. PICK o \in G : info'[k] = Term(GetInfo(info, o))
        BY <2>3, <2>5
      <4>2. Term(GetInfo(info, o)) \in Info
        BY <1>5, MarkedInfoType DEF Inv, TypeOK
      <4>3. QED
        BY <4>1, <4>2, NoInfoIsOther
    <3>3. QED
      BY <3>1, <3>2
  <2>7. \A k \in Key : info[k] # NoInfo => info'[k] # NoInfo
    BY <2>3, <2>6
  <2>8. QED
    BY <1>1, <1>2, <1>3, <1>11, <2>3, <2>4, <2>6, <2>7 DEF S, N, G, K
<1>14. QED
  BY <1>12, <1>13

LEMMA RefreshRowInv ==
    ASSUME Inv, NEW ok \in BOOLEAN, Refresh(ok)
    PROVE  RowInv'
<1>. DEFINE S == Snapshot(ok)
            N == NewObjects(S)
            G == Gone(S)
            K == Kept(S)
<1>1. /\ S \subseteq started /\ IsFiniteSet(S)
      /\ pm' = K \cup N
      /\ rows' \in Seq(Object)
      /\ Range(rows') = RowSet \cup N
      /\ \A k : TwoRows(rows, k) => TwoRows(rows', k)
      /\ \A k \in Keys(RowSet) \cap Keys(N) : TwoRows(rows', k)
      /\ \A k \in Key :
            \/ info'[k] = NoInfo
            \/ k \notin Keys(N) \cup Keys(G) /\ info'[k] = info[k]
            \/ \E o \in N : o.Key = k /\ info'[k] = New(GetInfo(info, o))
            \/ \E o \in G : o.Key = k /\ info'[k] = Term(GetInfo(info, o))
  BY RefreshFacts
<1>2. S \subseteq Key /\ TypeOK /\ Finite /\ pm \subseteq Object
        /\ info \in [Key -> Info \cup {NoInfo}]
  BY <1>1 DEF Inv, TypeOK
<1>3. /\ N \subseteq Object
      /\ Keys(N) = S \ Keys(pm)
      /\ K \subseteq pm /\ Keys(K) \subseteq S
      /\ G = {o \in pm : o.Key \notin S}
  BY <1>1, <1>2, EnumFacts
<1>4. /\ \A k \in Key : info[k] # NoInfo =>
            info[k].pi.Key = k /\ k \in Keys(RowSet)
      /\ Keys(pm) \subseteq Keys(RowSet)
      /\ \A k \in Keys(pm) : info[k] # NoInfo /\ info[k].isTerminated =>
            TwoRows(rows, k)
  BY DEF Inv, RowInv, InfosHaveRows, ListedHaveRows, MarkedHaveTwoRows
<1>. HIDE DEF S, N, G, K
<1>5. Keys(RowSet') = Keys(RowSet) \cup Keys(N)
  BY <1>1 DEF RowSet, Keys
<1>6. Keys(pm') = Keys(K) \cup Keys(N)
  BY <1>1 DEF Keys
<1>7. Keys(K) \subseteq Keys(pm) /\ Keys(G) \subseteq Keys(pm)
        /\ Keys(G) \cap S = {} /\ Keys(N) \subseteq S
  BY <1>3 DEF Keys
<1>8. ASSUME NEW o \in N \cup G
      PROVE  /\ o.Key \in Keys(RowSet) \cup Keys(N)
             /\ New(GetInfo(info, o)).pi.Key = o.Key
             /\ Term(GetInfo(info, o)).pi.Key = o.Key
             /\ New(GetInfo(info, o)).isTerminated =>
                   info[o.Key] # NoInfo
  <2>1. o \in Object /\ o.Key \in Key
    BY <1>2, <1>3 DEF Object
  <2>2. o.Key \in Keys(RowSet) \cup Keys(N)
    BY <1>3, <1>4 DEF Keys
  <2>3. /\ GetInfo(info, o) \in Info
        /\ GetInfo(info, o).pi.Key = o.Key
        /\ info[o.Key] = NoInfo => ~GetInfo(info, o).isTerminated
    <3>1. CASE info[o.Key] = NoInfo
      BY <1>2, <2>1, <3>1, GetInfoFacts
    <3>2. CASE info[o.Key] # NoInfo
      BY <1>2, <1>4, <2>1, <3>2, GetInfoFacts
    <3>3. QED
      BY <3>1, <3>2
  <2>. HIDE DEF GetInfo
  <2>4. /\ New(GetInfo(info, o)).pi = GetInfo(info, o).pi
        /\ Term(GetInfo(info, o)).pi = GetInfo(info, o).pi
        /\ New(GetInfo(info, o)).isTerminated = GetInfo(info, o).isTerminated
    BY <2>3, InfoFacts, Zenon
  <2>5. QED
    BY <2>2, <2>3, <2>4, Zenon
<1>9. InfosHaveRows'
  <2>. SUFFICES ASSUME NEW k \in Key, info'[k] # NoInfo
                PROVE  info'[k].pi.Key = k /\ k \in Keys(RowSet')
    BY DEF InfosHaveRows
  <2>1. CASE info'[k] = info[k]
    BY <1>4, <1>5, <2>1
  <2>2. CASE \E o \in N : o.Key = k /\ info'[k] = New(GetInfo(info, o))
    BY <1>5, <1>8, <2>2, Zenon
  <2>3. CASE \E o \in G : o.Key = k /\ info'[k] = Term(GetInfo(info, o))
    BY <1>5, <1>8, <2>3, Zenon
  <2>4. QED
    BY <1>1, <2>1, <2>2, <2>3
<1>10. ListedHaveRows'
  BY <1>4, <1>5, <1>6, <1>7 DEF ListedHaveRows
<1>11. MarkedHaveTwoRows'
  <2>. SUFFICES ASSUME NEW k \in Keys(pm'), info'[k] # NoInfo,
                       info'[k].isTerminated
                PROVE  TwoRows(rows', k)
    BY DEF MarkedHaveTwoRows
  <2>1. k \in S /\ k \in Key /\ k \notin Keys(G)
    BY <1>2, <1>3, <1>6, <1>7
  <2>2. CASE k \notin Keys(N)
    <3>1. k \in Keys(pm)
      BY <1>6, <1>7, <2>2
    <3>2. info'[k] = info[k]
      <4>1. \A o \in N \cup G : o.Key # k
        BY <2>1, <2>2 DEF Keys
      <4>2. QED
        BY <1>1, <2>1, <4>1
    <3>3. QED
      BY <1>1, <1>4, <3>1, <3>2
  <2>3. CASE k \in Keys(N)
    <3>1. PICK o \in N : o.Key = k /\ info'[k] = New(GetInfo(info, o))
      <4>1. \A o \in G : o.Key # k
        BY <2>1 DEF Keys
      <4>2. QED
        BY <1>1, <2>1, <2>3, <4>1
    <3>2. info[k] # NoInfo
      BY <1>8, <3>1, Zenon
    <3>3. k \in Keys(RowSet)
      BY <1>4, <2>1, <3>2
    <3>4. QED
      BY <1>1, <2>3, <3>3
  <2>4. QED
    BY <2>2, <2>3
<1>12. QED
  BY <1>9, <1>10, <1>11 DEF RowInv

LEMMA InvRefresh ==
    ASSUME Inv, NEW ok \in BOOLEAN, Refresh(ok)
    PROVE  Inv'
<1>. DEFINE S == Snapshot(ok)
<1>1. /\ S \subseteq started /\ IsFiniteSet(S)
      /\ pm' = Kept(S) \cup NewObjects(S) /\ pmTerminated' = Gone(S)
      /\ rows' \in Seq(Object)
      /\ info' \in [Key -> Info \cup {NoInfo}]
  BY RefreshFacts
<1>2. S \subseteq Key /\ TypeOK /\ Finite /\ pm \subseteq Object
  BY <1>1 DEF Inv, TypeOK
<1>3. /\ NewObjects(S) \subseteq Object
      /\ Kept(S) \subseteq pm
      /\ Gone(S) = {o \in pm : o.Key \notin S}
      /\ IsFiniteSet(Kept(S) \cup NewObjects(S))
  BY <1>1, <1>2, EnumFacts
<1>4. pm' \subseteq Object /\ pmTerminated' \subseteq Object /\ IsFiniteSet(pm')
  BY <1>1, <1>2, <1>3
<1>5. builds' \in [Key -> Nat]
  BY DEF Refresh, EnumProcesses, Inv, TypeOK
<1>6. failed' \in 0 .. MaxFailed /\ age' \in 0 .. MaxAge
  <2>1. CASE ok
    BY <2>1, MaxFailedIsNat, MaxAgeIsNat DEF Refresh, Inv, TypeOK
  <2>2. CASE ~ok
    BY <2>2, MaxFailedIsNat, MaxAgeIsNat DEF Refresh, Inv, TypeOK
  <2>3. QED
    BY <2>1, <2>2
<1>7. /\ UNCHANGED <<systemVars, userVars, wrapped, specs>>
      /\ pc' = "loop" /\ i' = 1 /\ indices' = <<>>
  BY DEF Refresh
<1>8. /\ i' \in 1 .. Len(rows') + 1
      /\ indices' \in Seq(1 .. Len(rows')) /\ DOMAIN indices' = {}
  <2>1. Len(rows') \in Nat
    BY <1>1, LenProperties
  <2>2. QED
    BY <1>7, <2>1, EmptySeq
<1>9. TypeOK'
  <2>1. /\ started' \subseteq Key /\ alive' \subseteq started'
        /\ hidden' \subseteq Key /\ specs' \in BOOLEAN
        /\ interval' \in Intervals \cup {0}
        /\ oldInterval' \in Intervals \cup {Unset}
        /\ wrapped' \in BOOLEAN
    BY <1>7 DEF systemVars, userVars, Inv, TypeOK
  <2>2. pc' \in {"input", "loop", "draw", "drawSorted"}
    BY <1>7
  <2>3. QED
    BY <1>1, <1>4, <1>5, <1>6, <1>8, <2>1, <2>2, Zenon DEF TypeOK
<1>10. (IntervalIsSaved /\ Finite /\ IndicesAreVisited)'
  BY <1>4, <1>7, <1>8
     DEF Inv, IntervalIsSaved, Finite, IndicesAreVisited, systemVars, userVars
<1>11. RowInv'
  BY RefreshRowInv
<1>12. QED
  BY <1>9, <1>10, <1>11 DEF Inv

LEMMA InvNoRefresh == ASSUME Inv, NoRefresh PROVE Inv'
<1>. USE DEF Inv, NoRefresh, systemVars, pmVars, viewVars, userVars, clockVars
<1>1. /\ indices' \in Seq(1 .. Len(rows')) /\ DOMAIN indices' = {}
      /\ i' \in 1 .. Len(rows') + 1
  <2>1. Len(rows) \in Nat /\ indices' = <<>> /\ i' = 1 /\ rows' = rows
    BY RowFacts
  <2>2. QED
    BY <2>1, EmptySeq
<1>2. TypeOK'
  BY <1>1 DEF TypeOK
<1>3. (IntervalIsSaved /\ Finite /\ IndicesAreVisited)'
  BY <1>1 DEF IntervalIsSaved, Finite, IndicesAreVisited
<1>4. RowInv'
  BY RowInvKept
<1>5. QED
  BY <1>2, <1>3, <1>4

LEMMA InvEndFrame == ASSUME Inv, EndFrame PROVE Inv'
<1>. USE DEF Inv, EndFrame, systemVars, pmVars, viewVars, userVars, clockVars
<1>1. /\ indices' \in Seq(1 .. Len(rows')) /\ DOMAIN indices' = {}
      /\ i' \in 1 .. Len(rows') + 1
  <2>1. Len(rows) \in Nat /\ indices' = <<>> /\ i' = 1 /\ rows' = rows
    BY RowFacts
  <2>2. QED
    BY <2>1, EmptySeq
<1>2. TypeOK'
  BY <1>1 DEF TypeOK
<1>3. (IntervalIsSaved /\ Finite /\ IndicesAreVisited)'
  BY <1>1 DEF IntervalIsSaved, Finite, IndicesAreVisited
<1>4. RowInv'
  BY RowInvKept
<1>5. QED
  BY <1>2, <1>3, <1>4

LEMMA InvEndLoop ==
    ASSUME Inv, NEW dirty \in BOOLEAN, EndLoop(dirty)
    PROVE  Inv'
<1>. USE DEF systemVars, pmVars, userVars, clockVars
<1>1. /\ rows' \in MayBeSorted(rows, dirty)
      /\ specs' = (specs \/ dirty)
      /\ pc' \in {"draw", "drawSorted"}
      /\ UNCHANGED <<systemVars, pmVars, info, userVars, clockVars, i, indices,
                     failed>>
  BY DEF EndLoop
<1>2. TypeOK /\ rows \in Seq(Object)
  BY DEF Inv, TypeOK
<1>3. /\ rows' \in Seq(Object)
      /\ Len(rows') = Len(rows)
      /\ Range(rows') = Range(rows)
      /\ \A k : TwoRows(rows, k) => TwoRows(rows', k)
  BY <1>1, <1>2, SortedFacts
<1>4. TypeOK'
  <2>1. specs' \in BOOLEAN
    BY <1>1, <1>2, Zenon DEF TypeOK
  <2>2. QED
    BY <1>1, <1>2, <1>3, <2>1 DEF TypeOK
<1>5. (IntervalIsSaved /\ Finite /\ IndicesAreVisited)'
  BY <1>1 DEF Inv, IntervalIsSaved, Finite, IndicesAreVisited
<1>6. RowInv'
  BY <1>1, <1>3 DEF Inv, RowInv, InfosHaveRows, ListedHaveRows,
                    MarkedHaveTwoRows, RowSet, Keys
<1>7. QED
  BY <1>4, <1>5, <1>6 DEF Inv

-----------------------------------------------------------------------------
(* The loop over the rows. *)

\* Every row but the erased one stays.
LEMMA RemoveRowFacts ==
    ASSUME TypeOK, i <= Len(rows)
    PROVE  LET u == RemoveAt(rows, i) IN
           /\ u \in Seq(Object) /\ Len(u) = Len(rows) - 1
           /\ DOMAIN u = 1 .. Len(rows) - 1
           /\ \A n \in DOMAIN u : u[n] = IF n < i THEN rows[n] ELSE rows[n + 1]
           /\ Range(u) \subseteq RowSet
           /\ \A n \in DOMAIN rows : n # i => rows[n] \in Range(u)
           /\ UniqueKeys(rows) => UniqueKeys(u)
           /\ \A k : k # rows[i].Key /\ TwoRows(rows, k) => TwoRows(u, k)
<1>. DEFINE u == RemoveAt(rows, i)
            old(n) == IF n < i THEN n ELSE n + 1
<1>1. /\ i \in 1 .. Len(rows) /\ Len(rows) \in Nat
      /\ DOMAIN rows = 1 .. Len(rows) /\ rows \in Seq(Object)
  BY RowFacts DEF TypeOK
<1>2. /\ u \in Seq(Object) /\ Len(u) = Len(rows) - 1
      /\ DOMAIN u = 1 .. Len(rows) - 1
      /\ \A n \in DOMAIN u : u[n] = IF n < i THEN rows[n] ELSE rows[n + 1]
  BY <1>1, RemoveAtFacts
<1>. HIDE DEF u
<1>3. \A n \in DOMAIN u : old(n) \in DOMAIN rows /\ u[n] = rows[old(n)]
  BY <1>1, <1>2
<1>4. \A m, n \in DOMAIN u : old(m) = old(n) => m = n
  BY <1>1, <1>2
<1>5. ASSUME NEW n \in DOMAIN rows, n # i
      PROVE  \E m \in DOMAIN u : old(m) = n
  <2>1. CASE n < i
    BY <1>1, <1>2, <2>1
  <2>2. CASE n > i
    <3>1. n - 1 \in DOMAIN u /\ old(n - 1) = n
      BY <1>1, <1>2, <2>2
    <3>2. QED
      BY <3>1
  <2>3. QED
    BY <1>1, <1>5, <2>1, <2>2
<1>. HIDE DEF old
<1>6. Range(u) \subseteq RowSet
  BY <1>3 DEF Range, RowSet
<1>7. \A n \in DOMAIN rows : n # i => rows[n] \in Range(u)
  <2>1. ASSUME NEW n \in DOMAIN rows, n # i PROVE rows[n] \in Range(u)
    <3>1. PICK m \in DOMAIN u : old(m) = n
      BY <1>5, <2>1
    <3>2. u[m] = rows[n]
      BY <1>3, <3>1
    <3>3. QED
      BY <3>2 DEF Range
  <2>2. QED
    BY <2>1
<1>8. UniqueKeys(rows) => UniqueKeys(u)
  BY <1>3, <1>4 DEF UniqueKeys
<1>9. ASSUME NEW k, k # rows[i].Key, TwoRows(rows, k) PROVE TwoRows(u, k)
  <2>1. PICK m, n \in DOMAIN rows : m # n /\ rows[m].Key = k /\ rows[n].Key = k
    BY <1>9 DEF TwoRows
  <2>2. m # i /\ n # i
    BY <1>9, <2>1
  <2>3. PICK a \in DOMAIN u : old(a) = m
    BY <1>5, <2>2
  <2>4. PICK b \in DOMAIN u : old(b) = n
    BY <1>5, <2>2
  <2>5. a # b /\ u[a].Key = k /\ u[b].Key = k
    BY <1>3, <2>1, <2>3, <2>4
  <2>6. QED
    BY <2>5 DEF TwoRows
<1>10. QED
  BY <1>2, <1>6, <1>7, <1>8, <1>9 DEF u

\* The info a visit finds is that of the row's key, and is terminated only if
\* it was there before.
LEMMA VisitedInfo ==
    ASSUME Inv, i <= Len(rows)
    PROVE  /\ i \in DOMAIN rows /\ rows[i] \in Object /\ rows[i].Key \in Key
           /\ rows[i].Key \in Keys(RowSet)
           /\ GetInfo(info, rows[i]) \in Info
           /\ GetInfo(info, rows[i]).pi.Key = rows[i].Key
           /\ \/ info[rows[i].Key] = GetInfo(info, rows[i])
              \/ /\ GetInfo(info, rows[i]).pi = rows[i]
                 /\ ~GetInfo(info, rows[i]).isTerminated
<1>1. TypeOK /\ info \in [Key -> Info \cup {NoInfo}]
  BY DEF Inv, TypeOK
<1>2. i \in DOMAIN rows
  BY <1>1, RowFacts DEF TypeOK
<1>3. /\ rows[i] \in Object /\ rows[i].Key \in Key
      /\ rows[i].Key \in Keys(RowSet)
  BY <1>1, <1>2, RowFacts
<1>4. CASE info[rows[i].Key] = NoInfo
  BY <1>1, <1>2, <1>3, <1>4, GetInfoFacts
<1>5. CASE info[rows[i].Key] # NoInfo
  BY <1>1, <1>2, <1>3, <1>5, GetInfoFacts DEF Inv, RowInv, InfosHaveRows
<1>6. QED
  BY <1>4, <1>5

LEMMA InvRemoveRow ==
    ASSUME Inv, pc = "loop", i <= Len(rows), RemoveRow,
           Update(GetInfo(info, rows[i])),
           UNCHANGED <<systemVars, pmVars, userVars, clockVars, specs, pc,
                       failed>>
    PROVE  Inv'
<1>. USE DEF systemVars, pmVars, userVars, clockVars
<1>. DEFINE key == rows[i].Key
<1>1. /\ rows' = RemoveAt(rows, i)
      /\ info' = [info EXCEPT ![key] = NoInfo]
      /\ i' = i /\ indices' = indices
  BY DEF RemoveRow
<1>2. TypeOK /\ IndicesAreVisited
  BY DEF Inv
<1>3. /\ rows' \in Seq(Object) /\ Len(rows') = Len(rows) - 1
      /\ Range(rows') \subseteq RowSet
      /\ \A n \in DOMAIN rows : n # i => rows[n] \in Range(rows')
      /\ \A k : k # key /\ TwoRows(rows, k) => TwoRows(rows', k)
  BY <1>1, <1>2, RemoveRowFacts
<1>4. i \in DOMAIN rows /\ key \in Key /\ key \in Keys(RowSet)
  BY VisitedInfo
<1>5. info[key] # NoInfo /\ info[key].isTerminated
  BY VisitedInfo, NoInfoIsOther DEF Update
<1>6. /\ info' \in [Key -> Info \cup {NoInfo}]
      /\ info'[key] = NoInfo
      /\ \A k \in Key : k # key => info'[k] = info[k]
  BY <1>1, <1>2, <1>4 DEF TypeOK
<1>7. \A k \in Keys(RowSet) : k # key => k \in Keys(Range(rows'))
  <2>1. ASSUME NEW k \in Keys(RowSet), k # key PROVE k \in Keys(Range(rows'))
    <3>1. PICK n \in DOMAIN rows : rows[n].Key = k
      BY DEF Keys, RowSet, Range
    <3>2. rows[n] \in Range(rows')
      BY <1>3, <2>1, <3>1
    <3>3. QED
      BY <3>1, <3>2 DEF Keys
  <2>2. QED
    BY <2>1
<1>8. TypeOK'
  <2>1. /\ i \in 1 .. Len(rows') + 1
        /\ indices \in Seq(1 .. Len(rows'))
    <3>1. i \in 1 .. Len(rows) /\ Len(rows) \in Nat
      BY <1>2, RowFacts DEF TypeOK
    <3>2. \A n \in DOMAIN indices : indices[n] \in 1 .. Len(rows')
      <4>1. \A n \in DOMAIN indices : indices[n] \in 1 .. Len(rows)
        BY <1>2, ElementOfSeq, LenProperties DEF TypeOK
      <4>2. QED
        BY <1>2, <1>3, <3>1, <4>1 DEF IndicesAreVisited
    <3>3. indices \in [1 .. Len(indices) -> 1 .. Len(rows')]
            /\ Len(indices) \in Nat
      BY <1>2, <3>2, LenProperties DEF TypeOK
    <3>4. QED
      BY <1>3, <3>1, <3>3
  <2>2. QED
    BY <1>1, <1>2, <1>3, <1>6, <2>1 DEF TypeOK
<1>9. (IntervalIsSaved /\ Finite /\ IndicesAreVisited)'
  BY <1>1 DEF Inv, IntervalIsSaved, Finite, IndicesAreVisited
<1>10. InfosHaveRows'
  <2>1. RowSet' = Range(rows')
    BY DEF RowSet
  <2>2. ASSUME NEW k \in Key, info'[k] # NoInfo
        PROVE  info'[k].pi.Key = k /\ k \in Keys(RowSet')
    <3>1. k # key /\ info'[k] = info[k]
      BY <1>6, <2>2
    <3>2. info[k].pi.Key = k /\ k \in Keys(RowSet)
      BY <2>2, <3>1 DEF Inv, RowInv, InfosHaveRows
    <3>3. QED
      BY <1>7, <2>1, <3>1, <3>2
  <2>3. QED
    BY <2>2 DEF InfosHaveRows
<1>11. ListedHaveRows'
  <2>1. RowSet' = Range(rows') /\ Keys(pm') = Keys(pm)
    BY DEF RowSet, Keys
  <2>2. ASSUME key \in Keys(pm) PROVE key \in Keys(Range(rows'))
    <3>1. TwoRows(rows, key)
      BY <1>5, <2>2 DEF Inv, RowInv, MarkedHaveTwoRows
    <3>2. PICK n \in DOMAIN rows : n # i /\ rows[n].Key = key
      BY <3>1 DEF TwoRows
    <3>3. rows[n] \in Range(rows')
      BY <1>3, <3>2
    <3>4. QED
      BY <3>2, <3>3 DEF Keys
  <2>3. Keys(pm) \subseteq Keys(RowSet)
    BY DEF Inv, RowInv, ListedHaveRows
  <2>. HIDE DEF key
  <2>4. QED
    BY <1>7, <2>1, <2>2, <2>3 DEF ListedHaveRows
<1>12. MarkedHaveTwoRows'
  <2>1. Keys(pm') = Keys(pm) /\ Keys(pm) \subseteq Key
    BY <1>2, RowFacts DEF Keys
  <2>2. QED
    BY <1>3, <1>6, <2>1 DEF Inv, RowInv, MarkedHaveTwoRows
<1>13. QED
  BY <1>8, <1>9, <1>10, <1>11, <1>12 DEF Inv, RowInv

LEMMA InvKeepRow ==
    ASSUME Inv, pc = "loop", i <= Len(rows),
           KeepRow(Updated(GetInfo(info, rows[i]))),
           ~Update(GetInfo(info, rows[i])),
           UNCHANGED <<systemVars, pmVars, userVars, clockVars, specs, pc,
                       failed>>
    PROVE  Inv'
<1>. USE DEF systemVars, pmVars, userVars, clockVars
<1>. DEFINE key == rows[i].Key
            x == GetInfo(info, rows[i])
            y == Flagged(Updated(x), key)
<1>1. /\ info' = [info EXCEPT ![key] = y]
      /\ rows' = rows
      /\ i' = i + 1
      /\ indices' = IF key \in hidden THEN indices ELSE Append(indices, i)
  BY DEF KeepRow, Flagged
<1>2. TypeOK /\ IndicesAreVisited
  BY DEF Inv
<1>3. /\ i \in DOMAIN rows /\ rows[i] \in Object /\ key \in Key
      /\ key \in Keys(RowSet)
      /\ x \in Info /\ x.pi.Key = key
      /\ info[key] = x \/ ~x.isTerminated
  BY VisitedInfo
<1>. HIDE DEF x
<1>4. /\ y \in Info
      /\ y.pi.Key = key
      /\ y.isTerminated = x.isTerminated
  <2>1. /\ Updated(x) \in Info /\ Updated(x).pi = x.pi
        /\ Updated(x).isTerminated = x.isTerminated
    <3>1. ~Update(x)
      BY DEF x
    <3>2. QED
      BY <1>3, <3>1, InfoFacts, Zenon
  <2>2. /\ y \in Info /\ y.pi = Updated(x).pi
        /\ y.isTerminated = Updated(x).isTerminated
    BY <2>1, FlaggedFacts, Zenon
  <2>3. QED
    BY <1>3, <2>1, <2>2, Zenon
<1>. HIDE DEF y, key
<1>5. /\ info' \in [Key -> Info \cup {NoInfo}]
      /\ info'[key] = y
      /\ \A k \in Key : k # key => info'[k] = info[k]
  BY <1>1, <1>2, <1>3, <1>4 DEF TypeOK
<1>6. /\ i \in 1 .. Len(rows) /\ Len(rows) \in Nat
      /\ indices \in Seq(1 .. Len(rows))
  BY <1>2, <1>3, RowFacts DEF TypeOK
<1>7. TypeOK'
  <2>1. i' \in 1 .. Len(rows') + 1
    BY <1>1, <1>6
  <2>2. indices' \in Seq(1 .. Len(rows'))
    BY <1>1, <1>6, AppendProperties
  <2>3. QED
    BY <1>1, <1>2, <1>5, <2>1, <2>2 DEF TypeOK
<1>8. IndicesAreVisited'
  <2>1. CASE key \in hidden
    <3>1. \A n \in DOMAIN indices : indices[n] \in 1 .. Len(rows)
      BY <1>6, ElementOfSeq, LenProperties
    <3>2. QED
      BY <1>1, <1>2, <1>6, <2>1, <3>1 DEF IndicesAreVisited
  <2>2. CASE key \notin hidden
    <3>1. /\ DOMAIN indices' = 1 .. Len(indices) + 1
          /\ DOMAIN indices = 1 .. Len(indices) /\ Len(indices) \in Nat
          /\ \A n \in 1 .. Len(indices) : indices'[n] = indices[n]
          /\ indices'[Len(indices) + 1] = i
          /\ \A n \in 1 .. Len(indices) : indices[n] \in 1 .. Len(rows)
      BY <1>1, <1>6, <2>2, AppendProperties, LenProperties, ElementOfSeq
    <3>2. \A n \in 1 .. Len(indices) : indices[n] < i
      BY <1>2, <3>1 DEF IndicesAreVisited
    <3>3. ASSUME NEW n \in DOMAIN indices' PROVE indices'[n] < i'
      <4>1. CASE n \in 1 .. Len(indices)
        BY <1>1, <1>6, <3>1, <3>2, <4>1
      <4>2. CASE n = Len(indices) + 1
        BY <1>1, <1>6, <3>1, <4>2
      <4>3. QED
        BY <3>1, <4>1, <4>2
    <3>4. QED
      BY <3>3 DEF IndicesAreVisited
  <2>3. QED
    BY <2>1, <2>2
<1>9. (IntervalIsSaved /\ Finite)'
  BY DEF Inv, IntervalIsSaved, Finite
<1>10. RowSet' = RowSet /\ Keys(pm') = Keys(pm)
  BY <1>1 DEF RowSet, Keys
<1>11. InfosHaveRows'
  <2>1. ASSUME NEW k \in Key, info'[k] # NoInfo
        PROVE  info'[k].pi.Key = k /\ k \in Keys(RowSet)
    <3>1. CASE k = key
      BY <1>3, <1>4, <1>5, <3>1
    <3>2. CASE k # key
      BY <1>5, <2>1, <3>2 DEF Inv, RowInv, InfosHaveRows
    <3>3. QED
      BY <3>1, <3>2
  <2>2. QED
    BY <1>10, <2>1 DEF InfosHaveRows
<1>12. ListedHaveRows'
  BY <1>10 DEF Inv, RowInv, ListedHaveRows
<1>13. MarkedHaveTwoRows'
  <2>1. ASSUME NEW k \in Keys(pm), info'[k] # NoInfo, info'[k].isTerminated
        PROVE  TwoRows(rows, k)
    <3>1. k \in Key
      BY <1>2, RowFacts
    <3>2. info[k] # NoInfo /\ info[k].isTerminated
      <4>1. CASE k = key
        <5>1. x.isTerminated
          BY <1>4, <1>5, <2>1, <4>1, Zenon
        <5>2. info[k] = x
          BY <1>3, <4>1, <5>1, Zenon
        <5>3. QED
          BY <1>3, <5>1, <5>2, NoInfoIsOther
      <4>2. CASE k # key
        BY <1>5, <2>1, <3>1, <4>2
      <4>3. QED
        BY <4>1, <4>2
    <3>3. QED
      BY <3>2 DEF Inv, RowInv, MarkedHaveTwoRows
  <2>2. QED
    BY <1>1, <1>10, <2>1 DEF MarkedHaveTwoRows
<1>14. QED
  BY <1>7, <1>8, <1>9, <1>11, <1>12, <1>13 DEF Inv, RowInv

LEMMA InvVisitRow == ASSUME Inv, VisitRow PROVE Inv'
<1>1. CASE Update(GetInfo(info, rows[i]))
  BY <1>1, InvRemoveRow DEF VisitRow
<1>2. CASE ~Update(GetInfo(info, rows[i]))
  BY <1>2, InvKeepRow DEF VisitRow
<1>3. QED
  BY <1>1, <1>2

LEMMA InvNext == Inv /\ [Next]_vars => Inv'
<1>. SUFFICES ASSUME Inv, [Next]_vars PROVE Inv'
  OBVIOUS
<1>1. CASE System
  BY <1>1, InvSystem
<1>2. CASE Tick
  BY <1>2, InvTick
<1>3. CASE User
  BY <1>3, InvUser
<1>4. CASE \E ok \in BOOLEAN : Refresh(ok)
  BY <1>4, InvRefresh
<1>5. CASE NoRefresh
  BY <1>5, InvNoRefresh
<1>6. CASE VisitRow
  BY <1>6, InvVisitRow
<1>7. CASE \E dirty \in BOOLEAN : EndLoop(dirty)
  BY <1>7, InvEndLoop
<1>8. CASE EndFrame
  BY <1>8, InvEndFrame
<1>9. CASE UNCHANGED vars
  <2>1. TypeOK'
    BY <1>9 DEF vars, systemVars, pmVars, viewVars, userVars, clockVars, Inv,
                TypeOK
  <2>2. (IntervalIsSaved /\ Finite /\ IndicesAreVisited)'
    BY <1>9 DEF vars, systemVars, pmVars, viewVars, userVars, clockVars, Inv,
                IntervalIsSaved, Finite, IndicesAreVisited
  <2>3. RowInv'
    BY <1>9, RowInvKept DEF vars, pmVars, viewVars, Inv
  <2>4. QED
    BY <2>1, <2>2, <2>3 DEF Inv
<1>10. QED
  BY <1>1, <1>2, <1>3, <1>4, <1>5, <1>6, <1>7, <1>8, <1>9 DEF Next, Frame

LEMMA Invariant == Spec => []Inv
BY InvInit, InvNext, PTL DEF Spec

\* Every variable of the view has its type; the interval is never the value
\* that _oldInterval has before the first pause.
THEOREM TypeCorrect == Spec => []TypeOK
<1>1. Inv => TypeOK
  BY DEF Inv
<1>2. QED
  BY <1>1, Invariant, PTL

\* The loop of BuildTable never erases the last row of a process the manager
\* lists, however many snapshots failed: while the mark of an older object can
\* still remove a row, the key has two of them.
THEOREM KnownAlwaysHaveRows == Spec => []KnownHaveRows
<1>1. Inv => KnownHaveRows
  BY RowFacts DEF Inv, RowInv, ListedHaveRows, KnownHaveRows, Keys
<1>2. QED
  BY <1>1, Invariant, PTL

-----------------------------------------------------------------------------
(* The invariant if no snapshot fails. *)

\* A row whose object is not listed is of an exited process, and is marked.
UnlistedAreMarked ==
    \A o \in RowSet \ pm : /\ o.Key \notin alive
                           /\ info[o.Key] # NoInfo /\ info[o.Key].isTerminated

OneObject ==
    /\ \A o, q \in pm : o.Key = q.Key => o = q
    /\ Keys(RowSet) \cup Keys(pm) \subseteq started

InfosAreOfRows == \A k \in Key : info[k] # NoInfo => info[k].pi \in RowSet

\* The rows visited so far have the flag that the filter gives them.
Visited == IF pc = "loop" THEN {n \in DOMAIN rows : n < i} ELSE DOMAIN rows

FlagsAreSet ==
    pc # "input" =>
        \A n \in Visited : /\ info[rows[n].Key] # NoInfo
                           /\ info[rows[n].Key].filtered
                                  = (rows[n].Key \in hidden)

\* The indices are those of the visited rows that the filter lets through.
IndicesOfShown ==
    pc \in {"loop", "draw"} =>
        Range(indices) = {n \in Visited : rows[n].Key \notin hidden}

AgreeInv == /\ failed = 0 /\ UniqueKeys(rows)
            /\ UnlistedAreMarked /\ OneObject /\ InfosAreOfRows

DrawInv == FlagsAreSet /\ IndicesOfShown

NoFailureInv == Inv /\ AgreeInv /\ DrawInv

\* A listed process has its own object in its row, without the mark.
LEMMA ListedAreRows ==
    ASSUME Inv, AgreeInv
    PROVE  /\ pm \subseteq RowSet
           /\ \A k \in Keys(pm) :
                  ~(info[k] # NoInfo /\ info[k].isTerminated)
<1>1. ASSUME NEW k \in Keys(pm), info[k] # NoInfo, info[k].isTerminated
      PROVE  FALSE
  BY <1>1 DEF Inv, RowInv, MarkedHaveTwoRows, AgreeInv, UniqueKeys, TwoRows
<1>2. ASSUME NEW o \in pm PROVE o \in RowSet
  <2>1. PICK q \in RowSet : q.Key = o.Key
    BY DEF Inv, RowInv, ListedHaveRows, Keys
  <2>2. q \in pm
    BY <1>1, <2>1 DEF AgreeInv, UnlistedAreMarked, Keys
  <2>3. QED
    BY <2>1, <2>2 DEF AgreeInv, OneObject
<1>3. QED
  BY <1>1, <1>2

LEMMA AgreeInit == Init => AgreeInv /\ DrawInv
<1>. SUFFICES ASSUME Init PROVE AgreeInv /\ DrawInv
  OBVIOUS
<1>1. RowSet = {} /\ Keys(RowSet) = {} /\ Keys(pm) = {} /\ DOMAIN rows = {}
  BY DEF Init, RowSet, Range, Keys
<1>2. QED
  BY <1>1 DEF Init, AgreeInv, UniqueKeys, UnlistedAreMarked, OneObject,
              InfosAreOfRows, DrawInv, FlagsAreSet, IndicesOfShown

\* Processes start with new keys, and an exit makes no row a living one.
LEMMA AgreeSystem ==
    ASSUME NoFailureInv, System
    PROVE  AgreeInv' /\ DrawInv'
<1>. USE DEF pmVars, viewVars, userVars, clockVars
<1>1. /\ UNCHANGED <<pmVars, viewVars, userVars, age, specs, pc, i, indices,
                     failed>>
      /\ started \subseteq started'
      /\ alive' \ alive \subseteq started' \ started
  BY DEF System, StartProcess, ExitProcess, Wrap, systemVars
<1>2. RowSet' = RowSet /\ Keys(RowSet') = Keys(RowSet) /\ Keys(pm') = Keys(pm)
        /\ Visited' = Visited
  BY <1>1 DEF RowSet, Keys, Visited
<1>3. \A o \in RowSet : o.Key \in started
  BY DEF NoFailureInv, AgreeInv, OneObject, Keys
<1>4. UnlistedAreMarked'
  BY <1>1, <1>2, <1>3 DEF NoFailureInv, AgreeInv, UnlistedAreMarked
<1>5. (failed = 0 /\ UniqueKeys(rows) /\ OneObject /\ InfosAreOfRows)'
  BY <1>1, <1>2
     DEF NoFailureInv, AgreeInv, UniqueKeys, OneObject, InfosAreOfRows
<1>6. DrawInv'
  BY <1>1, <1>2 DEF NoFailureInv, DrawInv, FlagsAreSet, IndicesOfShown
<1>7. QED
  BY <1>4, <1>5, <1>6 DEF AgreeInv

LEMMA AgreeTick ==
    ASSUME NoFailureInv, Tick
    PROVE  AgreeInv' /\ DrawInv'
<1>. USE DEF systemVars, pmVars, userVars
<1>1. /\ UNCHANGED <<systemVars, pmVars, rows, userVars, wrapped, specs, pc, i,
                     indices, failed>>
      /\ info' = [k \in Key |-> Passed(info[k])]
  BY DEF Tick
<1>2. \A k \in Key : /\ info'[k] = NoInfo <=> info[k] = NoInfo
                     /\ info[k] # NoInfo =>
                            /\ info'[k].pi = info[k].pi
                            /\ info'[k].filtered = info[k].filtered
                            /\ info'[k].isTerminated = info[k].isTerminated
  <2>1. SUFFICES ASSUME NEW k \in Key
                 PROVE  /\ Passed(info[k]) = NoInfo <=> info[k] = NoInfo
                        /\ info[k] # NoInfo =>
                              /\ Passed(info[k]).pi = info[k].pi
                              /\ Passed(info[k]).filtered = info[k].filtered
                              /\ Passed(info[k]).isTerminated
                                     = info[k].isTerminated
    BY <1>1
  <2>2. CASE info[k] = NoInfo
    BY <2>2 DEF Passed
  <2>3. CASE info[k] \in Info
    <3>1. Passed(info[k]) # NoInfo /\ info[k] # NoInfo
      BY <2>3, InfoFacts, NoInfoIsOther, Zenon
    <3>2. QED
      BY <2>3, <3>1, InfoFacts, Zenon
  <2>4. QED
    BY <2>2, <2>3 DEF NoFailureInv, Inv, TypeOK
<1>3. /\ RowSet' = RowSet /\ Keys(RowSet') = Keys(RowSet)
      /\ Keys(pm') = Keys(pm) /\ Visited' = Visited
  BY <1>1 DEF RowSet, Keys, Visited
<1>4. (\A n \in DOMAIN rows : rows[n].Key \in Key)
        /\ (\A o \in RowSet : o.Key \in Key)
  BY RowFacts DEF NoFailureInv, Inv, Object
<1>5. UnlistedAreMarked'
  BY <1>1, <1>2, <1>3, <1>4 DEF NoFailureInv, AgreeInv, UnlistedAreMarked
<1>6. (failed = 0 /\ UniqueKeys(rows) /\ OneObject)'
  BY <1>1, <1>3 DEF NoFailureInv, AgreeInv, UniqueKeys, OneObject
<1>7. InfosAreOfRows'
  BY <1>2, <1>3 DEF NoFailureInv, AgreeInv, InfosAreOfRows
<1>8. FlagsAreSet'
  <2>1. Visited \subseteq DOMAIN rows
    BY DEF Visited
  <2>2. QED
    BY <1>1, <1>2, <1>3, <1>4, <2>1 DEF NoFailureInv, DrawInv, FlagsAreSet
<1>9. IndicesOfShown'
  BY <1>1, <1>3 DEF NoFailureInv, DrawInv, IndicesOfShown
<1>10. QED
  BY <1>5, <1>6, <1>7, <1>8, <1>9 DEF AgreeInv, DrawInv

\* The user changes the filter only before the loop.
LEMMA AgreeUser ==
    ASSUME NoFailureInv, User
    PROVE  AgreeInv' /\ DrawInv'
<1>. USE DEF systemVars, pmVars, viewVars, clockVars
<1>1. /\ pc = "input" /\ pc' = "input"
      /\ UNCHANGED <<systemVars, pmVars, viewVars, clockVars, specs, i,
                     indices, failed>>
  BY DEF User, ChooseInterval, TogglePause, SetFilter
<1>2. RowSet' = RowSet /\ Keys(RowSet') = Keys(RowSet) /\ Keys(pm') = Keys(pm)
  BY <1>1 DEF RowSet, Keys
<1>3. AgreeInv'
  BY <1>1, <1>2 DEF NoFailureInv, AgreeInv, UniqueKeys, UnlistedAreMarked,
                    OneObject, InfosAreOfRows
<1>4. DrawInv'
  BY <1>1 DEF DrawInv, FlagsAreSet, IndicesOfShown
<1>5. QED
  BY <1>3, <1>4

LEMMA AgreeRefresh ==
    ASSUME NoFailureInv, MaxFailed = 0, NEW ok \in BOOLEAN, Refresh(ok)
    PROVE  AgreeInv' /\ DrawInv'
<1>. DEFINE N == NewObjects(alive)
            G == Gone(alive)
            K == Kept(alive)
<1>1. ok
  BY DEF Refresh, NoFailureInv, AgreeInv
<1>2. Snapshot(ok) = alive /\ failed' = failed
  BY <1>1 DEF Snapshot, Refresh
<1>3. Inv /\ TypeOK /\ Finite /\ AgreeInv
  BY DEF NoFailureInv, Inv
<1>4. /\ IsFiniteSet(alive)
      /\ pm' = K \cup N
      /\ rows' \in Seq(Object)
      /\ Range(rows') = RowSet \cup N
      /\ UniqueKeys(rows) /\ Keys(RowSet) \cap Keys(N) = {}
            => UniqueKeys(rows')
      /\ \A k \in Key :
            \/ info'[k] = NoInfo
            \/ k \notin Keys(N) \cup Keys(G) /\ info'[k] = info[k]
            \/ \E o \in N : o.Key = k /\ info'[k] = New(GetInfo(info, o))
            \/ \E o \in G : o.Key = k /\ info'[k] = Term(GetInfo(info, o))
      /\ \A k \in Keys(G) : info'[k] # NoInfo
      /\ \A k \in Key \ (Keys(N) \cup Keys(G)) : info'[k] = info[k]
  BY <1>2, <1>3, RefreshFacts
<1>5. /\ N \subseteq Object
      /\ \A o, q \in N : o.Key = q.Key => o = q
      /\ Keys(N) = alive \ Keys(pm)
      /\ K \subseteq pm /\ Keys(K) \subseteq alive
      /\ G = {o \in pm : o.Key \notin alive}
      /\ pm = K \cup G
  <2>1. alive \subseteq Key
    BY <1>3 DEF TypeOK
  <2>2. pm = K \cup G
    BY DEF Kept, Gone
  <2>3. QED
    BY <1>3, <1>4, <2>1, <2>2, EnumFacts
<1>. HIDE DEF N, G, K
<1>6. pm \subseteq RowSet
  BY <1>3, ListedAreRows
<1>7. /\ \A o, q \in pm : o.Key = q.Key => o = q
      /\ Keys(RowSet) \cup Keys(pm) \subseteq started
      /\ \A o \in RowSet \ pm :
            /\ o.Key \notin alive
            /\ info[o.Key] # NoInfo /\ info[o.Key].isTerminated
      /\ \A k \in Key : info[k] # NoInfo => info[k].pi \in RowSet
  BY <1>3 DEF AgreeInv, OneObject, UnlistedAreMarked, InfosAreOfRows
<1>8. Keys(RowSet) \cap Keys(N) = {}
  <2>1. ASSUME NEW o \in RowSet, o.Key \in Keys(N) PROVE FALSE
    <3>1. o.Key \in alive /\ o.Key \notin Keys(pm)
      BY <1>5, <2>1
    <3>2. o \notin pm
      BY <3>1 DEF Keys
    <3>3. QED
      BY <1>7, <3>1, <3>2
  <2>2. QED
    BY <2>1 DEF Keys
<1>9. UniqueKeys(rows')
  BY <1>3, <1>4, <1>8 DEF AgreeInv
<1>10. RowSet' = RowSet \cup N /\ alive' = alive /\ started' = started
  BY <1>4 DEF RowSet, Refresh, systemVars
<1>11. ASSUME NEW o \in N \cup G
       PROVE  /\ o \in Object /\ o.Key \in Key
              /\ GetInfo(info, o) \in Info
              /\ GetInfo(info, o).pi \in RowSet \cup N
  <2>1. o \in Object /\ o.Key \in Key
    BY <1>3, <1>5 DEF TypeOK, Object
  <2>2. o \in RowSet \cup N
    BY <1>5, <1>6
  <2>3. CASE info[o.Key] = NoInfo
    BY <1>3, <2>1, <2>2, <2>3, GetInfoFacts DEF TypeOK
  <2>4. CASE info[o.Key] # NoInfo
    BY <1>3, <1>7, <2>1, <2>4, GetInfoFacts DEF TypeOK
  <2>5. QED
    BY <2>1, <2>3, <2>4
<1>12. InfosAreOfRows'
  <2>1. ASSUME NEW k \in Key, info'[k] # NoInfo
        PROVE  info'[k].pi \in RowSet \cup N
    <3>1. CASE info'[k] = info[k]
      BY <1>7, <2>1, <3>1
    <3>2. CASE \E o \in N : o.Key = k /\ info'[k] = New(GetInfo(info, o))
      <4>1. PICK o \in N : info'[k] = New(GetInfo(info, o))
        BY <3>2
      <4>2. info'[k].pi = GetInfo(info, o).pi
        BY <1>11, <4>1, InfoFacts, Zenon
      <4>3. QED
        BY <1>11, <4>2
    <3>3. CASE \E o \in G : o.Key = k /\ info'[k] = Term(GetInfo(info, o))
      <4>1. PICK o \in G : info'[k] = Term(GetInfo(info, o))
        BY <3>3
      <4>2. info'[k].pi = GetInfo(info, o).pi
        BY <1>11, <4>1, InfoFacts, Zenon
      <4>3. QED
        BY <1>11, <4>2
    <3>4. QED
      BY <1>4, <2>1, <3>1, <3>2, <3>3
  <2>2. QED
    BY <1>10, <2>1 DEF InfosAreOfRows
<1>13. UnlistedAreMarked'
  <2>1. ASSUME NEW o \in RowSet \cup N, o \notin pm'
        PROVE  /\ o.Key \notin alive
               /\ info'[o.Key] # NoInfo /\ info'[o.Key].isTerminated
    <3>1. o \in RowSet /\ o \notin N /\ o \notin K /\ o.Key \in Key
      BY <1>3, <1>4, <2>1, RowFacts DEF Object
    <3>2. CASE o \in pm
      <4>1. o \in G /\ o.Key \notin alive /\ o.Key \in Keys(G)
        BY <1>5, <3>1, <3>2 DEF Keys
      <4>2. o.Key \notin Keys(N) /\ info'[o.Key] # NoInfo
        BY <1>4, <1>5, <4>1
      <4>3. PICK q \in G : info'[o.Key] = Term(GetInfo(info, q))
        <5>1. \A q \in N : q.Key # o.Key
          BY <4>2 DEF Keys
        <5>2. QED
          BY <1>4, <3>1, <4>1, <4>2, <5>1
      <4>4. info'[o.Key].isTerminated = TRUE
        <5>1. GetInfo(info, q) \in Info
          BY <1>11
        <5>2. Term(GetInfo(info, q)).isTerminated = TRUE
          BY <5>1, InfoFacts
        <5>3. QED
          BY <4>3, <5>2
      <4>5. QED
        BY <4>1, <4>2, <4>4
    <3>3. CASE o \notin pm
      <4>1. /\ o.Key \notin alive
            /\ info[o.Key] # NoInfo /\ info[o.Key].isTerminated
        BY <1>7, <3>1, <3>3
      <4>2. o.Key \notin Keys(N)
        BY <1>5, <4>1
      <4>3. o.Key \notin Keys(G)
        <5>1. ASSUME NEW q \in G, q.Key = o.Key PROVE FALSE
          <6>1. q \in RowSet
            BY <1>5, <1>6
          <6>2. q = o
            BY <1>3, <3>1, <5>1, <6>1
               DEF AgreeInv, UniqueKeys, RowSet, Range
          <6>3. QED
            BY <1>5, <3>3, <6>2
        <5>2. QED
          BY <5>1 DEF Keys
      <4>4. info'[o.Key] = info[o.Key]
        BY <1>4, <3>1, <4>2, <4>3
      <4>5. QED
        BY <4>1, <4>4
    <3>4. QED
      BY <3>2, <3>3
  <2>2. QED
    BY <1>10, <2>1 DEF UnlistedAreMarked
<1>14. OneObject'
  <2>1. \A o, q \in pm' : o.Key = q.Key => o = q
    <3>1. \A o \in K, q \in N : o.Key # q.Key
      BY <1>5 DEF Keys
    <3>2. QED
      BY <1>4, <1>5, <1>7, <3>1
  <2>2. Keys(N) \cup Keys(K) \subseteq started
    BY <1>3, <1>5 DEF TypeOK
  <2>3. Keys(RowSet') \cup Keys(pm') \subseteq started
    BY <1>4, <1>7, <1>10, <2>2 DEF Keys
  <2>4. QED
    BY <1>10, <2>1, <2>3 DEF OneObject
<1>15. DrawInv'
  <2>1. pc' = "loop" /\ i' = 1 /\ indices' = <<>>
    BY DEF Refresh
  <2>2. DOMAIN rows' = 1 .. Len(rows')
    BY <1>4, LenProperties
  <2>3. Visited' = {}
    BY <2>1, <2>2 DEF Visited
  <2>4. Range(indices') = {}
    BY <2>1 DEF Range
  <2>5. QED
    BY <2>3, <2>4 DEF DrawInv, FlagsAreSet, IndicesOfShown
<1>16. failed' = 0
  BY <1>2, <1>3 DEF AgreeInv
<1>17. QED
  BY <1>9, <1>12, <1>13, <1>14, <1>15, <1>16 DEF AgreeInv

\* What leaves rows, infos and the manager alone keeps them in agreement.
LEMMA AgreeKept ==
    ASSUME AgreeInv, UNCHANGED <<systemVars, pmVars, viewVars, failed>>
    PROVE  AgreeInv'
<1>1. RowSet' = RowSet /\ Keys(RowSet') = Keys(RowSet) /\ Keys(pm') = Keys(pm)
  BY DEF RowSet, Keys, viewVars, pmVars
<1>2. QED
  BY <1>1 DEF AgreeInv, UniqueKeys, UnlistedAreMarked, OneObject,
              InfosAreOfRows, systemVars, pmVars, viewVars

LEMMA AgreeNoRefresh ==
    ASSUME NoFailureInv, NoRefresh
    PROVE  AgreeInv' /\ DrawInv'
<1>1. AgreeInv'
  BY AgreeKept DEF NoFailureInv, NoRefresh
<1>2. pc' = "loop" /\ i' = 1 /\ indices' = <<>> /\ rows' = rows
  BY DEF NoRefresh, viewVars
<1>3. DOMAIN rows = 1 .. Len(rows)
  BY RowFacts DEF NoFailureInv, Inv
<1>4. Visited' = {} /\ Range(indices') = {}
  BY <1>2, <1>3 DEF Visited, Range
<1>5. QED
  BY <1>1, <1>4 DEF DrawInv, FlagsAreSet, IndicesOfShown

LEMMA AgreeEndFrame ==
    ASSUME NoFailureInv, EndFrame
    PROVE  AgreeInv' /\ DrawInv'
<1>1. AgreeInv'
  BY AgreeKept DEF NoFailureInv, EndFrame
<1>2. pc' = "input"
  BY DEF EndFrame
<1>3. QED
  BY <1>1, <1>2 DEF DrawInv, FlagsAreSet, IndicesOfShown

LEMMA AgreeEndLoop ==
    ASSUME NoFailureInv, NEW dirty \in BOOLEAN, EndLoop(dirty)
    PROVE  AgreeInv' /\ DrawInv'
<1>1. /\ pc = "loop" /\ i > Len(rows)
      /\ rows' \in MayBeSorted(rows, dirty)
      /\ pc' = IF dirty THEN "drawSorted" ELSE "draw"
      /\ UNCHANGED <<alive, started, pm, info, hidden, i, indices, failed>>
  BY DEF EndLoop, systemVars, pmVars, userVars
<1>2. rows \in Seq(Object) /\ AgreeInv /\ DrawInv /\ TypeOK
  BY DEF NoFailureInv, Inv, TypeOK
<1>3. /\ rows' \in Seq(Object)
      /\ RowSet' = RowSet
      /\ UniqueKeys(rows) => UniqueKeys(rows')
  BY <1>1, <1>2, SortedFacts DEF RowSet
<1>4. Keys(RowSet') = Keys(RowSet) /\ Keys(pm') = Keys(pm)
  BY <1>1, <1>3 DEF Keys
<1>5. AgreeInv'
  BY <1>1, <1>2, <1>3, <1>4
     DEF AgreeInv, UnlistedAreMarked, OneObject, InfosAreOfRows
<1>6. /\ DOMAIN rows = 1 .. Len(rows) /\ Len(rows) \in Nat /\ i \in Nat
      /\ Visited = DOMAIN rows
  <2>1. /\ DOMAIN rows = 1 .. Len(rows) /\ Len(rows) \in Nat
        /\ i \in 1 .. Len(rows) + 1
    BY <1>2, RowFacts DEF TypeOK
  <2>2. \A n \in DOMAIN rows : n < i
    BY <1>1, <2>1
  <2>3. Visited = DOMAIN rows
    BY <1>1, <2>2 DEF Visited
  <2>4. QED
    BY <2>1, <2>3
<1>7. Visited' = DOMAIN rows'
  BY <1>1 DEF Visited
<1>8. \A o \in RowSet : /\ info[o.Key] # NoInfo
                        /\ info[o.Key].filtered = (o.Key \in hidden)
  BY <1>1, <1>2, <1>6 DEF DrawInv, FlagsAreSet, RowSet, Range
<1>9. FlagsAreSet'
  <2>1. \A n \in DOMAIN rows' : rows'[n] \in RowSet
    BY <1>3 DEF RowSet, Range
  <2>2. QED
    BY <1>1, <1>7, <1>8, <2>1 DEF FlagsAreSet
<1>10. IndicesOfShown'
  <2>1. CASE dirty
    BY <1>1, <2>1 DEF IndicesOfShown
  <2>2. CASE ~dirty
    <3>1. rows' = rows
      BY <1>1, <2>2 DEF MayBeSorted
    <3>2. QED
      BY <1>1, <1>2, <1>6, <1>7, <3>1 DEF DrawInv, IndicesOfShown
  <2>3. QED
    BY <2>1, <2>2
<1>11. QED
  BY <1>5, <1>9, <1>10 DEF DrawInv

LEMMA AgreeRemoveRow ==
    ASSUME NoFailureInv, pc = "loop", i <= Len(rows), RemoveRow,
           Update(GetInfo(info, rows[i])),
           UNCHANGED <<systemVars, pmVars, userVars, clockVars, specs, pc,
                       failed>>
    PROVE  AgreeInv' /\ DrawInv' /\ rows[i].Key \notin alive
<1>. USE DEF systemVars, pmVars, userVars
<1>. DEFINE key == rows[i].Key
<1>1. /\ rows' = RemoveAt(rows, i)
      /\ info' = [info EXCEPT ![key] = NoInfo]
      /\ i' = i /\ indices' = indices
  BY DEF RemoveRow
<1>2. Inv /\ TypeOK /\ AgreeInv /\ DrawInv /\ IndicesAreVisited
  BY DEF NoFailureInv, Inv
<1>3. /\ rows' \in Seq(Object) /\ Len(rows') = Len(rows) - 1
      /\ DOMAIN rows' = 1 .. Len(rows) - 1
      /\ \A n \in DOMAIN rows' :
            rows'[n] = IF n < i THEN rows[n] ELSE rows[n + 1]
      /\ Range(rows') \subseteq RowSet
      /\ \A n \in DOMAIN rows : n # i => rows[n] \in Range(rows')
      /\ UniqueKeys(rows')
  BY <1>1, <1>2, RemoveRowFacts DEF AgreeInv
<1>4. /\ i \in DOMAIN rows /\ key \in Key
      /\ DOMAIN rows = 1 .. Len(rows) /\ Len(rows) \in Nat /\ i \in Nat
  BY <1>2, VisitedInfo, RowFacts DEF TypeOK
<1>5. info[key] # NoInfo /\ info[key].isTerminated
  BY <1>2, VisitedInfo, NoInfoIsOther DEF Update
<1>6. key \notin Keys(pm) /\ key \notin alive
  <2>1. key \notin Keys(pm)
    BY <1>2, <1>5, ListedAreRows
  <2>2. rows[i] \in RowSet /\ rows[i] \notin pm
    BY <1>2, <1>4, <2>1, RowFacts DEF Keys
  <2>3. QED
    BY <1>2, <2>1, <2>2 DEF AgreeInv, UnlistedAreMarked
<1>7. /\ \A k \in Key : k # key => info'[k] = info[k]
      /\ info'[key] = NoInfo
  BY <1>1, <1>2, <1>4 DEF TypeOK
<1>8. /\ RowSet' = Range(rows')
      /\ \A n \in DOMAIN rows : n # i => rows[n].Key # key
      /\ \A o \in RowSet' : o \in RowSet /\ o.Key # key /\ o.Key \in Key
      /\ \A o \in RowSet : o.Key # key => o \in RowSet'
  <2>1. RowSet' = Range(rows')
    BY DEF RowSet
  <2>2. \A n \in DOMAIN rows : n # i => rows[n].Key # key
    BY <1>2, <1>4 DEF AgreeInv, UniqueKeys
  <2>3. ASSUME NEW n \in DOMAIN rows'
        PROVE  \E m \in DOMAIN rows : m # i /\ rows'[n] = rows[m]
    <3>1. CASE n < i
      BY <1>3, <1>4, <3>1
    <3>2. CASE ~(n < i)
      <4>1. n + 1 \in DOMAIN rows /\ n + 1 # i /\ rows'[n] = rows[n + 1]
        BY <1>3, <1>4, <3>2
      <4>2. QED
        BY <4>1
    <3>3. QED
      BY <3>1, <3>2
  <2>4. \A o \in RowSet' : o \in RowSet /\ o.Key # key /\ o.Key \in Key
    BY <1>2, <2>1, <2>2, <2>3, RowFacts DEF Range
  <2>5. \A o \in RowSet : o.Key # key => o \in RowSet'
    BY <1>3, <2>1 DEF RowSet, Range
  <2>6. QED
    BY <2>1, <2>2, <2>4, <2>5
<1>. HIDE DEF key
<1>9. UnlistedAreMarked'
  BY <1>2, <1>7, <1>8 DEF AgreeInv, UnlistedAreMarked
<1>10. OneObject'
  <2>1. Keys(RowSet') \subseteq Keys(RowSet) /\ Keys(pm') = Keys(pm)
    BY <1>8 DEF Keys
  <2>2. QED
    BY <1>2, <2>1 DEF AgreeInv, OneObject
<1>11. InfosAreOfRows'
  <2>1. ASSUME NEW k \in Key, info'[k] # NoInfo PROVE info'[k].pi \in RowSet'
    <3>1. k # key /\ info'[k] = info[k] /\ info[k] # NoInfo
      BY <1>7, <2>1
    <3>2. info[k].pi \in RowSet /\ info[k].pi.Key = k
      BY <1>2, <3>1 DEF AgreeInv, InfosAreOfRows, Inv, RowInv, InfosHaveRows
    <3>3. QED
      BY <1>8, <3>1, <3>2
  <2>2. QED
    BY <2>1 DEF InfosAreOfRows
<1>12. /\ Visited' = Visited
       /\ \A n \in Visited : /\ n \in DOMAIN rows /\ rows'[n] = rows[n]
                             /\ rows[n].Key # key /\ rows[n].Key \in Key
  <2>1. Visited = {n \in DOMAIN rows : n < i}
    BY DEF Visited
  <2>2. Visited' = {n \in DOMAIN rows' : n < i}
    BY <1>1 DEF Visited
  <2>3. \A n : n \in DOMAIN rows /\ n < i <=> n \in DOMAIN rows' /\ n < i
    BY <1>3, <1>4
  <2>4. \A n \in Visited : rows'[n] = rows[n] /\ rows[n].Key # key
    BY <1>3, <1>4, <1>8, <2>1, <2>3
  <2>5. \A n \in DOMAIN rows : rows[n].Key \in Key
    BY <1>2, RowFacts
  <2>6. QED
    BY <2>1, <2>2, <2>3, <2>4, <2>5
<1>13. DrawInv'
  <2>1. /\ \A n \in Visited : /\ info[rows[n].Key] # NoInfo
                              /\ info[rows[n].Key].filtered
                                     = (rows[n].Key \in hidden)
        /\ Range(indices) = {n \in Visited : rows[n].Key \notin hidden}
    BY <1>2 DEF DrawInv, FlagsAreSet, IndicesOfShown
  <2>2. FlagsAreSet'
    BY <1>7, <1>12, <2>1 DEF FlagsAreSet
  <2>3. Range(indices') = {n \in Visited' : rows'[n].Key \notin hidden'}
    BY <1>1, <1>12, <2>1
  <2>4. QED
    BY <2>2, <2>3 DEF DrawInv, IndicesOfShown
<1>14. QED
  BY <1>2, <1>3, <1>6, <1>9, <1>10, <1>11, <1>13 DEF AgreeInv, key

LEMMA AgreeKeepRow ==
    ASSUME NoFailureInv, pc = "loop", i <= Len(rows),
           KeepRow(Updated(GetInfo(info, rows[i]))),
           ~Update(GetInfo(info, rows[i])),
           UNCHANGED <<systemVars, pmVars, userVars, clockVars, specs, pc,
                       failed>>
    PROVE  AgreeInv' /\ DrawInv'
<1>. USE DEF systemVars, pmVars, userVars
<1>. DEFINE key == rows[i].Key
            x == GetInfo(info, rows[i])
            y == Flagged(Updated(x), key)
<1>1. /\ info' = [info EXCEPT ![key] = y]
      /\ rows' = rows
      /\ i' = i + 1
      /\ indices' = IF key \in hidden THEN indices ELSE Append(indices, i)
  BY DEF KeepRow, Flagged
<1>2. Inv /\ TypeOK /\ AgreeInv /\ DrawInv
  BY DEF NoFailureInv, Inv
<1>3. /\ i \in DOMAIN rows /\ rows[i] \in Object /\ key \in Key
      /\ x \in Info
      /\ \/ info[key] = x
         \/ x.pi = rows[i] /\ ~x.isTerminated
      /\ ~Update(x)
  BY <1>2, VisitedInfo
<1>4. /\ DOMAIN rows = 1 .. Len(rows) /\ Len(rows) \in Nat /\ i \in Nat
      /\ rows[i] \in RowSet
      /\ \A n \in DOMAIN rows : rows[n].Key \in Key
      /\ \A o \in RowSet : o.Key \in Key
  BY <1>2, <1>3, RowFacts DEF TypeOK, Object
<1>. HIDE DEF x
<1>5. /\ y \in Info
      /\ y.pi = x.pi
      /\ y.isTerminated = x.isTerminated
      /\ y.filtered = (key \in hidden)
  <2>1. /\ Updated(x) \in Info /\ Updated(x).pi = x.pi
        /\ Updated(x).isTerminated = x.isTerminated
    BY <1>3, InfoFacts, Zenon
  <2>2. /\ y \in Info /\ y.pi = Updated(x).pi
        /\ y.isTerminated = Updated(x).isTerminated
        /\ y.filtered = (key \in hidden)
    BY <2>1, FlaggedFacts, Zenon
  <2>3. QED
    BY <2>1, <2>2, Zenon
<1>. HIDE DEF y, key
<1>6. /\ info'[key] = y /\ y # NoInfo
      /\ \A k \in Key : k # key => info'[k] = info[k]
  BY <1>1, <1>2, <1>3, <1>5, NoInfoIsOther DEF TypeOK
<1>7. /\ RowSet' = RowSet
      /\ Keys(RowSet') = Keys(RowSet) /\ Keys(pm') = Keys(pm)
  BY <1>1 DEF RowSet, Keys
<1>8. UnlistedAreMarked'
  <2>1. ASSUME NEW o \in RowSet \ pm
        PROVE  /\ o.Key \notin alive
               /\ info'[o.Key] # NoInfo /\ info'[o.Key].isTerminated
    <3>1. /\ o.Key \notin alive
          /\ info[o.Key] # NoInfo /\ info[o.Key].isTerminated
      BY <1>2 DEF AgreeInv, UnlistedAreMarked
    <3>2. CASE o.Key = key
      <4>1. info[key] = x
        <5>1. CASE info[key] = x
          BY <5>1
        <5>2. CASE x.pi = rows[i] /\ ~x.isTerminated
          <6>1. info[key] # NoInfo => x = info[key]
            <7>1. info \in [Key -> Info \cup {NoInfo}]
              BY <1>2 DEF TypeOK
            <7>2. QED
              BY <1>3, <7>1, GetInfoFacts DEF x, key
          <6>2. QED
            BY <3>1, <3>2, <6>1
        <5>3. QED
          BY <1>3, <5>1, <5>2
      <4>2. QED
        BY <1>5, <1>6, <3>1, <3>2, <4>1
    <3>3. CASE o.Key # key
      BY <1>4, <1>6, <3>1, <3>3
    <3>4. QED
      BY <3>2, <3>3
  <2>2. QED
    BY <1>7, <2>1 DEF UnlistedAreMarked
<1>9. OneObject'
  BY <1>2, <1>7 DEF AgreeInv, OneObject
<1>10. InfosAreOfRows'
  <2>1. ASSUME NEW k \in Key, info'[k] # NoInfo PROVE info'[k].pi \in RowSet
    <3>1. CASE k = key
      <4>1. x.pi \in RowSet
        <5>1. CASE info[key] = x
          BY <1>2, <1>3, <5>1, NoInfoIsOther DEF AgreeInv, InfosAreOfRows
        <5>2. CASE x.pi = rows[i]
          BY <1>4, <5>2
        <5>3. QED
          BY <1>3, <5>1, <5>2
      <4>2. QED
        BY <1>5, <1>6, <3>1, <4>1
    <3>2. CASE k # key
      BY <1>2, <1>6, <2>1, <3>2 DEF AgreeInv, InfosAreOfRows
    <3>3. QED
      BY <3>1, <3>2
  <2>2. QED
    BY <1>7, <2>1 DEF InfosAreOfRows
<1>11. /\ Visited = {n \in DOMAIN rows : n < i}
       /\ Visited' = Visited \cup {i}
       /\ i \notin Visited
  <2>1. Visited = {n \in DOMAIN rows : n < i}
    BY DEF Visited
  <2>2. Visited' = {n \in DOMAIN rows : n < i + 1}
    BY <1>1 DEF Visited
  <2>3. \A n \in DOMAIN rows : n < i + 1 <=> n < i \/ n = i
    BY <1>4
  <2>4. QED
    BY <1>3, <1>4, <2>1, <2>2, <2>3
<1>12. \A n \in Visited : rows[n].Key # key /\ rows[n].Key \in Key
  BY <1>2, <1>3, <1>4, <1>11 DEF AgreeInv, UniqueKeys, key
<1>13. FlagsAreSet'
  <2>1. \A n \in Visited : /\ info[rows[n].Key] # NoInfo
                           /\ info[rows[n].Key].filtered
                                  = (rows[n].Key \in hidden)
    BY <1>2 DEF DrawInv, FlagsAreSet
  <2>2. \A n \in Visited : /\ info'[rows[n].Key] # NoInfo
                           /\ info'[rows[n].Key].filtered
                                  = (rows[n].Key \in hidden)
    BY <1>6, <1>12, <2>1
  <2>3. /\ info'[rows[i].Key] # NoInfo
        /\ info'[rows[i].Key].filtered = (rows[i].Key \in hidden)
    BY <1>5, <1>6 DEF key
  <2>4. QED
    BY <1>1, <1>11, <2>2, <2>3 DEF FlagsAreSet
<1>14. IndicesOfShown'
  <2>1. Range(indices) = {n \in Visited : rows[n].Key \notin hidden}
    BY <1>2 DEF DrawInv, IndicesOfShown
  <2>2. Range(indices') = IF key \in hidden THEN Range(indices)
                                            ELSE Range(indices) \cup {i}
    <3>1. CASE key \in hidden
      BY <1>1, <3>1
    <3>2. CASE key \notin hidden
      <4>1. /\ DOMAIN indices = 1 .. Len(indices) /\ Len(indices) \in Nat
            /\ indices' = Append(indices, i)
            /\ indices \in Seq(1 .. Len(rows)) /\ i \in 1 .. Len(rows)
        BY <1>1, <1>2, <1>3, <1>4, <3>2, LenProperties DEF TypeOK
      <4>2. /\ DOMAIN indices' = DOMAIN indices \cup {Len(indices) + 1}
            /\ \A n \in DOMAIN indices : indices'[n] = indices[n]
            /\ indices'[Len(indices) + 1] = i
        BY <4>1, AppendProperties, LenProperties
      <4>3. QED
        BY <3>2, <4>2 DEF Range
    <3>3. QED
      BY <3>1, <3>2
  <2>3. {n \in Visited' : rows'[n].Key \notin hidden'}
            = IF key \in hidden THEN Range(indices) ELSE Range(indices) \cup {i}
    BY <1>1, <1>11, <2>1 DEF key
  <2>4. QED
    BY <2>2, <2>3 DEF IndicesOfShown
<1>15. QED
  BY <1>1, <1>2, <1>8, <1>9, <1>10, <1>13, <1>14 DEF AgreeInv, DrawInv

LEMMA AgreeVisitRow ==
    ASSUME NoFailureInv, VisitRow
    PROVE  /\ AgreeInv' /\ DrawInv'
           /\ Len(rows') < Len(rows) => rows[i].Key \notin alive
<1>1. CASE Update(GetInfo(info, rows[i]))
  BY <1>1, AgreeRemoveRow DEF VisitRow
<1>2. CASE ~Update(GetInfo(info, rows[i]))
  <2>1. AgreeInv' /\ DrawInv'
    BY <1>2, AgreeKeepRow DEF VisitRow
  <2>2. rows' = rows
    BY <1>2 DEF VisitRow, KeepRow
  <2>3. Len(rows) \in Nat
    BY RowFacts DEF NoFailureInv, Inv
  <2>4. QED
    BY <2>1, <2>2, <2>3
<1>3. QED
  BY <1>1, <1>2

LEMMA NoFailureNext ==
    MaxFailed = 0 => (NoFailureInv /\ [Next]_vars => NoFailureInv')
<1>. SUFFICES ASSUME MaxFailed = 0, NoFailureInv, [Next]_vars
              PROVE  NoFailureInv'
  OBVIOUS
<1>1. Inv'
  BY InvNext DEF NoFailureInv
<1>2. AgreeInv' /\ DrawInv'
  <2>1. CASE System
    BY <2>1, AgreeSystem
  <2>2. CASE Tick
    BY <2>2, AgreeTick
  <2>3. CASE User
    BY <2>3, AgreeUser
  <2>4. CASE \E ok \in BOOLEAN : Refresh(ok)
    BY <2>4, AgreeRefresh
  <2>5. CASE NoRefresh
    BY <2>5, AgreeNoRefresh
  <2>6. CASE VisitRow
    BY <2>6, AgreeVisitRow
  <2>7. CASE \E dirty \in BOOLEAN : EndLoop(dirty)
    BY <2>7, AgreeEndLoop
  <2>8. CASE EndFrame
    BY <2>8, AgreeEndFrame
  <2>9. CASE UNCHANGED vars
    <3>1. UNCHANGED <<systemVars, pmVars, viewVars, failed>>
      BY <2>9 DEF vars
    <3>2. AgreeInv'
      BY <3>1, AgreeKept DEF NoFailureInv
    <3>3. Visited' = Visited
      BY <2>9 DEF vars, viewVars, Visited
    <3>4. DrawInv'
      BY <2>9, <3>3 DEF vars, viewVars, userVars, NoFailureInv, DrawInv,
                        FlagsAreSet, IndicesOfShown
    <3>5. QED
      BY <3>2, <3>4
  <2>10. QED
    BY <2>1, <2>2, <2>3, <2>4, <2>5, <2>6, <2>7, <2>8, <2>9 DEF Next, Frame
<1>3. QED
  BY <1>1, <1>2 DEF NoFailureInv

LEMMA NoFailureInvariant == ASSUME MaxFailed = 0 PROVE Spec => []NoFailureInv
<1>1. Init => NoFailureInv
  BY InvInit, AgreeInit DEF NoFailureInv
<1>2. NoFailureInv /\ [Next]_vars => NoFailureInv'
  BY NoFailureNext
<1>3. QED
  BY <1>1, <1>2, PTL DEF Spec

\* DoUpdate pushes an object only if its key has no row, and marks every object
\* that is no longer listed: without a failed snapshot there is one row per
\* key, of the manager's object or in the colour of deleted ones.
THEOREM RowsAlwaysMatch == ASSUME MaxFailed = 0 PROVE Spec => []RowsMatchManager
<1>1. NoFailureInv => RowsMatchManager
  <2>. SUFFICES ASSUME NoFailureInv PROVE RowsMatchManager
    OBVIOUS
  <2>1. \A m, n \in DOMAIN rows : rows[m].Key = rows[n].Key => m = n
    BY DEF NoFailureInv, AgreeInv, UniqueKeys
  <2>2. ASSUME NEW o \in RowSet, o \notin pm
        PROVE  GetColors(GetInfo(info, o), {"DeletedObjects", "NewObjects"})
                   = "DeletedObjects"
    <3>1. info[o.Key] # NoInfo /\ info[o.Key].isTerminated
      BY <2>2 DEF NoFailureInv, AgreeInv, UnlistedAreMarked
    <3>2. GetInfo(info, o) = info[o.Key]
      BY <3>1 DEF GetInfo
    <3>3. QED
      BY <3>1, <3>2 DEF GetColors
  <2>3. QED
    BY <2>1, <2>2 DEF RowsMatchManager
<1>2. QED
  BY <1>1, NoFailureInvariant, PTL

\* The loop collects the indices of the rows whose name passes the filter and
\* sets the flag of every row, and the flag decides what is drawn after a sort.
THEOREM DrawnAlwaysPass == ASSUME MaxFailed = 0 PROVE Spec => []DrawnPassFilter
<1>1. NoFailureInv => DrawnPassFilter
  <2>. SUFFICES ASSUME NoFailureInv, pc \in {"draw", "drawSorted"}
                PROVE  /\ Keys(Shown) \cap hidden = {}
                       /\ pc = "draw" =>
                              Shown = {o \in RowSet : o.Key \notin hidden}
    BY DEF DrawnPassFilter
  <2>1. TypeOK /\ Visited = DOMAIN rows /\ DOMAIN rows = 1 .. Len(rows)
    BY RowFacts DEF NoFailureInv, Inv, Visited
  <2>2. \A n \in DOMAIN indices : indices[n] \in DOMAIN rows
    BY <2>1, ElementOfSeq, LenProperties DEF TypeOK
  <2>3. \A n \in DOMAIN rows :
            info[rows[n].Key].filtered = (rows[n].Key \in hidden)
    BY <2>1 DEF NoFailureInv, DrawInv, FlagsAreSet
  <2>4. Shown = {rows[indices[j]] : j \in
                   {n \in DOMAIN indices : rows[indices[n]].Key \notin hidden}}
    BY <2>2, <2>3 DEF Shown
  <2>5. Keys(Shown) \cap hidden = {}
    BY <2>4 DEF Keys
  <2>6. ASSUME pc = "draw"
        PROVE  Shown = {o \in RowSet : o.Key \notin hidden}
    <3>1. Range(indices) = {n \in DOMAIN rows : rows[n].Key \notin hidden}
      BY <2>1, <2>6 DEF NoFailureInv, DrawInv, IndicesOfShown
    <3>2. ASSUME NEW o \in RowSet, o.Key \notin hidden PROVE o \in Shown
      <4>1. PICK n \in DOMAIN rows : rows[n] = o
        BY DEF RowSet, Range
      <4>2. PICK j \in DOMAIN indices : indices[j] = n
        BY <3>1, <3>2, <4>1 DEF Range
      <4>3. QED
        BY <2>4, <3>2, <4>1, <4>2
    <3>3. ASSUME NEW o \in Shown PROVE o \in RowSet /\ o.Key \notin hidden
      BY <2>2, <2>4 DEF RowSet, Range
    <3>4. QED
      BY <3>2, <3>3
  <2>7. QED
    BY <2>5, <2>6
<1>2. QED
  BY <1>1, NoFailureInvariant, PTL

\* ProcessInfoEx keeps a raw pointer to the object it was made for; without a
\* failed snapshot that object is always in a row.
THEOREM InfosPointToRows ==
    ASSUME MaxFailed = 0 PROVE Spec => []InfoPointsToHeldObject
<1>1. NoFailureInv => InfoPointsToHeldObject
  BY DEF NoFailureInv, AgreeInv, InfosAreOfRows, InfoPointsToHeldObject
<1>2. QED
  BY <1>1, NoFailureInvariant, PTL

\* The comment "process terminated" of the loop, if no snapshot fails.
THEOREM ErasedHaveExited ==
    ASSUME MaxFailed = 0 PROVE Spec => ErasedAreTerminated
<1>1. NoFailureInv /\ [Next]_vars =>
          [pc = "loop" /\ Len(rows') < Len(rows) => rows[i].Key \notin alive]_vars
  <2>. SUFFICES ASSUME NoFailureInv, Next, pc = "loop",
                       Len(rows') < Len(rows)
                PROVE  rows[i].Key \notin alive
    BY Zenon
  <2>1. Len(rows) \in Nat
    BY RowFacts DEF NoFailureInv, Inv
  <2>2. CASE VisitRow
    BY <2>2, AgreeVisitRow
  <2>3. CASE \E dirty \in BOOLEAN : EndLoop(dirty)
    <3>1. PICK dirty \in BOOLEAN : rows' \in MayBeSorted(rows, dirty)
      BY <2>3 DEF EndLoop
    <3>2. Len(rows') = Len(rows)
      BY <3>1, SortedFacts DEF NoFailureInv, Inv, TypeOK
    <3>3. QED
      BY <2>1, <3>2
  <2>4. CASE rows' = rows
    BY <2>1, <2>4
  <2>5. CASE pc # "loop"
    BY <2>5
  <2>6. rows' = rows \/ pc # "loop" \/ VisitRow
           \/ \E dirty \in BOOLEAN : EndLoop(dirty)
    BY DEF Next, System, StartProcess, ExitProcess, Wrap, Tick, User,
           ChooseInterval, TogglePause, SetFilter, Frame, Refresh, NoRefresh,
           EndFrame, viewVars
  <2>7. QED
    BY <2>2, <2>3, <2>4, <2>5, <2>6
<1>2. QED
  BY <1>1, NoFailureInvariant, PTL DEF Spec, ErasedAreTerminated

-----------------------------------------------------------------------------
(* Why the row of a dead process goes: nothing holds its mark up.          *)

Marked(k) == info[k] # NoInfo /\ info[k].isTerminated

\* Once a process is marked as terminated, it keeps the mark until its info is
\* erased with its row, and the time it has left never grows: no refresh marks
\* it a second time, or as new.
MarkRunsOut ==
    [][\A k \in Key : Marked(k) =>
          \/ info'[k] = NoInfo
          \/ info'[k].isTerminated /\ info'[k].left <= info[k].left]_vars

LEMMA MarkedAreDead ==
    ASSUME NoFailureInv, NEW k \in Key, Marked(k)
    PROVE  k \notin alive /\ k \notin Keys(pm)
<1>1. k \notin Keys(pm)
  BY ListedAreRows DEF NoFailureInv, Marked
<1>2. info[k].pi \in RowSet /\ info[k].pi.Key = k
  BY DEF NoFailureInv, Inv, RowInv, InfosHaveRows, AgreeInv, InfosAreOfRows,
         Marked
<1>3. info[k].pi \notin pm
  BY <1>1, <1>2 DEF Keys
<1>4. QED
  BY <1>1, <1>2, <1>3 DEF NoFailureInv, AgreeInv, UnlistedAreMarked

LEMMA MarkTick ==
    ASSUME NoFailureInv, NEW k \in Key, Marked(k), Tick
    PROVE  info'[k].isTerminated /\ info'[k].left <= info[k].left
<1>1. info[k] \in Info /\ info[k].left \in Int
  <2>1. info[k] \in Info
    BY DEF NoFailureInv, Inv, TypeOK, Marked
  <2>2. QED
    BY <2>1, HoldIsNat DEF Info
<1>2. info'[k] = Passed(info[k])
  BY DEF Tick
<1>3. Passed(info[k]).left <= info[k].left
  BY <1>1 DEF Passed, Info
<1>4. Passed(info[k]).isTerminated = info[k].isTerminated
  BY <1>1, InfoFacts
<1>5. QED
  BY <1>2, <1>3, <1>4 DEF Marked

LEMMA MarkRefresh ==
    ASSUME NoFailureInv, MaxFailed = 0, NEW ok \in BOOLEAN, Refresh(ok),
           NEW k \in Key, Marked(k)
    PROVE  info'[k] = info[k]
<1>1. Inv /\ ok /\ Snapshot(ok) = alive
  BY DEF NoFailureInv, AgreeInv, Refresh, Snapshot
<1>2. k \notin alive /\ k \notin Keys(pm)
  BY MarkedAreDead
<1>3. k \notin Keys(NewObjects(alive)) /\ k \notin Keys(Gone(alive))
  BY <1>2 DEF NewObjects, Gone, Kept, Keys
<1>4. \A l \in Key \ (Keys(NewObjects(alive)) \cup Keys(Gone(alive))) :
         info'[l] = info[l]
  BY <1>1, RefreshFacts
<1>5. QED
  BY <1>3, <1>4

LEMMA MarkVisit ==
    ASSUME NoFailureInv, NEW k \in Key, Marked(k), VisitRow
    PROVE  \/ info'[k] = NoInfo
           \/ info'[k].isTerminated /\ info'[k].left = info[k].left
<1>. DEFINE r == rows[i].Key
            x == GetInfo(info, rows[i])
<1>1. info[k] \in Info /\ info[k] # NoInfo /\ info[k].isTerminated
        /\ info \in [Key -> Info \cup {NoInfo}]
  BY DEF NoFailureInv, Inv, TypeOK, Marked
<1>2. IF Update(x) THEN info' = [info EXCEPT ![r] = NoInfo]
      ELSE info' = [info EXCEPT ![r] = Flagged(Updated(x), r)]
  BY DEF VisitRow, RemoveRow, KeepRow, Flagged
<1>3. CASE r # k
  BY <1>1, <1>2, <1>3
<1>4. CASE r = k /\ Update(x)
  BY <1>1, <1>2, <1>4
<1>5. CASE r = k /\ ~Update(x)
  <2>1. x = info[k]
    BY <1>1, <1>5 DEF GetInfo
  <2>2. Updated(x) = info[k]
    BY <1>1, <1>5, <2>1 DEF Update, Updated
  <2>. HIDE DEF x
  <2>3. info'[k] = [info[k] EXCEPT !.filtered = k \in hidden]
    BY <1>1, <1>2, <1>5, <2>2 DEF Flagged
  <2>4. Flagged(info[k], k).isTerminated = info[k].isTerminated
    BY <1>1, FlaggedFacts
  <2>5. [info[k] EXCEPT !.filtered = k \in hidden].left = info[k].left
    BY <1>1 DEF Info
  <2>6. QED
    BY <1>1, <2>3, <2>4, <2>5 DEF Flagged
<1>6. QED
  BY <1>3, <1>4, <1>5

\* With the clock that runs (Tick) and the frames that come (FairSpec) this is
\* why DeadRowsGo holds; here without fairness, for any hold time and number of
\* processes.
THEOREM MarksAlwaysRunOut == ASSUME MaxFailed = 0 PROVE Spec => MarkRunsOut
<1>. DEFINE RunsOut(k) ==
              \/ info'[k] = NoInfo
              \/ info'[k].isTerminated /\ info'[k].left <= info[k].left
<1>1. NoFailureInv /\ [Next]_vars =>
          [\A k \in Key : Marked(k) => RunsOut(k)]_vars
  <2>. SUFFICES ASSUME NoFailureInv, [Next]_vars, NEW k \in Key, Marked(k)
                PROVE  RunsOut(k)
    OBVIOUS
  <2>1. info[k].isTerminated /\ info[k].left <= info[k].left
    <3>1. info[k] \in Info
      BY DEF NoFailureInv, Inv, TypeOK, Marked
    <3>2. info[k].left \in Int
      BY <3>1, HoldIsNat DEF Info
    <3>3. QED
      BY <3>2 DEF Marked
  <2>2. CASE info' = info
    BY <2>1, <2>2
  <2>3. CASE Tick
    BY <2>3, MarkTick
  <2>4. ASSUME NEW ok \in BOOLEAN, Refresh(ok) PROVE RunsOut(k)
    BY <2>1, <2>4, MarkRefresh
  <2>5. CASE VisitRow
    BY <2>1, <2>5, MarkVisit
  <2>6. info' = info \/ Tick \/ VisitRow \/ \E ok \in BOOLEAN : Refresh(ok)
    BY DEF Next, System, StartProcess, ExitProcess, Wrap, User,
           ChooseInterval, TogglePause, SetFilter, Frame, NoRefresh, EndLoop,
           EndFrame, viewVars, vars
  <2>7. QED
    BY <2>2, <2>3, <2>4, <2>5, <2>6
<1>2. QED
  BY <1>1, NoFailureInvariant, PTL DEF Spec, MarkRunsOut

-----------------------------------------------------------------------------
(* What the view takes EnumProcesses for is what the manager implements    *)
(* (theorem WalkIsAtomic of ProcessManagerProofs).                         *)

Table == INSTANCE ProcessTable WITH
    Initial <- {}, list <- pm, gone <- pmTerminated

LEMMA TableInit == Init => Table!Init
  BY DEF Init, Table!Init

\* The snapshot of a refresh shows every process, or it fails.
LEMMA TableRefresh ==
    ASSUME NEW ok \in BOOLEAN, Refresh(ok)
    PROVE  \E S \in Table!Snapshots : Table!Enum(S)
<1>. PICK S : S = IF ok THEN alive ELSE {}
  OBVIOUS
<1>1. S \in Table!Snapshots
  BY DEF Table!Snapshots
<1>2. EnumProcesses(S) /\ UNCHANGED <<alive, started>>
  BY DEF Refresh, systemVars
<1>3. Kept(S) \cup NewObjects(S)
          = {o \in pm : o.Key \in S}
              \cup {[Key |-> k, Serial |-> builds[k] + 1] : k \in S \ Keys(pm)}
  BY DEF Kept, NewObjects
<1>4. Gone(S) = {o \in pm : o.Key \notin S}
  BY DEF Kept, Gone
<1>5. Table!Enum(S)
  BY <1>2, <1>3, <1>4 DEF EnumProcesses, Table!Enum, Table!Built, Table!Keys,
                          Keys
<1>6. QED
  BY <1>1, <1>5

\* The frames of the view meet no change of the manager's table that the
\* manager does not promise: a refresh is one call of EnumProcesses, and
\* nothing else the view does touches the table.
THEOREM ViewUsesTable == Spec => Table!Spec
<1>1. [Next]_vars => [Table!Next]_(Table!vars)
  <2> SUFFICES ASSUME [Next]_vars PROVE [Table!Next]_(Table!vars)
    OBVIOUS
  <2>1. CASE System
    <3>1. ASSUME NEW k \in Key, StartProcess(k) PROVE Table!StartProcess(k)
      BY <3>1 DEF StartProcess, Table!StartProcess, pmVars
    <3>2. ASSUME NEW k \in Key, ExitProcess(k) PROVE Table!ExitProcess(k)
      BY <3>2 DEF ExitProcess, Table!ExitProcess, pmVars
    <3>3. CASE Wrap
      BY <3>3 DEF Wrap, Table!vars, systemVars, pmVars
    <3>4. QED
      BY <2>1, <3>1, <3>2, <3>3 DEF System, Table!Next
  <2>2. CASE Tick \/ User
    <3>1. UNCHANGED <<alive, started, pm, pmTerminated, builds>>
      BY <2>2 DEF Tick, User, ChooseInterval, TogglePause, SetFilter,
                  systemVars, pmVars
    <3>2. QED
      BY <3>1 DEF Table!vars
  <2>3. ASSUME NEW ok \in BOOLEAN, Refresh(ok) PROVE Table!Next
    BY <2>3, TableRefresh DEF Table!Next
  <2>4. CASE \/ NoRefresh \/ VisitRow \/ EndFrame
             \/ \E dirty \in BOOLEAN : EndLoop(dirty)
    <3>1. UNCHANGED <<alive, started, pm, pmTerminated, builds>>
      BY <2>4 DEF NoRefresh, VisitRow, EndFrame, EndLoop, systemVars, pmVars
    <3>2. QED
      BY <3>1 DEF Table!vars
  <2>5. CASE UNCHANGED vars
    BY <2>5 DEF vars, systemVars, pmVars, Table!vars
  <2>6. QED
    BY <2>1, <2>2, <2>3, <2>4, <2>5 DEF Next, Frame
<1>2. QED
  BY <1>1, TableInit, PTL DEF Spec, Table!Spec
=============================================================================
