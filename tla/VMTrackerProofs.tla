-------------------------- MODULE VMTrackerProofs ---------------------------
(***************************************************************************)
(* That a walk of ProcessVMTracker covers the address space without a gap, *)
(* and that its lists tell the new and the gone regions, for any number of *)
(* pages, any attributes and whatever the target does meanwhile.           *)
(***************************************************************************)
EXTENDS VMTracker, SequenceTheorems, WellFoundedInduction, NaturalsInduction,
        TLAPS

Last == items[Len(items)]

\* Where the walk has come to.
AddressIsEnd ==
    address = IF items = <<>> THEN 0 ELSE Last.BaseAddress + Last.RegionSize

\* A walk of n regions has passed n pages; one that ended without an exit has
\* passed all of them.
WalkCovers ==
    /\ Len(items) <= address
    /\ pc = "idle" /\ running /\ items # <<>> => address = Pages

\* _set has all regions that were ever found, and no other.
SetIsAllFound == set = seen \cup Found

NewIsUnseen == newItems = IF count = 0 THEN {} ELSE Found \ seen

\* What is left in the copy was found before and is not found again, and all
\* of it has been reported since the first step.
OldIsUnfound ==
    count # 0 => /\ oldItems = seen \ Found
                 /\ items # <<>> => oldItems \subseteq deletedItems

Inv == /\ TypeOK
       /\ WalkIsContiguous /\ AddressIsEnd /\ WalkCovers
       /\ SetIsAllFound /\ NewIsUnseen /\ OldIsUnfound

-----------------------------------------------------------------------------
(* What a query returns. *)

\* There is a first page with another attribute, or the end.
LEMMA RegionEndExists ==
    ASSUME NEW p \in Page
    PROVE  RegionEnd(p) \in p + 1 .. Pages
<1>. DEFINE T == {e \in p + 1 .. Pages : e = Pages \/ memory[e] # memory[p]}
            R == OpToRel(<, Nat)
<1>1. Pages \in T /\ T \subseteq Nat
  BY PagesIsPositive DEF Page
<1>2. PICK e \in T : \A y \in T : ~(<<y, e>> \in R)
  <2>1. IsWellFoundedOn(R, Nat)
    BY NatLessThanWellFounded
  <2>. HIDE DEF R, T
  <2>2. T # {}
    BY <1>1
  <2>3. QED
    BY <1>1, <2>1, <2>2, WFMin
<1>3. \A y \in T : ~(y < e)
  BY <1>1, <1>2 DEF OpToRel
<1>4. \A q \in p .. e - 1 : memory[q] = memory[p]
  <2>1. ASSUME NEW q \in p .. e - 1 PROVE memory[q] = memory[p]
    <3>1. CASE q = p
      BY <3>1
    <3>2. CASE q # p
      <4>1. q \in p + 1 .. Pages /\ q < e
        BY <3>2, PagesIsPositive DEF Page
      <4>2. q \notin T
        BY <1>3, <4>1
      <4>3. QED
        BY <4>1, <4>2
    <3>3. QED
      BY <3>1, <3>2
  <2>2. QED
    BY <2>1
<1>5. /\ e \in p + 1 .. Pages
      /\ \A q \in p .. e - 1 : memory[q] = memory[p]
      /\ e = Pages \/ memory[e] # memory[p]
  BY <1>4
<1>6. QED
  BY <1>5 DEF RegionEnd

\* A query describes pages from the address asked for, and at least one.
LEMMA QueryType ==
    ASSUME NEW p \in Page, memory \in [Page -> Attribute]
    PROVE  /\ VirtualQueryEx(p) \in MemoryRegionItem
           /\ VirtualQueryEx(p).BaseAddress = p
           /\ p + VirtualQueryEx(p).RegionSize \in p + 1 .. Pages
<1>1. RegionEnd(p) \in p + 1 .. Pages
  BY RegionEndExists
<1>2. RegionEnd(p) - p \in 1 .. Pages /\ p + (RegionEnd(p) - p) = RegionEnd(p)
  BY <1>1, PagesIsPositive DEF Page
<1>3. memory[p] \in Attribute
  OBVIOUS
<1>4. QED
  BY <1>1, <1>2, <1>3 DEF VirtualQueryEx, MemoryRegionItem

\* The regions found after one more item.
LEMMA FoundAppend ==
    ASSUME items \in Seq(MemoryRegionItem), NEW item \in MemoryRegionItem,
           items' = Append(items, item)
    PROVE  Found' = Found \cup {Key(item)}
<1>1. /\ DOMAIN items = 1 .. Len(items)
      /\ Len(items) \in Nat
      /\ DOMAIN items' = 1 .. Len(items) + 1
      /\ \A n \in 1 .. Len(items) : items'[n] = items[n]
      /\ items'[Len(items) + 1] = item
  BY AppendProperties, LenProperties
<1>2. Found' = {Key(items'[n]) : n \in DOMAIN items'}
  BY DEF Found, Key
<1>3. DOMAIN items' = DOMAIN items \cup {Len(items) + 1}
  BY <1>1
<1>. HIDE DEF Key
<1>4. QED
  BY <1>1, <1>2, <1>3 DEF Found

\* Items have keys that are regions.
LEMMA KeyType ==
    ASSUME NEW item \in MemoryRegionItem
    PROVE  Key(item) \in Region
BY DEF Key, Region, MemoryRegionItem

LEMMA FoundType ==
    ASSUME items \in Seq(MemoryRegionItem)
    PROVE  Found \subseteq Region
BY KeyType, LenProperties DEF Found

-----------------------------------------------------------------------------
(* The invariant. *)

LEMMA InvInit == Init => Inv
<1>. SUFFICES ASSUME Init PROVE Inv
  OBVIOUS
<1>. USE DEF Init
<1>1. /\ items = <<>> /\ items \in Seq(MemoryRegionItem) /\ Len(items) = 0
      /\ DOMAIN items = {}
  BY EmptySeq
<1>2. Found = {}
  BY <1>1 DEF Found
<1>3. TypeOK
  BY <1>1, PagesIsPositive DEF TypeOK
<1>4. WalkIsContiguous /\ AddressIsEnd /\ WalkCovers
  BY <1>1 DEF WalkIsContiguous, AddressIsEnd, WalkCovers
<1>5. SetIsAllFound /\ NewIsUnseen /\ OldIsUnfound
  BY <1>2 DEF SetIsAllFound, NewIsUnseen, OldIsUnfound
<1>6. QED
  BY <1>3, <1>4, <1>5 DEF Inv

\* A change of the target's memory or its exit leaves the tracker alone.
LEMMA InvTarget ==
    ASSUME Inv,
           \/ \E first \in Page, end \in 1 .. Pages, a \in Attribute :
                  Change(first, end, a)
           \/ Exit
    PROVE  Inv'
<1>1. /\ memory' \in [Page -> Attribute]
      /\ running' \in BOOLEAN
      /\ running' => running
  BY DEF Inv, TypeOK, Change, Exit
<1>2. UNCHANGED <<lists, walk, history>>
  BY DEF Change, Exit
<1>. USE DEF lists, walk, history
<1>3. Found' = Found
  BY <1>2 DEF Found, Key
<1>4. TypeOK'
  BY <1>1, <1>2 DEF Inv, TypeOK
<1>5. (WalkIsContiguous /\ AddressIsEnd /\ WalkCovers)'
  BY <1>1, <1>2 DEF Inv, WalkIsContiguous, AddressIsEnd, WalkCovers, Last
<1>6. (SetIsAllFound /\ NewIsUnseen /\ OldIsUnfound)'
  BY <1>2, <1>3 DEF Inv, SetIsAllFound, NewIsUnseen, OldIsUnfound
<1>7. QED
  BY <1>4, <1>5, <1>6 DEF Inv

LEMMA InvEnumRegions == ASSUME Inv, EnumRegions PROVE Inv'
<1>. USE DEF EnumRegions, ClearLists, target, Inv
<1>1. /\ items' = <<>> /\ items' \in Seq(MemoryRegionItem) /\ Len(items') = 0
      /\ DOMAIN items' = {}
  BY EmptySeq
<1>2. Found' = {}
  BY <1>1 DEF Found
<1>3. Len(items) \in 0 .. Pages
  BY LenProperties, PagesIsPositive DEF TypeOK, WalkCovers
<1>4. TypeOK'
  BY <1>1, <1>3, FoundType, PagesIsPositive DEF TypeOK
<1>5. (WalkIsContiguous /\ AddressIsEnd /\ WalkCovers)'
  BY <1>1 DEF WalkIsContiguous, AddressIsEnd, WalkCovers
<1>6. (SetIsAllFound /\ NewIsUnseen /\ OldIsUnfound)'
  BY <1>1, <1>2 DEF SetIsAllFound, NewIsUnseen, OldIsUnfound
<1>7. QED
  BY <1>4, <1>5, <1>6

LEMMA InvStep == ASSUME Inv, Step PROVE Inv'
<1>. DEFINE item == VirtualQueryEx(address)
            r == Key(item)
<1>1. /\ pc = "walk" /\ pc' = "walk" /\ address \in Page
      /\ Take(r) \/ Compare(r)
      /\ items' = Append(items, item)
      /\ address' = address + item.RegionSize
      /\ UNCHANGED <<memory, running, count, before, seen>>
  <2>1. address \in Page
    BY PagesIsPositive DEF Step, Inv, TypeOK, Page
  <2>2. Take(r) \/ Compare(r)
    BY DEF Step
  <2>3. QED
    BY <2>1, <2>2, Zenon DEF Step, NextAddress, target, history
<1>2. /\ item \in MemoryRegionItem
      /\ item.BaseAddress = address
      /\ address + item.RegionSize \in address + 1 .. Pages
  BY <1>1, QueryType DEF Inv, TypeOK
<1>. HIDE DEF item
<1>3. /\ items' \in Seq(MemoryRegionItem)
      /\ items' # <<>>
      /\ Len(items) \in Nat
      /\ Len(items') = Len(items) + 1
      /\ DOMAIN items = 1 .. Len(items)
      /\ DOMAIN items' = 1 .. Len(items')
      /\ \A n \in 1 .. Len(items) : items'[n] = items[n]
      /\ items'[Len(items')] = item
  BY <1>1, <1>2, AppendProperties, LenProperties DEF Inv, TypeOK
<1>4. Found' = Found \cup {r}
  BY <1>1, <1>2, FoundAppend DEF Inv, TypeOK
<1>5. r \in Region
  BY <1>2, KeyType
<1>. HIDE DEF r
<1>6. (AddressIsEnd /\ WalkCovers)'
  <2>1. AddressIsEnd'
    BY <1>1, <1>2, <1>3 DEF AddressIsEnd, Last
  <2>2. address \in Nat /\ address' \in Nat /\ address' >= address + 1
    BY <1>1, <1>2, PagesIsPositive DEF Page
  <2>3. WalkCovers'
    BY <1>1, <1>3, <2>2 DEF WalkCovers, Inv
  <2>4. QED
    BY <2>1, <2>3
<1>7. WalkIsContiguous'
  <2>1. ASSUME NEW n \in 1 .. Len(items')
        PROVE  items'[n].BaseAddress =
                   IF n = 1 THEN 0
                   ELSE items'[n - 1].BaseAddress + items'[n - 1].RegionSize
    <3>1. CASE n \in 1 .. Len(items)
      <4>1. /\ items'[n] = items[n]
            /\ n # 1 => items'[n - 1] = items[n - 1]
        BY <1>3, <3>1
      <4>2. QED
        BY <1>3, <3>1, <4>1 DEF Inv, WalkIsContiguous
    <3>2. CASE n = Len(items) + 1
      <4>1. items'[n] = item
        BY <1>3, <3>2
      <4>2. CASE Len(items) = 0
        <5>1. items = <<>>
          BY <4>2, EmptySeq DEF Inv, TypeOK
        <5>2. address = 0
          BY <5>1 DEF Inv, AddressIsEnd
        <5>3. QED
          BY <1>2, <3>2, <4>1, <4>2, <5>2
      <4>3. CASE Len(items) # 0
        <5>1. items # <<>> /\ n # 1 /\ n - 1 = Len(items)
          BY <1>3, <3>2, <4>3, EmptySeq
        <5>2. items'[n - 1] = Last
          BY <1>3, <4>3, <5>1 DEF Last
        <5>3. address = Last.BaseAddress + Last.RegionSize
          BY <5>1 DEF Inv, AddressIsEnd
        <5>4. QED
          BY <1>2, <4>1, <5>1, <5>2, <5>3
      <4>4. QED
        BY <4>2, <4>3
    <3>3. QED
      BY <1>3, <3>1, <3>2
  <2>2. QED
    BY <1>1, <1>3, <2>1 DEF WalkIsContiguous
<1>8. TypeOK' /\ (SetIsAllFound /\ NewIsUnseen /\ OldIsUnfound)'
  <2>1. address' \in 0 .. Pages
    BY <1>1, <1>2, PagesIsPositive DEF Page
  <2>2. CASE Take(r)
    <3>1. count = 0 /\ count' = 0
      BY <1>1, <2>2 DEF Take
    <3>2. TypeOK'
      BY <1>1, <1>3, <1>5, <2>1, <2>2 DEF Inv, TypeOK, Take
    <3>3. (SetIsAllFound /\ NewIsUnseen /\ OldIsUnfound)'
      BY <1>1, <1>4, <2>2, <3>1
         DEF Inv, SetIsAllFound, NewIsUnseen, OldIsUnfound, Take
    <3>4. QED
      BY <3>2, <3>3
  <2>3. CASE Compare(r)
    <3>1. count # 0 /\ count' = count
      BY <1>1, <2>3 DEF Compare
    <3>2. TypeOK'
      BY <1>1, <1>3, <1>5, <2>1, <2>3 DEF Inv, TypeOK, Compare
    <3>3. SetIsAllFound'
      BY <1>1, <1>4, <2>3 DEF Inv, SetIsAllFound, Compare, Known
    <3>4. NewIsUnseen'
      BY <1>1, <1>4, <2>3, <3>1
         DEF Inv, SetIsAllFound, NewIsUnseen, Compare, Known
    <3>5. OldIsUnfound'
      BY <1>1, <1>4, <2>3, <3>1
         DEF Inv, SetIsAllFound, OldIsUnfound, Compare, Known
    <3>6. QED
      BY <3>2, <3>3, <3>4, <3>5
  <2>4. QED
    BY <1>1, <2>2, <2>3
<1>9. QED
  BY <1>6, <1>7, <1>8 DEF Inv

LEMMA InvEndWalk == ASSUME Inv, EndWalk PROVE Inv'
<1>. USE DEF EndWalk, target, lists, history, Inv
<1>1. Found' = Found
  BY DEF Found, Key
<1>2. TypeOK'
  BY DEF TypeOK
<1>3. (AddressIsEnd /\ WalkCovers)'
  BY DEF AddressIsEnd, WalkCovers, Last
<1>4. WalkIsContiguous'
  <2>1. items' # <<>> => address = items'[Len(items')].BaseAddress
                                       + items'[Len(items')].RegionSize
    BY DEF AddressIsEnd, Last
  <2>2. QED
    BY <2>1 DEF WalkIsContiguous
<1>5. (SetIsAllFound /\ NewIsUnseen /\ OldIsUnfound)'
  BY <1>1 DEF SetIsAllFound, NewIsUnseen, OldIsUnfound
<1>6. QED
  BY <1>2, <1>3, <1>4, <1>5

LEMMA InvNext == Inv /\ [Next]_vars => Inv'
<1>. SUFFICES ASSUME Inv, [Next]_vars PROVE Inv'
  OBVIOUS
<1>1. CASE \/ \E first \in Page, end \in 1 .. Pages, a \in Attribute :
                  first < end /\ Change(first, end, a)
           \/ Exit
  BY <1>1, InvTarget
<1>2. CASE EnumRegions
  BY <1>2, InvEnumRegions
<1>3. CASE Step
  BY <1>3, InvStep
<1>4. CASE EndWalk
  BY <1>4, InvEndWalk
<1>5. CASE UNCHANGED vars
  BY <1>5 DEF vars, target, lists, walk, history, Inv, TypeOK, Found, Key,
              WalkIsContiguous, AddressIsEnd, WalkCovers, Last,
              SetIsAllFound, NewIsUnseen, OldIsUnfound
<1>6. QED
  BY <1>1, <1>2, <1>3, <1>4, <1>5 DEF Next

LEMMA Invariant == Spec => []Inv
BY InvInit, InvNext, PTL DEF Spec

-----------------------------------------------------------------------------
(* The properties. *)

\* Every variable of the tracker has its type.
THEOREM TypeCorrect == Spec => []TypeOK
<1>1. Inv => TypeOK
  BY DEF Inv
<1>2. QED
  BY <1>1, Invariant, PTL

\* EnumRegions adds RegionSize to the address it asked for: whatever the
\* target changes meanwhile, the regions follow each other without a gap or an
\* overlap, and a walk that ends without an exit reaches the last page.
THEOREM WalkNeverSkips == Spec => []WalkIsContiguous
<1>1. Inv => WalkIsContiguous
  BY DEF Inv
<1>2. QED
  BY <1>1, Invariant, PTL

\* _newItems has exactly the regions that were not in _set, and _set those of
\* all walks.
THEOREM NewIsNeverSeen == Spec => []NewWasNeverSeen
<1>1. Inv => NewWasNeverSeen
  BY DEF Inv, NewIsUnseen, NewWasNeverSeen
<1>2. QED
  BY <1>1, Invariant, PTL

\* Of what the walk before found, nothing that this one did not find is
\* missing from _deletedItems.
THEOREM GoneIsAlwaysReported == Spec => []GoneIsReported
<1>1. Inv => GoneIsReported
  BY DEF Inv, TypeOK, OldIsUnfound, GoneIsReported
<1>2. QED
  BY <1>1, Invariant, PTL

\* Why a walk ends: each query that answers takes it at least a page further
\* and adds one region, nothing takes it back, and there are no more regions
\* than pages.  (That the queries go on being made is left to fairness.)
WalkAdvances ==
    /\ [](Len(items) <= address /\ address <= Pages)
    /\ [][pc = "walk" =>
             \/ pc' = "idle"
             \/ UNCHANGED <<pc, address, items>>
             \/ address < address' /\ Len(items') = Len(items) + 1]_vars

THEOREM WalksAlwaysAdvance == Spec => WalkAdvances
<1>. DEFINE Bounded == Len(items) <= address /\ address <= Pages
            Advance == pc = "walk" =>
                          \/ pc' = "idle"
                          \/ UNCHANGED <<pc, address, items>>
                          \/ address < address' /\ Len(items') = Len(items) + 1
<1>1. Inv => Bounded
  BY PagesIsPositive DEF Inv, TypeOK, WalkCovers
<1>2. Inv /\ [Next]_vars => [Advance]_vars
  <2>. SUFFICES ASSUME Inv, [Next]_vars, pc = "walk" PROVE Advance
    OBVIOUS
  <2>1. CASE Step
    <3>. DEFINE item == VirtualQueryEx(address)
    <3>1. address \in Page
      BY <2>1, PagesIsPositive DEF Step, Inv, TypeOK, Page
    <3>2. /\ items' = Append(items, item)
          /\ address' = address + item.RegionSize
      BY <2>1, Zenon DEF Step, NextAddress
    <3>3. item \in MemoryRegionItem /\ address + item.RegionSize > address
      BY <3>1, QueryType, PagesIsPositive DEF Inv, TypeOK, Page
    <3>. HIDE DEF item
    <3>4. Len(items') = Len(items) + 1
      BY <3>2, <3>3, AppendProperties DEF Inv, TypeOK
    <3>5. QED
      BY <3>2, <3>3, <3>4
  <2>2. CASE EndWalk
    BY <2>2 DEF EndWalk
  <2>3. CASE UNCHANGED <<pc, address, items>>
    BY <2>3
  <2>4. Step \/ EndWalk \/ UNCHANGED <<pc, address, items>>
    BY DEF Next, Change, Exit, EnumRegions, vars, lists, walk
  <2>5. QED
    BY <2>1, <2>2, <2>3, <2>4
<1>3. QED
  BY <1>1, <1>2, Invariant, PTL DEF Spec, WalkAdvances
=============================================================================
