----------------------------- MODULE VMTracker ------------------------------
(***************************************************************************)
(* ProcessVMTracker: walks over the address space of a process, and after  *)
(* each the regions that are new and those that are gone.                  *)
(*                                                                         *)
(* The target allocates, frees and protects pages at any moment, also      *)
(* between two queries of one walk, and exits.  A page has an attribute    *)
(* that stands for State and Protect together, free pages included: every  *)
(* page belongs to a region.  VirtualQueryEx describes the pages from the  *)
(* address asked for up to the first one with another attribute.           *)
(***************************************************************************)
EXTENDS Naturals, Sequences, FiniteSets

CONSTANTS Pages,     \* the address space has pages 0 .. Pages - 1
          Attribute  \* values of State and Protect

ASSUME PagesIsPositive == Pages \in Nat \ {0}

Page == 0 .. Pages - 1

\* What operator== and the hash of MemoryRegionItem look at.
Region == [BaseAddress : Page, Attribute : Attribute]

MemoryRegionItem == [BaseAddress : Page, Attribute : Attribute,
                     RegionSize : 1 .. Pages]

VARIABLES
    memory,   \* the target: attribute of every page
    running,  \* the target did not exit
    items,    \* _items, in the order of the walk
    newItems, deletedItems,  \* the lists, as the sets of their regions
    set,      \* _set
    pc,       \* "idle" or "walk"
    count,    \* regions the walk before found
    address,  \* where the walk goes on
    oldItems, \* the copy of _set that the walk erases from
    before,   \* history: regions the walk before found
    seen      \* history: regions any earlier walk found

target == <<memory, running>>
lists == <<items, newItems, deletedItems, set>>
walk == <<pc, count, address, oldItems>>
history == <<before, seen>>
vars == <<target, lists, walk, history>>

Key(item) == [BaseAddress |-> item.BaseAddress, Attribute |-> item.Attribute]
Found == {Key(items[i]) : i \in DOMAIN items}

-----------------------------------------------------------------------------
(* The target. *)

\* VirtualAlloc, VirtualFree, VirtualProtect of some pages.
Change(first, end, a) ==
    /\ running
    /\ memory' = [p \in Page |-> IF first <= p /\ p < end THEN a ELSE memory[p]]
    /\ UNCHANGED <<running, lists, walk, history>>

Exit ==
    /\ running
    /\ running' = FALSE
    /\ UNCHANGED <<memory, lists, walk, history>>

\* First page after p with an attribute other than p's.
RegionEnd(p) ==
    CHOOSE e \in p + 1 .. Pages :
        /\ \A q \in p .. e - 1 : memory[q] = memory[p]
        /\ e = Pages \/ memory[e] # memory[p]

VirtualQueryEx(p) == [BaseAddress |-> p, Attribute |-> memory[p],
                      RegionSize |-> RegionEnd(p) - p]

-----------------------------------------------------------------------------
(* EnumRegions. *)

Init == /\ memory \in [Page -> Attribute] /\ running = TRUE
        /\ items = <<>> /\ newItems = {} /\ deletedItems = {} /\ set = {}
        /\ pc = "idle" /\ count = 0 /\ address = 0 /\ oldItems = {}
        /\ before = {} /\ seen = {}

\* Mutant: the lists of the walk before are not cleared.
ClearListsItems ==
    /\ items' = <<>>
    /\ UNCHANGED <<newItems, deletedItems>>

ClearLists == items' = <<>> /\ newItems' = {} /\ deletedItems' = {}

EnumRegions ==
    /\ pc = "idle"
    /\ pc' = "walk"
    /\ count' = Len(items)
    /\ ClearLists
    /\ address' = 0
    /\ oldItems' = set
    /\ before' = Found
    /\ seen' = seen \cup Found
    /\ UNCHANGED <<target, set>>

Known(r) == r \in set

\* The first walk, and a walk after one that found nothing, reports nothing.
Take(r) ==
    /\ count = 0
    /\ set' = set \cup {r}
    /\ UNCHANGED <<newItems, deletedItems, oldItems>>

\* Mutant: only what is left at the last page is taken for deleted.
CompareAtLast(r) ==
    /\ count # 0
    /\ \/ Known(r) /\ UNCHANGED newItems
       \/ ~Known(r) /\ newItems' = newItems \cup {r}
    /\ set' = set \cup {r}
    /\ oldItems' = oldItems \ {r}
    /\ deletedItems' = IF RegionEnd(address) = Pages THEN oldItems' ELSE {}

\* Mutant: new regions are not remembered.
CompareForgets(r) ==
    /\ count # 0
    /\ \/ ~Known(r) /\ newItems' = newItems \cup {r} /\ UNCHANGED oldItems
       \/ Known(r) /\ oldItems' = oldItems \ {r} /\ UNCHANGED newItems
    /\ deletedItems' = deletedItems \cup oldItems'
    /\ UNCHANGED set

\* All regions not met so far go to the deleted ones, at every step.
Compare(r) ==
    /\ count # 0
    /\ \/ /\ ~Known(r)
          /\ newItems' = newItems \cup {r}
          /\ set' = set \cup {r}
          /\ UNCHANGED oldItems
       \/ /\ Known(r)
          /\ oldItems' = oldItems \ {r}
          /\ UNCHANGED <<newItems, set>>
    /\ deletedItems' = deletedItems \cup oldItems'

\* Mutant: the walk goes on page by page.
NextAddressPage(item) == address + 1

NextAddress(item) == address + item.RegionSize

Step ==
    /\ pc = "walk" /\ running /\ address < Pages
    /\ LET item == VirtualQueryEx(address) IN
       /\ Take(Key(item)) \/ Compare(Key(item))
       /\ items' = Append(items, item)
       /\ address' = NextAddress(item)
    /\ UNCHANGED <<target, pc, count, history>>

\* Mutant: the walk is begun again when the query fails.
EndWalkRestarts ==
    /\ pc = "walk" /\ (~running \/ address = Pages)
    /\ address' = 0
    /\ items' = <<>>
    /\ UNCHANGED <<target, newItems, deletedItems, set, pc, count, oldItems,
                   history>>

\* VirtualQueryEx fails past the last page, and always after the exit.
EndWalk ==
    /\ pc = "walk" /\ (~running \/ address = Pages)
    /\ pc' = "idle"
    /\ UNCHANGED <<target, lists, count, address, oldItems, history>>

Next == \/ \E first \in Page, end \in 1 .. Pages, a \in Attribute :
               first < end /\ Change(first, end, a)
        \/ Exit
        \/ EnumRegions
        \/ Step
        \/ EndWalk

Spec == Init /\ [][Next]_vars
FairSpec == Spec /\ WF_vars(Step \/ EndWalk)

-----------------------------------------------------------------------------
(* Properties. *)

\* Every variable has its type.
TypeOK ==
    /\ memory \in [Page -> Attribute] /\ running \in BOOLEAN
    /\ items \in Seq(MemoryRegionItem)
    /\ newItems \subseteq Region /\ deletedItems \subseteq Region
    /\ set \subseteq Region /\ oldItems \subseteq Region
    /\ pc \in {"idle", "walk"} /\ count \in 0 .. Pages
    /\ address \in 0 .. Pages
    /\ before \subseteq seen /\ seen \subseteq Region

\* The regions of a walk follow each other from the first page without a gap
\* or an overlap, whatever the target changes while the walk goes on.
WalkIsContiguous ==
    /\ \A i \in DOMAIN items :
           items[i].BaseAddress =
               IF i = 1 THEN 0
               ELSE items[i - 1].BaseAddress + items[i - 1].RegionSize
    /\ pc = "idle" /\ running /\ items # <<>> =>
           items[Len(items)].BaseAddress + items[Len(items)].RegionSize = Pages

\* The new regions are exactly those of this walk that no earlier walk found;
\* one that was gone and came back is not among them.
NewWasNeverSeen == count # 0 => newItems = Found \ seen

\* Every region that the walk before found and this one did not is reported
\* as an old one, if this one found anything.
GoneIsReported ==
    pc = "idle" /\ count # 0 /\ items # <<>> =>
        before \ Found \subseteq deletedItems

\* Changes of the address space cannot keep a walk from ending.
WalkEnds == pc = "walk" ~> pc = "idle"
=============================================================================
