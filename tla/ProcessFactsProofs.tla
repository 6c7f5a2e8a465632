------------------------- MODULE ProcessFactsProofs -------------------------
(***************************************************************************)
(* For any number of processes, any reuse of ids and lists of any age: the *)
(* parent that a row names is the parent of its process, and what is kept  *)
(* for a running process was read from that process.                       *)
(***************************************************************************)
EXTENDS ProcessFacts, TLAPS

\* The system: keys and, of the processes that run, ids belong to one process,
\* and no process was created in the future.
SystemOK ==
    /\ \A p, q \in started : p.Key = q.Key => p = q
    /\ \A p, q \in alive : p.Key.Id = q.Key.Id => p = q
    /\ \A p \in started : p.Key.Created <= clock

\* A snapshot has an id once.
ListOK == \A p, q \in listed : p.Key.Id = q.Key.Id => p = q

\* S has no impostor for p: who has the id of p's parent in S is the parent
\* or is not older than p.
NoImpostor(p, S) ==
    \A q \in S : q.Key.Id = p.Parent.Id =>
                     q.Key = p.Parent \/ q.Key.Created >= p.Key.Created

\* No process that runs has taken the parent's id and looks older; and no list
\* that is shown beside a row has one that does.
ParentsOK ==
    /\ \A p \in started : NoImpostor(p, alive)
    /\ \A p \in rows : NoImpostor(p, listed)

\* Infos are kept for processes that did start.
InfosOK ==
    /\ \A k \in DOMAIN infos : \E p \in started : p.Key = k
    /\ \A p \in started : p.Key \in DOMAIN infos /\ IsParent(infos[p.Key].seen, p)
                              => infos[p.Key].seen = p.Parent
    /\ \A p \in alive : p.Key \in DOMAIN infos =>
           {infos[p.Key].attributes, infos[p.Key].executablePath}
               \subseteq {NotComputed, Denied, p.Key}

Inv == TypeOK /\ SystemOK /\ ListOK /\ ParentsOK /\ InfosOK

-----------------------------------------------------------------------------
(* The lookups by id. *)

\* Key 0 is no process.
LEMMA NoKeyIsNoKey == NoKey \notin Key
BY ZeroIsNoPid DEF NoKey, Key

\* The parent's id leads to somebody who has it, or to nobody.
LEMMA ListedByIdFinds ==
    ASSUME NEW id
    PROVE  \/ ListedById(id) = NoKey
           \/ \E q \in listed : q.Key.Id = id /\ ListedById(id) = q.Key
BY DEF ListedById

\* If the list has no impostor for p, the test of the parent column is right.
LEMMA NamedIsParent ==
    ASSUME TypeOK, NEW p \in started, NoImpostor(p, listed),
           IsParent(ListedById(p.Parent.Id), p)
    PROVE  ListedById(p.Parent.Id) = p.Parent
<1>1. PICK q \in listed :
          q.Key.Id = p.Parent.Id /\ ListedById(p.Parent.Id) = q.Key
  BY ListedByIdFinds DEF IsParent
<1>2. q.Key.Created \in Nat /\ p.Key.Created \in Nat
  BY DEF TypeOK, Process, Key
<1>3. q.Key.Created < p.Key.Created
  BY <1>1 DEF IsParent
<1>4. QED
  BY <1>1, <1>2, <1>3 DEF NoImpostor

-----------------------------------------------------------------------------
(* The steps of the system. *)

LEMMA InvInit == Init => Inv
BY BoundsAreNat
DEF Init, Inv, TypeOK, SystemOK, ListOK, ParentsOK, NoImpostor, InfosOK

LEMMA InvTick ==
    ASSUME Inv, Tick
    PROVE  Inv'
<1>1. clock \in Nat /\ clock' = clock + 1 /\ clock' \in 0 .. MaxTime
          /\ UNCHANGED <<started, alive, listed, rows, infos>>
  BY BoundsAreNat DEF Tick, Inv, TypeOK
<1>2. \A p \in started : p.Key.Created <= clock'
  BY <1>1 DEF Inv, SystemOK, TypeOK, Process, Key
<1>3. QED
  BY <1>1, <1>2
  DEF Inv, TypeOK, SystemOK, ListOK, ParentsOK, NoImpostor, InfosOK, IsParent

\* The new process is the youngest, so it is nobody's false parent; and its
\* own parent runs, so nobody else has the parent's id.
LEMMA InvStart ==
    ASSUME Inv, NEW id \in Pid,
           NEW parent \in {q.Key : q \in alive} \cup {NoKey},
           StartProcess(id, parent)
    PROVE  Inv'
<1>. DEFINE new == [Key |-> [Id |-> id, Created |-> clock], Parent |-> parent]
<1>. USE DEF Inv
<1>1. /\ \A q \in alive : q.Key.Id # id
      /\ \A q \in started : q.Key # new.Key
      /\ started' = started \cup {new} /\ alive' = alive \cup {new}
      /\ UNCHANGED <<clock, listed, rows, infos>>
  BY DEF StartProcess
<1>2. new.Key = [Id |-> id, Created |-> clock] /\ new.Parent = parent
          /\ new.Key \in Key /\ new.Key.Id = id /\ new.Key.Created = clock
  BY DEF TypeOK, Key
<1>3. parent \in Key \cup {NoKey} /\ new \in Process
  BY <1>2 DEF TypeOK, Process
<1>4. TypeOK'
  BY <1>1, <1>3 DEF TypeOK
<1>5. SystemOK'
  BY <1>1, <1>2 DEF SystemOK, TypeOK
<1>6. ListOK'
  BY <1>1 DEF ListOK
<1>7. NoImpostor(new, alive')
  <2>1. CASE parent = NoKey
    BY <1>1, <1>2, <2>1, ZeroIsNoPid
    DEF NoImpostor, NoKey, TypeOK, Process, Key
  <2>2. ASSUME NEW r \in alive, parent = r.Key
        PROVE  NoImpostor(new, alive')
    <3>1. ASSUME NEW q \in alive', q.Key.Id = new.Parent.Id
          PROVE  q.Key = new.Parent
      BY <1>1, <1>2, <2>2, <3>1 DEF SystemOK
    <3>2. QED
      BY <3>1 DEF NoImpostor
  <2>3. QED
    BY <2>1, <2>2
<1>8. ASSUME NEW p \in started PROVE NoImpostor(p, alive')
  <2>1. new.Key.Created >= p.Key.Created
    BY <1>2 DEF SystemOK, TypeOK, Process, Key
  <2>2. QED
    BY <1>1, <2>1 DEF ParentsOK, NoImpostor
<1>9. ParentsOK'
  BY <1>1, <1>7, <1>8 DEF ParentsOK, NoImpostor
<1>10. new.Key \notin DOMAIN infos
  BY <1>1 DEF InfosOK
<1>11. InfosOK'
  BY <1>1, <1>10 DEF InfosOK, IsParent
<1>12. QED
  BY <1>4, <1>5, <1>6, <1>9, <1>11

LEMMA InvExit ==
    ASSUME Inv, NEW p \in alive, ExitProcess(p)
    PROVE  Inv'
BY DEF ExitProcess, Inv, TypeOK, SystemOK, ListOK, ParentsOK, NoImpostor,
       InfosOK, IsParent

-----------------------------------------------------------------------------
(* The steps of the view. *)

\* Every row is as old as the new list or older.
LEMMA InvUpdate ==
    ASSUME Inv, DoUpdate
    PROVE  Inv'
<1>. USE DEF DoUpdate, Inv
<1>1. TypeOK' /\ SystemOK' /\ ListOK'
  BY DEF TypeOK, SystemOK, ListOK
<1>2. ParentsOK'
  BY DEF TypeOK, ParentsOK, NoImpostor
<1>3. InfosOK'
  BY DEF InfosOK, IsParent
<1>4. QED
  BY <1>1, <1>2, <1>3

LEMMA InvRemove ==
    ASSUME Inv, NEW p \in rows, RemoveRow(p)
    PROVE  Inv'
<1>. USE DEF RemoveRow, Inv
<1>1. TypeOK' /\ SystemOK' /\ ListOK'
  BY DEF TypeOK, SystemOK, ListOK
<1>2. ParentsOK'
  BY DEF ParentsOK, NoImpostor
<1>3. InfosOK'
  BY DEF InfosOK, IsParent
<1>4. QED
  BY <1>1, <1>2, <1>3

\* To keep an info for a row, it is enough that this info is right.
LEMMA InvKeep ==
    ASSUME Inv, NEW p \in rows, NEW info \in ProcessInfoEx, Keep(p, info),
           IsParent(info.seen, p) => info.seen = p.Parent,
           p \in alive => {info.attributes, info.executablePath}
                              \subseteq {NotComputed, Denied, p.Key}
    PROVE  Inv'
<1>. USE DEF Inv
<1>1. /\ DOMAIN infos' = DOMAIN infos \cup {p.Key}
      /\ infos'[p.Key] = info
      /\ \A k \in DOMAIN infos \ {p.Key} : infos'[k] = infos[k]
      /\ UNCHANGED <<clock, started, alive, listed, rows>>
  BY DEF Keep, InfoKey
<1>2. p \in started /\ p.Key \in Key
  BY DEF TypeOK, Process
<1>3. TypeOK'
  BY <1>1, <1>2 DEF TypeOK
<1>4. SystemOK' /\ ListOK' /\ ParentsOK'
  BY <1>1 DEF SystemOK, ListOK, ParentsOK, NoImpostor
<1>5. \A q \in started : q.Key = p.Key => q = p
  BY <1>2 DEF SystemOK
<1>6. InfosOK'
  <2>1. \A k \in DOMAIN infos' : \E q \in started' : q.Key = k
    BY <1>1, <1>2 DEF InfosOK
  <2>2. ASSUME NEW q \in started, q.Key \in DOMAIN infos',
               IsParent(infos'[q.Key].seen, q)
        PROVE  infos'[q.Key].seen = q.Parent
    <3>1. CASE q = p
      BY <1>1, <2>2, <3>1
    <3>2. CASE q # p
      BY <1>1, <1>5, <2>2, <3>2 DEF InfosOK
    <3>3. QED
      BY <3>1, <3>2
  <2>3. ASSUME NEW q \in alive, q.Key \in DOMAIN infos'
        PROVE  {infos'[q.Key].attributes, infos'[q.Key].executablePath}
                   \subseteq {NotComputed, Denied, q.Key}
    <3>1. CASE q = p
      BY <1>1, <3>1
    <3>2. CASE q # p
      BY <1>1, <1>5, <2>3, <3>2 DEF InfosOK, TypeOK
    <3>3. QED
      BY <3>1, <3>2
  <2>4. QED
    BY <1>1, <2>1, <2>2, <2>3 DEF InfosOK, IsParent
<1>7. QED
  BY <1>3, <1>4, <1>6

\* What a row's info is before a fact is added to it.
LEMMA InfoIsRight ==
    ASSUME Inv, NEW p \in rows
    PROVE  LET info == GetProcessInfoEx(p) IN
           /\ info \in ProcessInfoEx
           /\ IsParent(info.seen, p) => info.seen = p.Parent
           /\ p \in alive => {info.attributes, info.executablePath}
                                 \subseteq {NotComputed, Denied, p.Key}
<1>1. p \in started
  BY DEF Inv, TypeOK
<1>2. CASE p.Key \in DOMAIN infos
  BY <1>1, <1>2 DEF GetProcessInfoEx, InfoKey, Inv, TypeOK, InfosOK
<1>3. CASE p.Key \notin DOMAIN infos
  BY <1>3 DEF GetProcessInfoEx, InfoKey, NewInfo, ProcessInfoEx, Fact, IsParent
<1>4. QED
  BY <1>2, <1>3

\* Of a running process, its id leads to itself.
LEMMA OpenFinds ==
    ASSUME Inv, NEW p \in rows, NEW fact \in OpenById(p.Key.Id)
    PROVE  fact \in Fact /\ (p \in alive => fact \in {Denied, p.Key})
<1>1. fact = Denied \/ \E q \in alive : q.Key.Id = p.Key.Id /\ fact = q.Key
  BY DEF OpenById
<1>2. QED
  BY <1>1 DEF Inv, TypeOK, SystemOK, Fact, Process

LEMMA InvAttributes ==
    ASSUME Inv, NEW p \in rows, GetAttributes(p)
    PROVE  Inv'
<1>. DEFINE info == GetProcessInfoEx(p)
<1>1. PICK fact \in OpenById(p.Key.Id) :
          Keep(p, [info EXCEPT !.attributes = fact,
                               !.seen = IF fact = Denied THEN NoKey
                                        ELSE ListedById(p.Parent.Id)])
  BY DEF GetAttributes
<1>2. /\ info \in ProcessInfoEx
      /\ p \in alive => {info.attributes, info.executablePath}
                            \subseteq {NotComputed, Denied, p.Key}
  BY InfoIsRight
<1>3. fact \in Fact /\ (p \in alive => fact \in {Denied, p.Key})
  BY OpenFinds
<1>. DEFINE seen == IF fact = Denied THEN NoKey ELSE ListedById(p.Parent.Id)
            new == [info EXCEPT !.attributes = fact, !.seen = seen]
<1>4. seen \in Key \cup {NoKey}
  BY ListedByIdFinds DEF Inv, TypeOK, Process
<1>5. IsParent(seen, p) => seen = p.Parent
  <2>1. p \in started /\ NoImpostor(p, listed)
    BY DEF Inv, TypeOK, ParentsOK
  <2>2. QED
    BY <2>1, NamedIsParent DEF Inv, IsParent
<1>6. /\ new \in ProcessInfoEx
      /\ new.attributes = fact /\ new.seen = seen
      /\ new.executablePath = info.executablePath
  BY <1>2, <1>3, <1>4 DEF ProcessInfoEx
<1>7. p \in alive => {new.attributes, new.executablePath}
                         \subseteq {NotComputed, Denied, p.Key}
  BY <1>2, <1>3, <1>6
<1>8. Keep(p, new) /\ (IsParent(new.seen, p) => new.seen = p.Parent)
  BY <1>1, <1>5, <1>6
<1>. HIDE DEF new
<1>9. QED
  BY <1>6, <1>7, <1>8, InvKeep

LEMMA InvPath ==
    ASSUME Inv, NEW p \in rows, GetExecutablePath(p)
    PROVE  Inv'
<1>. DEFINE info == GetProcessInfoEx(p)
<1>1. PICK fact \in OpenById(p.Key.Id) :
          Keep(p, [info EXCEPT !.executablePath = fact])
  BY DEF GetExecutablePath
<1>2. /\ info \in ProcessInfoEx
      /\ IsParent(info.seen, p) => info.seen = p.Parent
      /\ p \in alive => {info.attributes, info.executablePath}
                            \subseteq {NotComputed, Denied, p.Key}
  BY InfoIsRight
<1>3. fact \in Fact /\ (p \in alive => fact \in {Denied, p.Key})
  BY OpenFinds
<1>. DEFINE new == [info EXCEPT !.executablePath = fact]
<1>4. /\ new \in ProcessInfoEx
      /\ new.attributes = info.attributes /\ new.seen = info.seen
      /\ new.executablePath = fact
  BY <1>2, <1>3 DEF ProcessInfoEx
<1>5. p \in alive => {new.attributes, new.executablePath}
                         \subseteq {NotComputed, Denied, p.Key}
  BY <1>2, <1>3, <1>4
<1>6. Keep(p, new) /\ (IsParent(new.seen, p) => new.seen = p.Parent)
  BY <1>1, <1>2, <1>4
<1>. HIDE DEF new
<1>7. QED
  BY <1>4, <1>5, <1>6, InvKeep

-----------------------------------------------------------------------------

LEMMA InvNext == Inv /\ [Next]_vars => Inv'
<1>. SUFFICES ASSUME Inv, [Next]_vars PROVE Inv'
  OBVIOUS
<1>1. CASE System
  BY <1>1, InvTick, InvStart, InvExit DEF System
<1>2. CASE View
  BY <1>2, InvUpdate, InvRemove, InvAttributes, InvPath DEF View, BuildRow
<1>3. CASE UNCHANGED vars
  BY <1>3
  DEF vars, Inv, TypeOK, SystemOK, ListOK, ParentsOK, NoImpostor, InfosOK,
      IsParent
<1>4. QED
  BY <1>1, <1>2, <1>3 DEF Next

LEMMA Invariance == Spec => []Inv
<1>1. Init => Inv
  BY InvInit
<1>2. Inv /\ [Next]_vars => Inv'
  BY InvNext
<1>3. QED
  BY <1>1, <1>2, PTL DEF Spec

-----------------------------------------------------------------------------
(* The theorems. *)

\* Every variable keeps its type.
THEOREM TypeCorrect == Spec => []TypeOK
<1>1. Inv => TypeOK
  BY DEF Inv
<1>2. QED
  BY <1>1, Invariance, PTL

\* Comparing the creation times is enough: a process that the parent column
\* names is the parent, whoever had or has its id.
THEOREM NamedParentIsAlwaysParent == Spec => []NamedParentIsParent
<1>1. Inv => NamedParentIsParent
  <2>. SUFFICES ASSUME Inv, NEW p \in rows
                PROVE  /\ IsParent(ListedById(p.Parent.Id), p) =>
                              ListedById(p.Parent.Id) = p.Parent
                       /\ IsParent(GetProcessInfoEx(p).seen, p) =>
                              GetProcessInfoEx(p).seen = p.Parent
    BY DEF NamedParentIsParent
  <2>1. p \in started /\ NoImpostor(p, listed)
    BY DEF Inv, TypeOK, ParentsOK
  <2>2. QED
    BY <2>1, NamedIsParent, InfoIsRight DEF Inv
<1>2. QED
  BY <1>1, Invariance, PTL

\* What is kept for a running process was read from that process.
THEOREM FactsAreAlwaysOwn == Spec => []FactsAreOwn
<1>1. Inv => FactsAreOwn
  BY InfoIsRight DEF FactsAreOwn
<1>2. QED
  BY <1>1, Invariance, PTL
=============================================================================
