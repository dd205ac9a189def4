------------------------- MODULE CharacterStoreProofs -------------------------
(***************************************************************************)
(* Theorems about CharacterStore, for any accounts, connections, names and *)
(* limits.                                                                 *)
(***************************************************************************)
EXTENDS CharacterStore, SequenceTheorems, FiniteSetTheorems, TLAPS

\* A request in progress refers to a row that exists; what a deletion or a
\* selection has read agrees with that row on its name and its owner, although
\* others may have deleted or restored the row since.
Holds(p, id, row) ==
    /\ id \in Ids
    /\ row.name = characters[id].name
    /\ row.account = AccountOf[p]
    /\ Owner(characters[id]) = AccountOf[p]

ViewInv ==
    \A v \in Viewers :
        /\ view[v].pc \in {"looks", "stats", "jobs"} => view[v].id \in Ids
        /\ view[v].pc \in {"stats", "jobs"} => view[v].id \in looks
        /\ view[v].pc = "jobs" => view[v].id \in stats
        /\ view[v].pc = "delete" => Holds(v, view[v].id, view[v].row)

DataInv ==
    \A d \in Selectors :
        data[d].pc = "update" => Holds(d, data[d].id, data[d].row)

StoreInv ==
    TypeOK /\ ViewInv /\ DataInv /\ IncompleteExplained /\ NamesUnique

\* A row after an insert.
LEMMA AppendRow ==
    ASSUME TypeOK, NEW row \in Row, characters' = Append(characters, row)
    PROVE  /\ characters' \in Seq(Row)
           /\ Len(characters) + 1 \in Nat
           /\ DOMAIN characters' = Ids \cup {Len(characters) + 1}
           /\ Len(characters) + 1 \notin Ids
           /\ \A id \in Ids : characters'[id] = characters[id]
           /\ characters'[Len(characters) + 1] = row
<1>1. characters \in Seq(Row) /\ Len(characters) \in Nat
  BY DEF TypeOK
<1>2. DOMAIN characters = 1 .. Len(characters)
  BY <1>1
<1>3. DOMAIN characters' = 1 .. Len(characters) + 1
  BY <1>1, AppendProperties
<1>4. \A id \in 1 .. Len(characters) : characters'[id] = characters[id]
  BY <1>1, AppendProperties
<1>5. 1 .. Len(characters) + 1 = 1 .. Len(characters) \cup {Len(characters) + 1}
  BY <1>1
<1>6. Len(characters) + 1 \notin 1 .. Len(characters)
  BY <1>1
<1>. QED BY <1>1, <1>2, <1>3, <1>4, <1>5, <1>6, AppendProperties DEF Ids

\* A row after an update of all its columns.
LEMMA UpdateRow ==
    ASSUME TypeOK, NEW i \in Ids, NEW row \in Row,
           characters' = [characters EXCEPT ![i] = row]
    PROVE  /\ characters' \in Seq(Row)
           /\ DOMAIN characters' = Ids
           /\ characters'[i] = row
           /\ \A id \in Ids \ {i} : characters'[id] = characters[id]
<1>1. characters \in Seq(Row) /\ Len(characters) \in Nat
  BY DEF TypeOK
<1>2. DOMAIN characters = 1 .. Len(characters)
  BY <1>1
<1>3. characters' \in Seq(Row)
  BY <1>1, <1>2, ExceptSeq DEF Ids
<1>. QED BY <1>2, <1>3 DEF Ids

LEMMA InitStore == Init => StoreInv
BY CharacterAssumption DEF Init, StoreInv, TypeOK, ViewInv, DataInv, Holds,
    IncompleteExplained, NamesUnique, IdleView, IdleData, NoRow, Row,
    ViewState, DataState, Ids

\* Writing back a row with the same name and owner disturbs no other request.
LEMMA ReplaceRow ==
    ASSUME StoreInv, NEW i \in Ids, NEW row \in Row,
           characters' = [characters EXCEPT ![i] = row],
           row.name = characters[i].name, Owner(row) = Owner(characters[i])
    PROVE  /\ characters' \in Seq(Row)
           /\ Ids' = Ids
           /\ \A id \in Ids : /\ characters'[id].name = characters[id].name
                             /\ Owner(characters'[id]) = Owner(characters[id])
           /\ NamesUnique'
<1>1. /\ characters' \in Seq(Row) /\ DOMAIN characters' = Ids
      /\ characters'[i] = row
      /\ \A id \in Ids \ {i} : characters'[id] = characters[id]
  BY UpdateRow DEF StoreInv
<1>2. \A id \in Ids : /\ characters'[id].name = characters[id].name
                    /\ Owner(characters'[id]) = Owner(characters[id])
  BY <1>1
<1>3. NamesUnique'
  BY <1>1, <1>2 DEF StoreInv, NamesUnique, Ids
<1>. QED BY <1>1, <1>2, <1>3 DEF Ids

Creating(v) == view[v].pc \in {"looks", "stats", "jobs"}

\* A step of one view connection that leaves the characters' rows alone.
LEMMA ViewFrame ==
    ASSUME StoreInv, NEW v \in Viewers, NEW w \in ViewState,
           view' = [view EXCEPT ![v] = w],
           UNCHANGED <<characters, data>>,
           looks \subseteq looks', stats \subseteq stats', jobs \subseteq jobs',
           interrupted \subseteq interrupted',
           looks' \subseteq Ids, stats' \subseteq Ids, jobs' \subseteq Ids,
           interrupted' \subseteq Ids,
           w.pc \in {"looks", "stats", "jobs"} => w.id \in Ids,
           w.pc \in {"stats", "jobs"} => w.id \in looks',
           w.pc = "jobs" => w.id \in stats',
           w.pc = "delete" => Holds(v, w.id, w.row),
           Creating(v) => \/ w.pc \in {"looks", "stats", "jobs"} /\ w.id = view[v].id
                          \/ view[v].id \in interrupted'
                          \/ view[v].id \in looks' \cap stats' \cap jobs'
    PROVE  StoreInv'
<1>1. /\ view'[v] = w /\ view' \in [Viewers -> ViewState]
      /\ \A u \in Viewers \ {v} : view'[u] = view[u]
  BY DEF StoreInv, TypeOK
<1>2. Ids' = Ids /\ NamesUnique'
  BY DEF Ids, StoreInv, NamesUnique
<1>3. TypeOK'
  BY <1>1, <1>2 DEF StoreInv, TypeOK
<1>4. ViewInv'
  BY <1>1, <1>2 DEF StoreInv, ViewInv, Holds
<1>5. DataInv'
  BY <1>2 DEF StoreInv, DataInv, Holds
<1>6. ASSUME NEW id \in Ids
      PROVE  \/ id \in looks' \cap stats' \cap jobs'
             \/ id \in interrupted'
             \/ \E u \in Viewers : /\ view'[u].pc \in {"looks", "stats", "jobs"}
                                  /\ view'[u].id = id
  BY <1>1 DEF StoreInv, IncompleteExplained, Creating
<1>7. IncompleteExplained'
  BY <1>2, <1>6 DEF IncompleteExplained
<1>. QED BY <1>2, <1>3, <1>4, <1>5, <1>7 DEF StoreInv

\* A step of one data connection that leaves the characters' rows alone.
LEMMA DataFrame ==
    ASSUME StoreInv, NEW d \in Selectors, NEW w \in DataState,
           data' = [data EXCEPT ![d] = w],
           UNCHANGED <<characters, details, view>>,
           w.pc = "update" => Holds(d, w.id, w.row)
    PROVE  StoreInv'
<1>1. /\ data'[d] = w /\ data' \in [Selectors -> DataState]
      /\ \A u \in Selectors \ {d} : data'[u] = data[u]
  BY DEF StoreInv, TypeOK
<1>2. Ids' = Ids /\ NamesUnique' /\ IncompleteExplained'
  BY DEF details, Ids, StoreInv, NamesUnique, IncompleteExplained
<1>3. TypeOK'
  BY <1>1, <1>2 DEF details, StoreInv, TypeOK
<1>4. ViewInv'
  BY <1>2 DEF details, StoreInv, ViewInv, Holds
<1>5. DataInv'
  BY <1>1, <1>2 DEF StoreInv, DataInv, Holds
<1>. QED BY <1>2, <1>3, <1>4, <1>5 DEF StoreInv

LEMMA StoreStep == StoreInv /\ [Next]_vars => StoreInv'
<1> SUFFICES ASSUME StoreInv, [Next]_vars PROVE StoreInv'
  OBVIOUS
<1>1. ASSUME NEW v \in Viewers, NEW name \in Names, CreateCharacterPre(v, name)
      PROVE  StoreInv'
  <2> DEFINE w == IF CharacterNameExists(name) THEN IdleView
                                               ELSE [IdleView EXCEPT !.requested = name]
  <2>1. w \in ViewState /\ view' = [view EXCEPT ![v] = w]
    BY <1>1 DEF CreateCharacterPre, StoreInv, TypeOK, ViewState, IdleView, NoRow, Row
  <2>2. /\ looks \subseteq Ids /\ stats \subseteq Ids /\ jobs \subseteq Ids
        /\ interrupted \subseteq Ids
        /\ Creating(v) => view[v].id \in Ids
        /\ view[v].pc \in {"stats", "jobs"} => view[v].id \in looks
        /\ view[v].pc = "jobs" => view[v].id \in stats
    BY DEF StoreInv, TypeOK, ViewInv, Creating
  <2>. QED BY <1>1, <2>1, <2>2, ViewFrame DEF CreateCharacterPre, details, Creating, IdleView, NoRow, Row
<1>2. ASSUME NEW v \in Viewers, CreateCharacter(v) PROVE StoreInv'
  <2> DEFINE w == [view[v] EXCEPT !.pc = "character"]
  <2>1. w \in ViewState /\ view' = [view EXCEPT ![v] = w]
    BY <1>2 DEF CreateCharacter, StoreInv, TypeOK, ViewState
  <2>2. /\ looks \subseteq Ids /\ stats \subseteq Ids /\ jobs \subseteq Ids
        /\ interrupted \subseteq Ids
        /\ Creating(v) => view[v].id \in Ids
        /\ view[v].pc \in {"stats", "jobs"} => view[v].id \in looks
        /\ view[v].pc = "jobs" => view[v].id \in stats
    BY DEF StoreInv, TypeOK, ViewInv, Creating
  <2>3. view[v].pc = "idle" /\ w.pc = "character" /\ w.id = view[v].id
    BY <1>2 DEF CreateCharacter, StoreInv, TypeOK, ViewState
  <2> HIDE DEF w
  <2>. QED BY <1>2, <2>1, <2>2, <2>3, ViewFrame DEF CreateCharacter, details, Creating
<1>3. ASSUME NEW v \in Viewers, SaveCharacter(v) PROVE StoreInv'
  <2> DEFINE row == [account |-> AccountOf[v], original |-> NoAccount,
                     name |-> view[v].requested]
             new == Len(characters) + 1
             w == [view[v] EXCEPT !.pc = "looks", !.id = new]
  <2>1. row \in Row
    BY CharacterAssumption DEF StoreInv, TypeOK, ViewState, Row
  <2>2. /\ characters' = Append(characters, row) /\ UNCHANGED <<details, data>>
        /\ view' = [view EXCEPT ![v] = w]
    BY <1>3 DEF SaveCharacter, StoreInv, TypeOK, ViewState
  <2>3. /\ characters' \in Seq(Row) /\ new \in Nat
        /\ DOMAIN characters' = Ids \cup {new} /\ new \notin Ids
        /\ \A id \in Ids : characters'[id] = characters[id]
        /\ characters'[new] = row
    BY <2>1, <2>2, AppendRow DEF StoreInv
  <2>4. \A id \in Ids : characters[id].name # row.name
    BY <1>3 DEF SaveCharacter, NameIsUnique, CharacterNameExists
  <2>5. /\ w \in ViewState /\ w.pc = "looks" /\ w.id = new
        /\ view[v].pc = "character"
    BY <1>3, <2>3 DEF SaveCharacter, StoreInv, TypeOK, ViewState
  <2> HIDE DEF row, new, w
  <2>6. /\ view'[v] = w /\ view' \in [Viewers -> ViewState]
        /\ \A u \in Viewers \ {v} : view'[u] = view[u]
    BY <2>2, <2>5 DEF StoreInv, TypeOK
  <2>7. Ids' = Ids \cup {new}
    BY <2>3 DEF Ids
  <2>8. TypeOK'
    BY <2>2, <2>3, <2>6, <2>7 DEF details, StoreInv, TypeOK
  <2>9. ViewInv'
    BY <2>2, <2>3, <2>5, <2>6, <2>7 DEF details, StoreInv, ViewInv, Holds
  <2>10. DataInv'
    BY <2>2, <2>3, <2>7 DEF StoreInv, DataInv, Holds
  <2>11. ASSUME NEW id \in Ids'
         PROVE  \/ id \in looks' \cap stats' \cap jobs'
                \/ id \in interrupted'
                \/ \E u \in Viewers : /\ view'[u].pc \in {"looks", "stats", "jobs"}
                                     /\ view'[u].id = id
    <3>1. CASE id = new
      BY <2>5, <2>6, <3>1
    <3>2. CASE id \in Ids
      BY <2>2, <2>5, <2>6, <3>2 DEF details, StoreInv, IncompleteExplained
    <3>. QED BY <2>7, <3>1, <3>2
  <2>12. IncompleteExplained'
    BY <2>11 DEF IncompleteExplained
  <2>13. NamesUnique'
    BY <2>3, <2>4, <2>7 DEF StoreInv, NamesUnique
  <2>. QED BY <2>8, <2>9, <2>10, <2>12, <2>13 DEF StoreInv
<1>4. ASSUME NEW v \in Viewers, SaveLooks(v) PROVE StoreInv'
  <2> DEFINE w == [view[v] EXCEPT !.pc = "stats"]
  <2>1. w \in ViewState /\ view' = [view EXCEPT ![v] = w]
    BY <1>4 DEF SaveLooks, StoreInv, TypeOK, ViewState
  <2>2. /\ looks \subseteq Ids /\ stats \subseteq Ids /\ jobs \subseteq Ids
        /\ interrupted \subseteq Ids
        /\ Creating(v) => view[v].id \in Ids
        /\ view[v].pc \in {"stats", "jobs"} => view[v].id \in looks
        /\ view[v].pc = "jobs" => view[v].id \in stats
    BY DEF StoreInv, TypeOK, ViewInv, Creating
  <2>3. view[v].pc = "looks" /\ w.pc = "stats" /\ w.id = view[v].id
    BY <1>4 DEF SaveLooks, StoreInv, TypeOK, ViewState
  <2> HIDE DEF w
  <2>. QED BY <1>4, <2>1, <2>2, <2>3, ViewFrame DEF SaveLooks, details, Creating
<1>5. ASSUME NEW v \in Viewers, SaveStats(v) PROVE StoreInv'
  <2> DEFINE w == [view[v] EXCEPT !.pc = "jobs"]
  <2>1. w \in ViewState /\ view' = [view EXCEPT ![v] = w]
    BY <1>5 DEF SaveStats, StoreInv, TypeOK, ViewState
  <2>2. /\ looks \subseteq Ids /\ stats \subseteq Ids /\ jobs \subseteq Ids
        /\ interrupted \subseteq Ids
        /\ Creating(v) => view[v].id \in Ids
        /\ view[v].pc \in {"stats", "jobs"} => view[v].id \in looks
        /\ view[v].pc = "jobs" => view[v].id \in stats
    BY DEF StoreInv, TypeOK, ViewInv, Creating
  <2>3. view[v].pc = "stats" /\ w.pc = "jobs" /\ w.id = view[v].id
    BY <1>5 DEF SaveStats, StoreInv, TypeOK, ViewState
  <2> HIDE DEF w
  <2>. QED BY <1>5, <2>1, <2>2, <2>3, ViewFrame DEF SaveStats, details, Creating
<1>6. ASSUME NEW v \in Viewers, SaveJobs(v) PROVE StoreInv'
  <2> DEFINE w == [view[v] EXCEPT !.pc = "idle", !.id = 0]
  <2>1. w \in ViewState /\ view' = [view EXCEPT ![v] = w]
    BY <1>6 DEF SaveJobs, StoreInv, TypeOK, ViewState
  <2>2. /\ looks \subseteq Ids /\ stats \subseteq Ids /\ jobs \subseteq Ids
        /\ interrupted \subseteq Ids
        /\ Creating(v) => view[v].id \in Ids
        /\ view[v].pc \in {"stats", "jobs"} => view[v].id \in looks
        /\ view[v].pc = "jobs" => view[v].id \in stats
    BY DEF StoreInv, TypeOK, ViewInv, Creating
  <2>3. view[v].pc = "jobs" /\ w.pc = "idle" /\ w.id = 0
    BY <1>6 DEF SaveJobs, StoreInv, TypeOK, ViewState
  <2> HIDE DEF w
  <2>. QED BY <1>6, <2>1, <2>2, <2>3, ViewFrame DEF SaveJobs, details, Creating
<1>7. ASSUME NEW v \in Viewers, NEW id \in Ids, ReadForDelete(v, id)
      PROVE  StoreInv'
  <2> DEFINE w == [view[v] EXCEPT !.pc = "delete", !.id = id,
                                  !.row = characters[id]]
  <2>1. characters[id] \in Row /\ id \in Nat /\ AccountOf[v] \in Accounts
    BY CharacterAssumption DEF StoreInv, TypeOK, Ids
  <2>2. Holds(v, id, characters[id])
    BY <1>7, <2>1, CharacterAssumption DEF ReadForDelete, Owns, Holds, Owner
  <2>3. /\ w \in ViewState /\ view' = [view EXCEPT ![v] = w]
        /\ w.pc = "delete" /\ w.id = id /\ w.row = characters[id]
        /\ view[v].pc = "idle"
    BY <1>7, <2>1 DEF ReadForDelete, StoreInv, TypeOK, ViewState
  <2>4. /\ looks \subseteq Ids /\ stats \subseteq Ids /\ jobs \subseteq Ids
        /\ interrupted \subseteq Ids
    BY DEF StoreInv, TypeOK
  <2> HIDE DEF w
  <2>. QED BY <1>7, <2>2, <2>3, <2>4, ViewFrame
       DEF ReadForDelete, details, Creating
<1>8. ASSUME NEW v \in Viewers, DeleteCharacter(v) PROVE StoreInv'
  <2> DEFINE i == view[v].id
             row == [view[v].row EXCEPT !.original = view[v].row.account,
                                        !.account = NoAccount]
             w == [view[v] EXCEPT !.pc = "idle", !.id = 0, !.row = NoRow]
  <2>1. /\ view[v].row \in Row /\ AccountOf[v] \in Accounts /\ i \in Ids
        /\ view[v].row.name = characters[i].name
        /\ view[v].row.account = AccountOf[v]
        /\ Owner(characters[i]) = AccountOf[v]
    BY <1>8, CharacterAssumption
       DEF DeleteCharacter, StoreInv, ViewInv, TypeOK, ViewState, Holds
  <2>2. /\ row \in Row /\ row.name = characters[i].name
        /\ Owner(row) = Owner(characters[i])
    BY <2>1, CharacterAssumption DEF Owner, Row
  <2>3. /\ characters' = [characters EXCEPT ![i] = row]
        /\ view' = [view EXCEPT ![v] = w]
        /\ UNCHANGED <<details, data>>
        /\ view[v].pc = "delete" /\ w.pc = "idle" /\ w \in ViewState
    BY <1>8, CharacterAssumption
       DEF DeleteCharacter, StoreInv, TypeOK, ViewState, NoRow, Row
  <2> HIDE DEF i, row, w
  <2>4. /\ characters' \in Seq(Row) /\ Ids' = Ids /\ NamesUnique'
        /\ \A id \in Ids : /\ characters'[id].name = characters[id].name
                          /\ Owner(characters'[id]) = Owner(characters[id])
    BY <2>1, <2>2, <2>3, ReplaceRow
  <2>5. /\ view'[v] = w /\ view' \in [Viewers -> ViewState]
        /\ \A u \in Viewers \ {v} : view'[u] = view[u]
    BY <2>3 DEF StoreInv, TypeOK
  <2>6. TypeOK'
    BY <2>3, <2>4, <2>5 DEF details, StoreInv, TypeOK
  <2>7. ViewInv'
    BY <2>3, <2>4, <2>5 DEF details, StoreInv, ViewInv, Holds
  <2>8. DataInv'
    BY <2>3, <2>4 DEF StoreInv, DataInv, Holds
  <2>9. IncompleteExplained'
    BY <2>3, <2>4, <2>5 DEF details, StoreInv, IncompleteExplained
  <2>. QED BY <2>4, <2>6, <2>7, <2>8, <2>9 DEF StoreInv
<1>9. ASSUME NEW v \in Viewers, ViewFails(v) PROVE StoreInv'
  <2> DEFINE w == IdleView
  <2>1. w \in ViewState /\ view' = [view EXCEPT ![v] = w]
    BY <1>9 DEF ViewFails, StoreInv, TypeOK, ViewState, IdleView, NoRow, Row
  <2>2. /\ looks \subseteq Ids /\ stats \subseteq Ids /\ jobs \subseteq Ids
        /\ interrupted \subseteq Ids
        /\ Creating(v) => view[v].id \in Ids
        /\ view[v].pc \in {"stats", "jobs"} => view[v].id \in looks
        /\ view[v].pc = "jobs" => view[v].id \in stats
    BY DEF StoreInv, TypeOK, ViewInv, Creating
  <2>. QED BY <1>9, <2>1, <2>2, ViewFrame DEF ViewFails, details, Creating, IdleView, NoRow, Row
<1>10. ASSUME NEW d \in Selectors, NEW id \in Ids, ReadForSelect(d, id)
       PROVE  StoreInv'
  <2> DEFINE w == [pc |-> "update", id |-> id, row |-> characters[id]]
  <2>1. characters[id] \in Row /\ id \in Nat /\ AccountOf[d] \in Accounts
    BY CharacterAssumption DEF StoreInv, TypeOK, Ids
  <2>2. Holds(d, id, characters[id])
    BY <1>10, <2>1, CharacterAssumption DEF ReadForSelect, Owns, Holds, Owner
  <2>3. w \in DataState /\ w.id = id /\ w.row = characters[id]
    BY <2>1 DEF DataState
  <2>. QED BY <1>10, <2>2, <2>3, DataFrame DEF ReadForSelect
<1>11. ASSUME NEW d \in Selectors, UpdatePrevZone(d) PROVE StoreInv'
  <2> DEFINE i == data[d].id
             row == data[d].row
  <2>1. /\ row \in Row /\ i \in Ids /\ AccountOf[d] \in Accounts
        /\ row.name = characters[i].name /\ row.account = AccountOf[d]
        /\ Owner(characters[i]) = AccountOf[d]
    BY <1>11, CharacterAssumption
       DEF UpdatePrevZone, StoreInv, DataInv, TypeOK, DataState, Holds
  <2>2. Owner(row) = Owner(characters[i])
    BY <2>1, CharacterAssumption DEF Owner
  <2>3. /\ characters' = [characters EXCEPT ![i] = row]
        /\ data' = [data EXCEPT ![d] = IdleData]
        /\ UNCHANGED <<details, view>>
        /\ IdleData \in DataState /\ IdleData.pc = "idle"
    BY <1>11, CharacterAssumption DEF UpdatePrevZone, IdleData, DataState, NoRow, Row
  <2> HIDE DEF i, row
  <2>4. /\ characters' \in Seq(Row) /\ Ids' = Ids /\ NamesUnique'
        /\ \A id \in Ids : /\ characters'[id].name = characters[id].name
                          /\ Owner(characters'[id]) = Owner(characters[id])
    BY <2>1, <2>2, <2>3, ReplaceRow
  <2>5. /\ data'[d].pc = "idle" /\ data' \in [Selectors -> DataState]
        /\ \A u \in Selectors \ {d} : data'[u] = data[u]
    BY <2>3 DEF StoreInv, TypeOK
  <2>6. TypeOK'
    BY <2>3, <2>4, <2>5 DEF details, StoreInv, TypeOK
  <2>7. ViewInv'
    BY <2>3, <2>4 DEF details, StoreInv, ViewInv, Holds
  <2>8. DataInv'
    BY <2>3, <2>4, <2>5 DEF StoreInv, DataInv, Holds
  <2>9. IncompleteExplained'
    BY <2>3, <2>4 DEF details, StoreInv, IncompleteExplained
  <2>. QED BY <2>4, <2>6, <2>7, <2>8, <2>9 DEF StoreInv
<1>12. ASSUME NEW d \in Selectors, DataFails(d) PROVE StoreInv'
  <2>1. IdleData \in DataState /\ IdleData.pc = "idle"
    BY CharacterAssumption DEF IdleData, DataState, NoRow, Row
  <2>. QED BY <1>12, <2>1, DataFrame DEF DataFails
<1>13. CASE UNCHANGED vars
  BY <1>13 DEF vars, details, StoreInv, TypeOK, ViewInv, DataInv, Holds,
               IncompleteExplained, NamesUnique, Ids
<1>. QED
  BY <1>1, <1>2, <1>3, <1>4, <1>5, <1>6, <1>7, <1>8, <1>9, <1>10, <1>11, <1>12,
     <1>13 DEF Next, ViewStep, DataStep

LEMMA StoreInvariant == Spec => []StoreInv
BY InitStore, StoreStep, PTL DEF Spec

\* The tables and the requests in progress are well typed.
THEOREM TypeCorrect == Spec => []TypeOK
<1>1. StoreInv => TypeOK
  BY DEF StoreInv
<1>. QED BY <1>1, StoreInvariant, PTL

\* A character without all of its rows is being created, or its creation was
\* cut short.
THEOREM IncompleteIsExplained == Spec => []IncompleteExplained
<1>1. StoreInv => IncompleteExplained
  BY DEF StoreInv
<1>. QED BY <1>1, StoreInvariant, PTL

\* Names are unique, deleted characters included.
THEOREM NamesAreUnique == Spec => []NamesUnique
<1>1. StoreInv => NamesUnique
  BY DEF StoreInv
<1>. QED BY <1>1, StoreInvariant, PTL

LEMMA OwnersStep ==
    StoreInv /\ [Next]_vars =>
        [\A id \in Ids : characters'[id] # characters[id]
                            => WrittenByOwner(id)]_vars
<1> SUFFICES ASSUME StoreInv, Next,
                    NEW id \in Ids, characters'[id] # characters[id]
             PROVE  WrittenByOwner(id)
  BY DEF vars
<1>1. ASSUME NEW v \in Viewers, SaveCharacter(v) PROVE FALSE
  <2> DEFINE row == [account |-> AccountOf[v], original |-> NoAccount,
                     name |-> view[v].requested]
  <2>1. row \in Row
    BY CharacterAssumption DEF StoreInv, TypeOK, ViewState, Row
  <2>2. characters' = Append(characters, row)
    BY <1>1 DEF SaveCharacter
  <2>. QED BY <2>1, <2>2, AppendRow DEF StoreInv
<1>2. ASSUME NEW v \in Viewers, DeleteCharacter(v) PROVE WrittenByOwner(id)
  <2> DEFINE row == [view[v].row EXCEPT !.original = view[v].row.account,
                                        !.account = NoAccount]
  <2>1. /\ view[v].row \in Row /\ AccountOf[v] \in Accounts
        /\ view[v].id \in Ids /\ view[v].row.account = AccountOf[v]
        /\ Owner(characters[view[v].id]) = AccountOf[v]
    BY <1>2, CharacterAssumption
       DEF DeleteCharacter, StoreInv, ViewInv, TypeOK, ViewState, Holds
  <2>2. row \in Row /\ Owner(row) = AccountOf[v]
    BY <2>1, CharacterAssumption DEF Owner, Row
  <2>3. characters' = [characters EXCEPT ![view[v].id] = row]
    BY <1>2 DEF DeleteCharacter
  <2> HIDE DEF row
  <2>4. id = view[v].id /\ characters'[id] = row
    BY <2>1, <2>2, <2>3, UpdateRow DEF StoreInv
  <2>5. view[v].pc = "delete" /\ view'[v].pc = "idle"
    BY <1>2 DEF DeleteCharacter, StoreInv, TypeOK, ViewState
  <2>6. Moves(v)
    BY <2>5 DEF Moves
  <2>. QED BY <2>1, <2>2, <2>4, <2>6 DEF WrittenByOwner
<1>3. ASSUME NEW d \in Selectors, UpdatePrevZone(d) PROVE WrittenByOwner(id)
  <2>1. /\ data[d].row \in Row /\ AccountOf[d] \in Accounts
        /\ data[d].id \in Ids /\ data[d].row.account = AccountOf[d]
        /\ Owner(characters[data[d].id]) = AccountOf[d]
    BY <1>3, CharacterAssumption
       DEF UpdatePrevZone, StoreInv, DataInv, TypeOK, DataState, Holds
  <2>2. characters' = [characters EXCEPT ![data[d].id] = data[d].row]
    BY <1>3 DEF UpdatePrevZone
  <2>3. id = data[d].id /\ characters'[id] = data[d].row
    BY <2>1, <2>2, UpdateRow DEF StoreInv
  <2>4. data[d].pc = "update" /\ data'[d].pc = "idle" /\ d \notin Viewers
    BY <1>3, CharacterAssumption DEF UpdatePrevZone, IdleData, StoreInv, TypeOK
  <2>5. Moves(d)
    BY <2>4 DEF Moves
  <2>6. Owner(data[d].row) = AccountOf[d]
    BY <2>1, CharacterAssumption DEF Owner
  <2>. QED BY <2>1, <2>3, <2>5, <2>6 DEF WrittenByOwner
<1>. QED
  BY <1>1, <1>2, <1>3 DEF Next, ViewStep, DataStep, CreateCharacterPre,
     CreateCharacter, SaveLooks, SaveStats, SaveJobs, ReadForDelete, ViewFails,
     ReadForSelect, DataFails

\* No interleaving of reads and later writes gives a character to another
\* account, or lets another account's connection write it.
THEOREM OnlyOwnersWrite == Spec => OwnersOnly
<1>. QED BY StoreInvariant, OwnersStep, PTL DEF Spec, OwnersOnly

-----------------------------------------------------------------------------
(* The limit on characters                                                 *)

\* An account that passed the check has room for one more, while its only
\* connection is between the check and the insert.
Room(a) ==
    /\ CountCharactersByAccountID(a) <= MaxContentIDsPerAccount
    /\ \A v \in Viewers :
            AccountOf[v] = a /\ view[v].pc = "character"
                => CountCharactersByAccountID(a) < MaxContentIDsPerAccount

\* What the account's only connection has read for an update is not deleted
\* meanwhile: writing it back brings no character back.
Kept(a) ==
    \A d \in Selectors :
        AccountOf[d] = a /\ data[d].pc = "update"
            => characters[data[d].id].account = a

LimitInv == \A a \in Accounts : UsedAlone(a) => Room(a) /\ Kept(a)

\* An account used alone has one connection.
LEMMA OneConnection ==
    ASSUME NEW a, UsedAlone(a),
           NEW p \in Viewers \cup Selectors, NEW q \in Viewers \cup Selectors,
           AccountOf[p] = a, AccountOf[q] = a
    PROVE  p = q
<1> DEFINE P == {r \in Viewers \cup Selectors : AccountOf[r] = a}
<1> SUFFICES ASSUME p # q PROVE FALSE
  OBVIOUS
<1>1. IsFiniteSet(P) /\ Cardinality(P) \in Nat
  BY FS_Subset, FS_CardinalityType, CharacterAssumption
<1>2. Cardinality(P) <= 1
  BY DEF UsedAlone
<1>3. Cardinality({p} \cup {q}) = 2
  <2>1. IsFiniteSet({p}) /\ Cardinality({p}) = 1
    BY FS_Singleton
  <2>. QED BY <2>1, FS_AddElement
<1>4. {p} \cup {q} \in SUBSET P
  OBVIOUS
<1>5. Cardinality({p} \cup {q}) <= Cardinality(P)
  <2>. HIDE DEF P
  <2>. QED BY <1>1, <1>4, FS_Subset
<1>. QED BY <1>1, <1>2, <1>3, <1>5

\* The ids are finitely many, and so are an account's.
LEMMA CountType ==
    ASSUME TypeOK, NEW a
    PROVE  /\ IsFiniteSet({id \in Ids : characters[id].account = a})
           /\ CountCharactersByAccountID(a) \in Nat
<1>1. Ids = 1 .. Len(characters) /\ Len(characters) \in Nat
  BY DEF TypeOK, Ids
<1>2. IsFiniteSet(Ids)
  BY <1>1, FS_Interval
<1>. QED BY <1>2, FS_Subset, FS_CardinalityType DEF CountCharactersByAccountID

\* A step after which an account has no character it did not have.
LEMMA NoMore ==
    ASSUME TypeOK, TypeOK', NEW a \in Accounts,
           \A id \in Ids' : characters'[id].account = a
                                => id \in Ids /\ characters[id].account = a
    PROVE  CountCharactersByAccountID(a)' <= CountCharactersByAccountID(a)
<1> DEFINE S == {id \in Ids : characters[id].account = a}
           T == {id \in Ids' : characters'[id].account = a}
<1>1. IsFiniteSet(S)
  BY CountType
<1>2. T \in SUBSET S
  OBVIOUS
<1>3. Cardinality(T) <= Cardinality(S)
  <2>. HIDE DEF S, T
  <2>. QED BY <1>1, <1>2, FS_Subset
<1>. QED BY <1>3 DEF CountCharactersByAccountID

\* The room an account has is kept by a step that gives it no character,
\* unless one of its connections passes the check.
LEMMA RoomFrame ==
    ASSUME TypeOK, TypeOK', NEW a \in Accounts, Room(a),
           CountCharactersByAccountID(a)' <= CountCharactersByAccountID(a),
           \A v \in Viewers : AccountOf[v] = a /\ view'[v].pc = "character"
                                => view[v].pc = "character"
    PROVE  Room(a)'
<1> DEFINE n == CountCharactersByAccountID(a)
<1>1. n \in Nat /\ MaxContentIDsPerAccount \in Nat
  BY CountType, CharacterAssumption
<1>2. CountCharactersByAccountID(a)' \in Nat
  <2>1. CountCharactersByAccountID(a)' =
            Cardinality({id \in Ids' : characters'[id].account = a})
    BY DEF CountCharactersByAccountID
  <2>2. IsFiniteSet({id \in Ids' : characters'[id].account = a})
    <3>1. Ids' = 1 .. Len(characters') /\ Len(characters') \in Nat
      BY DEF TypeOK, Ids
    <3>2. IsFiniteSet(Ids')
      BY <3>1, FS_Interval
    <3>. QED BY <3>2, FS_Subset
  <2>. QED BY <2>1, <2>2, FS_CardinalityType
<1>. QED BY <1>1, <1>2 DEF Room

\* The insert takes the room that the check left.
LEMMA SaveTakesRoom ==
    ASSUME StoreInv, StoreInv', NEW a \in Accounts, UsedAlone(a), Room(a), Kept(a),
           NEW v \in Viewers, SaveCharacter(v)
    PROVE  Room(a)' /\ Kept(a)'
<1> DEFINE row == [account |-> AccountOf[v], original |-> NoAccount,
                   name |-> view[v].requested]
           S == {id \in Ids : characters[id].account = a}
           T == {id \in Ids' : characters'[id].account = a}
           new == Len(characters) + 1
<1>1. row \in Row /\ characters' = Append(characters, row)
  BY CharacterAssumption DEF SaveCharacter, StoreInv, TypeOK, ViewState, Row
<1>2. /\ Ids' = Ids \cup {new} /\ new \notin Ids
      /\ \A id \in Ids : characters'[id] = characters[id]
      /\ characters'[new] = row
  BY <1>1, AppendRow DEF StoreInv, Ids
<1>3. /\ view[v].pc = "character" /\ view'[v].pc = "looks" /\ data' = data
      /\ \A u \in Viewers \ {v} : view'[u] = view[u]
  BY DEF SaveCharacter, StoreInv, TypeOK, ViewState
<1>4. Kept(a)'
  BY <1>2, <1>3 DEF Kept, StoreInv, DataInv, Holds
<1>5. CASE AccountOf[v] = a
  <2>1. T = S \cup {new}
    BY <1>2, <1>5
  <2>2. Cardinality(T) = Cardinality(S) + 1
    <3>1. IsFiniteSet(S) /\ new \notin S
      BY <1>2, CountType DEF StoreInv
    <3>. HIDE DEF S, T, new
    <3>. QED BY <2>1, <3>1, FS_AddElement
  <2>3. /\ Cardinality(S) < MaxContentIDsPerAccount /\ Cardinality(S) \in Nat
        /\ MaxContentIDsPerAccount \in Nat
    BY <1>3, <1>5, CountType, CharacterAssumption
       DEF Room, CountCharactersByAccountID, StoreInv
  <2>4. Cardinality(T) <= MaxContentIDsPerAccount
    <3>. HIDE DEF S, T
    <3>. QED BY <2>2, <2>3
  <2>5. ASSUME NEW u \in Viewers, AccountOf[u] = a PROVE view'[u].pc # "character"
    <3>1. u = v
      BY <1>5, <2>5, OneConnection
    <3>. QED BY <1>3, <3>1
  <2>6. Room(a)'
    BY <2>4, <2>5 DEF Room, CountCharactersByAccountID
  <2>. QED BY <1>4, <2>6
<1>6. CASE AccountOf[v] # a
  <2>1. \A id \in Ids' : characters'[id].account = a
                            => id \in Ids /\ characters[id].account = a
    BY <1>2, <1>6
  <2>2. Room(a)'
    BY <1>3, <2>1, NoMore, RoomFrame DEF StoreInv
  <2>. QED BY <1>4, <2>2
<1>. QED BY <1>5, <1>6

\* Writing a row back gives no account a character, and leaves what others
\* have read.
LEMMA WriteBack ==
    ASSUME StoreInv, StoreInv', NEW a \in Accounts, UsedAlone(a), Room(a), Kept(a),
           NEW p \in Viewers \cup Selectors, NEW i \in Ids, NEW row \in Row,
           characters' = [characters EXCEPT ![i] = row],
           Owner(characters[i]) = AccountOf[p],
           row.account = a => characters[i].account = a,
           \A d \in Selectors : data'[d].pc = "update"
                                    => d # p /\ data'[d] = data[d],
           \A u \in Viewers : view'[u].pc = "character" => view'[u] = view[u]
    PROVE  Room(a)' /\ Kept(a)'
<1>1. /\ Ids' = Ids /\ characters'[i] = row
      /\ \A id \in Ids \ {i} : characters'[id] = characters[id]
  BY UpdateRow DEF StoreInv, Ids
<1>2. \A id \in Ids' : characters'[id].account = a
                            => id \in Ids /\ characters[id].account = a
  BY <1>1
<1>3. Room(a)'
  BY <1>2, NoMore, RoomFrame DEF StoreInv
<1>4. ASSUME NEW d \in Selectors, AccountOf[d] = a, data'[d].pc = "update"
      PROVE  characters'[data'[d].id].account = a
  <2>1. d # p /\ data'[d] = data[d]
    BY <1>4
  <2>2. AccountOf[p] # a
    BY <1>4, <2>1, OneConnection
  <2>3. data[d].id \in Ids /\ Owner(characters[data[d].id]) = a
    BY <1>4, <2>1 DEF StoreInv, DataInv, Holds
  <2>4. data[d].id # i
    BY <2>2, <2>3
  <2>. QED BY <1>1, <1>4, <2>1, <2>3, <2>4 DEF Kept
<1>. QED BY <1>3, <1>4 DEF Kept

LEMMA LimitStep == StoreInv /\ StoreInv' /\ LimitInv /\ [Next]_vars => LimitInv'
<1> SUFFICES ASSUME StoreInv, StoreInv', LimitInv, [Next]_vars,
                    NEW a \in Accounts, UsedAlone(a)
             PROVE  Room(a)' /\ Kept(a)'
  BY DEF LimitInv, UsedAlone
<1>1. Room(a) /\ Kept(a)
  BY DEF LimitInv
<1>2. ASSUME characters' = characters PROVE
        CountCharactersByAccountID(a)' = CountCharactersByAccountID(a)
  BY <1>2 DEF CountCharactersByAccountID, Ids
<1>3. ASSUME NEW v \in Viewers, CreateCharacter(v) PROVE Room(a)' /\ Kept(a)'
  <2>1. /\ BelowLimit(AccountOf[v]) /\ characters' = characters /\ data' = data
        /\ \A u \in Viewers \ {v} : view'[u] = view[u]
    BY <1>3 DEF CreateCharacter, StoreInv, TypeOK
  <2>. QED BY <1>1, <1>2, <2>1 DEF Room, Kept, BelowLimit
<1>4. ASSUME NEW v \in Viewers, SaveCharacter(v) PROVE Room(a)' /\ Kept(a)'
  BY <1>1, <1>4, SaveTakesRoom
<1>5. ASSUME NEW v \in Viewers,
             \/ \E name \in Names : CreateCharacterPre(v, name)
             \/ SaveLooks(v) \/ SaveStats(v) \/ SaveJobs(v)
             \/ \E id \in Ids : ReadForDelete(v, id)
             \/ ViewFails(v)
      PROVE  Room(a)' /\ Kept(a)'
  <2>1. /\ characters' = characters /\ data' = data
        /\ \A u \in Viewers \ {v} : view'[u] = view[u]
    BY <1>5 DEF CreateCharacterPre, SaveLooks, SaveStats, SaveJobs,
       ReadForDelete, ViewFails, details, StoreInv, TypeOK
  <2>2. view'[v].pc # "character"
    <3>1. view \in [Viewers -> ViewState]
      BY DEF StoreInv, TypeOK
    <3>2. CASE (\E name \in Names : CreateCharacterPre(v, name)) \/ ViewFails(v)
      BY <3>1, <3>2 DEF CreateCharacterPre, ViewFails, IdleView
    <3>3. CASE SaveLooks(v) \/ SaveStats(v) \/ SaveJobs(v)
      BY <3>1, <3>3 DEF SaveLooks, SaveStats, SaveJobs, ViewState
    <3>4. CASE \E id \in Ids : ReadForDelete(v, id)
      BY <3>1, <3>4 DEF ReadForDelete, ViewState
    <3>. QED BY <1>5, <3>2, <3>3, <3>4
  <2>. QED BY <1>1, <1>2, <2>1, <2>2 DEF Room, Kept
<1>6. ASSUME NEW v \in Viewers, DeleteCharacter(v) PROVE Room(a)' /\ Kept(a)'
  <2> DEFINE row == [view[v].row EXCEPT !.original = view[v].row.account,
                                        !.account = NoAccount]
  <2>1. /\ view[v].row \in Row /\ AccountOf[v] \in Accounts
        /\ view[v].id \in Ids /\ view[v].row.account = AccountOf[v]
        /\ Owner(characters[view[v].id]) = AccountOf[v]
    BY <1>6, CharacterAssumption
       DEF DeleteCharacter, StoreInv, ViewInv, TypeOK, ViewState, Holds
  <2>2. row \in Row /\ row.account = NoAccount /\ row.account # a
    BY <2>1, CharacterAssumption DEF Row
  <2>3. characters' = [characters EXCEPT ![view[v].id] = row] /\ data' = data
    BY <1>6 DEF DeleteCharacter
  <2>4. \A u \in Viewers : view'[u].pc = "character" => view'[u] = view[u]
    BY <1>6 DEF DeleteCharacter, StoreInv, TypeOK, ViewState
  <2>5. \A d \in Selectors : d # v
    BY CharacterAssumption
  <2> HIDE DEF row
  <2>. QED BY <1>1, <2>1, <2>2, <2>3, <2>4, <2>5, WriteBack
<1>7. ASSUME NEW d \in Selectors, \E id \in Ids : ReadForSelect(d, id)
      PROVE  Room(a)' /\ Kept(a)'
  <2>1. PICK id \in Ids : ReadForSelect(d, id)
    BY <1>7
  <2>2. /\ characters' = characters /\ view' = view
        /\ data'[d].id = id /\ characters[id].account = AccountOf[d]
        /\ \A u \in Selectors \ {d} : data'[u] = data[u]
    BY <2>1 DEF ReadForSelect, Owns, StoreInv, TypeOK
  <2>. QED BY <1>1, <1>2, <2>2 DEF Room, Kept
<1>8. ASSUME NEW d \in Selectors, UpdatePrevZone(d) PROVE Room(a)' /\ Kept(a)'
  <2>1. /\ data[d].row \in Row /\ AccountOf[d] \in Accounts
        /\ data[d].id \in Ids /\ data[d].row.account = AccountOf[d]
        /\ Owner(characters[data[d].id]) = AccountOf[d]
        /\ data[d].pc = "update"
    BY <1>8, CharacterAssumption
       DEF UpdatePrevZone, StoreInv, DataInv, TypeOK, DataState, Holds
  <2>2. characters' = [characters EXCEPT ![data[d].id] = data[d].row]
        /\ view' = view
    BY <1>8 DEF UpdatePrevZone
  <2>3. data[d].row.account = a => characters[data[d].id].account = a
    BY <1>1, <2>1 DEF Kept
  <2>4. \A u \in Selectors : data'[u].pc = "update" => u # d /\ data'[u] = data[u]
    BY <1>8 DEF UpdatePrevZone, IdleData, StoreInv, TypeOK
  <2>. QED BY <1>1, <2>1, <2>2, <2>3, <2>4, WriteBack
<1>9. ASSUME NEW d \in Selectors, DataFails(d) PROVE Room(a)' /\ Kept(a)'
  <2>1. /\ characters' = characters /\ view' = view /\ data'[d].pc = "idle"
        /\ \A u \in Selectors \ {d} : data'[u] = data[u]
    BY <1>9 DEF DataFails, IdleData, StoreInv, TypeOK
  <2>. QED BY <1>1, <1>2, <2>1 DEF Room, Kept
<1>10. CASE UNCHANGED vars
  BY <1>1, <1>2, <1>10 DEF vars, Room, Kept
<1>. QED
  BY <1>3, <1>4, <1>5, <1>6, <1>7, <1>8, <1>9, <1>10 DEF Next, ViewStep, DataStep

\* An account with one connection never has more characters than the limit,
\* although it is checked in one query and the row inserted in another, and
\* whatever other accounts and failures do in between.
THEOREM LimitIsKeptAlone == Spec => []LimitKeptAlone
<1>1. Init => LimitInv
  <2> SUFFICES ASSUME Init, NEW a \in Accounts PROVE Room(a) /\ Kept(a)
    BY DEF LimitInv
  <2>1. Ids = {}
    BY DEF Init, Ids
  <2>2. CountCharactersByAccountID(a) = 0
    <3>1. {id \in Ids : characters[id].account = a} = {}
      BY <2>1
    <3>. QED BY <3>1, FS_EmptySet DEF CountCharactersByAccountID
  <2>3. 0 <= MaxContentIDsPerAccount
    BY CharacterAssumption
  <2>. QED BY <2>2, <2>3 DEF Init, Room, Kept, IdleView, IdleData
<1>2. LimitInv => LimitKeptAlone
  BY DEF LimitInv, LimitKeptAlone, Room
<1>. QED BY <1>1, <1>2, StoreInvariant, LimitStep, PTL DEF Spec

-----------------------------------------------------------------------------
(* The requests as a whole: what CharacterTable says of them.              *)

\* A character as the table shows it.
Character(row) ==
    [owner |-> Owner(row), name |-> row.name,
     state |-> IF row.account = NoAccount THEN "deleted" ELSE "active"]

Shown == [id \in Ids |-> Character(characters[id])]

Selecting == [d \in Selectors |-> IF data[d].pc = "update" THEN data[d].id ELSE 0]

\* An insert appends a character, an update replaces one.
LEMMA ShownAppend ==
    ASSUME TypeOK, NEW row \in Row, characters' = Append(characters, row)
    PROVE  Shown' = Append(Shown, Character(row))
<1>. DEFINE S == {Character(r) : r \in Row}
<1>1. characters \in Seq(Row) /\ Len(characters) \in Nat /\ Ids = 1 .. Len(characters)
  BY DEF TypeOK, Ids
<1>2. /\ Ids' = 1 .. Len(characters) + 1
      /\ \A id \in Ids : characters'[id] = characters[id]
      /\ characters'[Len(characters) + 1] = row
  BY <1>1, AppendRow, AppendProperties DEF Ids
<1>3. \A id \in Ids : Character(characters[id]) \in S
  BY <1>1
<1>. HIDE DEF S
<1>4. Shown \in Seq(S) /\ Len(Shown) = Len(characters)
  <2>1. Shown = [id \in 1 .. Len(characters) |-> Character(characters[id])]
    BY <1>1 DEF Shown
  <2>2. Shown \in [1 .. Len(characters) -> S]
    BY <1>1, <1>3, <2>1
  <2>. QED BY <1>1, <2>2, SeqDef
<1>5. Character(row) \in S
  BY DEF S
<1>6. /\ DOMAIN Append(Shown, Character(row)) = 1 .. Len(characters) + 1
      /\ \A i \in 1 .. Len(characters) :
            Append(Shown, Character(row))[i] = Shown[i]
      /\ Append(Shown, Character(row))[Len(characters) + 1] = Character(row)
      /\ Append(Shown, Character(row)) =
            [i \in 1 .. Len(characters) + 1 |-> Append(Shown, Character(row))[i]]
  <2>1. /\ Append(Shown, Character(row)) \in Seq(S)
        /\ Len(Append(Shown, Character(row))) = Len(characters) + 1
        /\ \A i \in 1 .. Len(characters) :
              Append(Shown, Character(row))[i] = Shown[i]
        /\ Append(Shown, Character(row))[Len(characters) + 1] = Character(row)
    BY <1>1, <1>4, <1>5, AppendProperties
  <2>2. Append(Shown, Character(row)) \in [1 .. Len(characters) + 1 -> S]
    BY <2>1, LenProperties
  <2>. QED BY <2>1, <2>2
<1>7. Shown' = [i \in 1 .. Len(characters) + 1 |-> Character(characters'[i])]
  BY <1>2 DEF Shown
<1>8. ASSUME NEW i \in 1 .. Len(characters) + 1
      PROVE  Character(characters'[i]) = Append(Shown, Character(row))[i]
  <2>1. CASE i = Len(characters) + 1
    BY <1>2, <1>6, <2>1
  <2>2. CASE i \in 1 .. Len(characters)
    <3>1. Shown[i] = Character(characters[i])
      BY <1>1, <2>2 DEF Shown
    <3>. QED BY <1>1, <1>2, <1>6, <2>2, <3>1
  <2>3. i = Len(characters) + 1 \/ i \in 1 .. Len(characters)
    BY <1>1
  <2>. QED BY <2>1, <2>2, <2>3
<1>. QED BY <1>6, <1>7, <1>8, Zenon

LEMMA ShownUpdate ==
    ASSUME TypeOK, NEW i \in Ids, NEW row \in Row,
           characters' = [characters EXCEPT ![i] = row]
    PROVE  Shown' = [Shown EXCEPT ![i] = Character(row)]
BY UpdateRow DEF Shown, Ids

\* The connections' requests are steps of the table, or none of its business.
LEMMA ViewSteps ==
    ASSUME StoreInv, NEW v \in Viewers, ViewStep(v)
    PROVE  [Table!Next]_(Table!vars)
<1>. USE DEF Table!vars
<1>1. UNCHANGED Selecting
  BY DEF ViewStep, CreateCharacterPre, CreateCharacter, SaveCharacter, SaveLooks,
     SaveStats, SaveJobs, ReadForDelete, DeleteCharacter, ViewFails, Selecting
<1>2. CASE UNCHANGED characters
  BY <1>1, <1>2 DEF Selecting, Ids
<1>3. CASE SaveCharacter(v)
  <2>0. PICK name \in Names \cup {NoName} : name = view[v].requested
    BY DEF StoreInv, TypeOK, ViewState
  <2>. DEFINE row == [account |-> AccountOf[v], original |-> NoAccount, name |-> name]
  <2>1. AccountOf[v] \in Accounts
    BY CharacterAssumption
  <2>2. row \in Row /\ characters' = Append(characters, row)
    BY <1>3, <2>0, <2>1 DEF SaveCharacter, Row
  <2>3. Character(row) = [owner |-> AccountOf[v], name |-> name, state |-> "active"]
    BY <2>1, CharacterAssumption DEF Character, Owner
  <2>4. \A id \in Ids : characters[id].name # name
    BY <1>3, <2>0 DEF SaveCharacter, NameIsUnique, CharacterNameExists
  <2>5. \A id \in DOMAIN Shown : Shown[id].name # name
    BY <2>4 DEF Shown, Character
  <2>. HIDE DEF row
  <2>6. Shown' = Append(Shown, [owner |-> AccountOf[v], name |-> name, state |-> "active"])
    BY <2>2, <2>3, ShownAppend DEF StoreInv
  <2>7. Table!Create(v, name)
    BY <1>1, <2>5, <2>6 DEF Table!Create, Table!Ids, Shown, Character, Selecting
  <2>8. Table!Next
    BY <2>7, Zenon DEF Table!Next
  <2>. QED BY <2>8
<1>4. CASE DeleteCharacter(v)
  <2>0. PICK id \in Ids : id = view[v].id
    BY <1>4 DEF DeleteCharacter, StoreInv, ViewInv, Holds
  <2>. DEFINE row == [view[v].row EXCEPT !.original = view[v].row.account,
                                         !.account = NoAccount]
  <2>1. /\ view[v].row \in Row /\ AccountOf[v] \in Accounts
        /\ Owner(characters[id]) = AccountOf[v]
        /\ view[v].row.account = AccountOf[v]
        /\ view[v].row.name = characters[id].name
    BY <1>4, <2>0, CharacterAssumption
       DEF DeleteCharacter, StoreInv, ViewInv, TypeOK, ViewState, Holds
  <2>2. row \in Row /\ characters' = [characters EXCEPT ![id] = row]
    BY <1>4, <2>0, <2>1 DEF DeleteCharacter, Row
  <2>3. Shown[id] = Character(characters[id]) /\ id \in DOMAIN Shown
    BY <2>1 DEF Shown
  <2>4. Character(row) = [Shown[id] EXCEPT !.state = "deleted"]
    BY <2>1, <2>3 DEF Character, Owner, Row
  <2>5. Shown[id].owner = AccountOf[v]
    BY <2>1, <2>3 DEF Character
  <2>. HIDE DEF row
  <2>6. Shown' = [Shown EXCEPT ![id].state = "deleted"]
    BY <2>1, <2>2, <2>4, ShownUpdate DEF StoreInv
  <2>7. Table!Delete(v, id)
    BY <1>1, <2>5, <2>6 DEF Table!Delete, Table!Owns, Shown, Character, Selecting
  <2>8. id \in Table!Ids
    BY <2>3 DEF Table!Ids, Shown, Character
  <2>9. Table!Next
    BY <2>7, <2>8, Zenon DEF Table!Next
  <2>. QED BY <2>9
<1>. QED
  BY <1>2, <1>3, <1>4 DEF ViewStep, CreateCharacterPre, CreateCharacter, SaveLooks,
     SaveStats, SaveJobs, ReadForDelete, ViewFails

LEMMA DataSteps ==
    ASSUME StoreInv, NEW d \in Selectors, DataStep(d)
    PROVE  [Table!Next]_(Table!vars)
<1>. USE DEF Table!vars
<1>0. data \in [Selectors -> DataState]
  BY DEF StoreInv, TypeOK
<1>1. ASSUME NEW id \in Ids, ReadForSelect(d, id) PROVE Table!Next
  <2>1. /\ characters[id].account = AccountOf[d] /\ AccountOf[d] # NoAccount
        /\ UNCHANGED characters /\ data[d].pc # "update"
    BY <1>1, CharacterAssumption DEF ReadForSelect, Owns
  <2>2. /\ Shown[id] = Character(characters[id]) /\ id \in DOMAIN Shown
        /\ UNCHANGED Shown
    BY <2>1 DEF Shown, Ids
  <2>3. Shown[id].owner = AccountOf[d] /\ Shown[id].state = "active"
    BY <2>1, <2>2 DEF Character, Owner
  <2>4. Selecting' = [Selecting EXCEPT ![d] = id] /\ Selecting[d] = 0
    BY <1>0, <1>1, <2>1 DEF ReadForSelect, Selecting
  <2>5. Table!BeginSelection(d, id)
    BY <2>2, <2>3, <2>4 DEF Table!BeginSelection, Table!Owns, Shown, Character, Selecting
  <2>. QED BY <2>2, <2>5 DEF Table!Next, Table!Ids, Shown, Character
<1>2. CASE UpdatePrevZone(d)
  <2>. DEFINE id == data[d].id  row == data[d].row
  <2>1. /\ row \in Row /\ AccountOf[d] \in Accounts /\ data[d].pc = "update"
        /\ id \in Ids /\ row.account = AccountOf[d] /\ row.name = characters[id].name
        /\ Owner(characters[id]) = AccountOf[d]
    BY <1>2, CharacterAssumption
       DEF UpdatePrevZone, StoreInv, DataInv, TypeOK, DataState, Holds
  <2>2. characters' = [characters EXCEPT ![id] = row]
    BY <1>2 DEF UpdatePrevZone
  <2>3. Shown[id] = Character(characters[id]) /\ id \in DOMAIN Shown
    BY <2>1 DEF Shown
  <2>4. Character(row) = [Shown[id] EXCEPT !.state = "active"]
    BY <2>1, <2>3, CharacterAssumption DEF Character, Owner, Row
  <2>5. Selecting[d] = id /\ Selecting' = [Selecting EXCEPT ![d] = 0]
    BY <1>0, <1>2, <2>1 DEF UpdatePrevZone, Selecting, IdleData
  <2>6. id # 0
    BY <2>1 DEF StoreInv, TypeOK, Ids
  <2>. HIDE DEF id, row
  <2>7. Shown' = [Shown EXCEPT ![id].state = "active"]
    BY <2>1, <2>2, <2>4, ShownUpdate DEF StoreInv
  <2>8. Table!EndSelection(d)
    BY <2>5, <2>6, <2>7 DEF Table!EndSelection, Shown, Character, Selecting
  <2>. QED BY <2>8 DEF Table!Next
<1>3. CASE DataFails(d)
  <2>1. /\ Selecting' = [Selecting EXCEPT ![d] = 0] /\ UNCHANGED Shown
    BY <1>0, <1>3 DEF DataFails, Selecting, IdleData, Shown, Ids
  <2>2. Table!DropSelection(d)
    BY <2>1 DEF Table!DropSelection, Shown, Character, Selecting
  <2>. QED BY <2>2 DEF Table!Next
<1>. QED BY <1>1, <1>2, <1>3 DEF DataStep

LEMMA TableSteps == StoreInv /\ [Next]_vars => [Table!Next]_(Table!vars)
<1>1. ASSUME UNCHANGED vars PROVE UNCHANGED Table!vars
  BY <1>1 DEF vars, Table!vars, Ids
<1>. QED BY <1>1, ViewSteps, DataSteps DEF Next

\* The queries of the lobby's requests implement the table of CharacterTable:
\* however they interleave or fail, each request is one creation, deletion or
\* selection by a connection of the owner, or nothing.
THEOREM StoreImplementsTable == Spec => ImplementsTable
<1>1. Init => Table!Init
  BY DEF Init, Table!Init, Ids, IdleData
<1>. QED BY <1>1, StoreInvariant, TableSteps, PTL DEF Spec, ImplementsTable, Table!Spec
=============================================================================
