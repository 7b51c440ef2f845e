-------------------------- MODULE BoardCrawlProofs --------------------------
(* What BoardCrawl guarantees for every number of boards, articles, pages,  *)
(* rows and failures, checked by TLAPS.                                     *)
EXTENDS BoardCrawl, FiniteSetTheorems, TLAPS

-----------------------------------------------------------------------------
(* Counting the rows above an article.                                      *)

\* The rows above an article can be counted: what Rank counts is finite.
LEMMA CountNewer ==
    ASSUME NEW N \in Nat, NEW S \in SUBSET (1..N), NEW i \in Int
    PROVE  /\ IsFiniteSet({k \in S : k >= i})
           /\ Cardinality({k \in S : k >= i}) \in Nat
<1>1. IsFiniteSet(1..N)
  BY FS_Interval
<1>2. {k \in S : k >= i} \subseteq 1..N
  OBVIOUS
<1>3. QED
  BY <1>1, <1>2, FS_Subset, FS_CardinalityType

\* A newer article has at most as many rows above it: the list is in ID order.
LEMMA CountAntitone ==
    ASSUME NEW N \in Nat, NEW S \in SUBSET (1..N),
           NEW i \in Int, NEW j \in Int, i <= j
    PROVE  Cardinality({k \in S : k >= j}) <= Cardinality({k \in S : k >= i})
<1>1. {k \in S : k >= j} \subseteq {k \in S : k >= i}
  <2>1. \A k \in S : k >= j => k >= i
    OBVIOUS
  <2>2. QED
    BY <2>1
<1>2. IsFiniteSet({k \in S : k >= i})
  BY CountNewer
<1>3. QED
  BY <1>1, <1>2, FS_Subset

\* Taking row x off the list moves up exactly the rows below it, by one.
LEMMA CountWithout ==
    ASSUME NEW N \in Nat, NEW S \in SUBSET (1..N), NEW x \in S, NEW i \in Int
    PROVE  Cardinality({k \in S \ {x} : k >= i}) =
             IF x >= i THEN Cardinality({k \in S : k >= i}) - 1
                       ELSE Cardinality({k \in S : k >= i})
<1> DEFINE newer == {k \in S : k >= i}
<1>1. {k \in S \ {x} : k >= i} = newer \ {x}
  OBVIOUS
<1>2. x \in newer <=> x >= i
  OBVIOUS
<1>3. IsFiniteSet(newer)
  BY CountNewer
<1>4. Cardinality(newer \ {x})
        = IF x \in newer THEN Cardinality(newer) - 1 ELSE Cardinality(newer)
  BY <1>3, FS_RemoveElement
<1>5. QED
  BY <1>1, <1>2, <1>4

\* How many members of S are not below i.
Newer(S, i) == Cardinality({k \in S : k >= i})

\* The same, named: Newer drops by one where x counted.
LEMMA NewerWithout ==
    ASSUME NEW N \in Nat, NEW S \in SUBSET (1..N), NEW x \in S, NEW i \in Int
    PROVE  Newer(S \ {x}, i) = IF x >= i THEN Newer(S, i) - 1 ELSE Newer(S, i)
<1>1. Cardinality({k \in S \ {x} : k >= i}) =
        IF x >= i THEN Cardinality({k \in S : k >= i}) - 1
                  ELSE Cardinality({k \in S : k >= i})
  BY CountWithout
<1>2. QED
  BY <1>1 DEF Newer

-----------------------------------------------------------------------------
(* Types.                                                                   *)

\* The state the process starts in is well typed.
THEOREM InitTypeOK == Init => TypeOK
BY BoardsAssumption, BoundsAssumption, OptionsAssumption
   DEF Init, TypeOK, Days, Ids, Entry

\* The upserts of SaveArticles leave a well-typed database.
LEMMA UpsertTypeOK ==
    ASSUME TypeOK, NEW saved \in SUBSET batch, Upsert(saved)
    PROVE  /\ stored' \in [Boards -> SUBSET Ids]
           /\ filled' \in [Boards -> SUBSET Ids]
           /\ excused' \in [Boards -> SUBSET Ids]
<1>1. \A e \in saved : e.id \in Ids
  BY DEF TypeOK, Entry
<1>2. LastCopies(saved) \subseteq saved
  BY DEF LastCopies
<1>3. QED
  BY <1>1, <1>2 DEF Upsert, TypeOK

\* Every step keeps the types, and keeps each variable of the cycle to the
\* phases that use it.
THEOREM NextTypeOK == TypeOK /\ [Next]_vars => TypeOK'
<1> SUFFICES ASSUME TypeOK, [Next]_vars PROVE TypeOK'
  OBVIOUS
<1> USE BoardsAssumption, BoundsAssumption, OptionsAssumption DEF record
<1>1. CASE UNCHANGED vars
  BY <1>1 DEF TypeOK, vars, site, db, cycle, walk, Entry
<1>2. CASE NextDay
  BY <1>2 DEF NextDay, TypeOK, db, cycle, walk, Days
<1>3. ASSUME NEW b \in Boards, Publish(b) PROVE TypeOK'
  <2>1. posted[b] + 1 \in Ids
    BY <1>3 DEF Publish, TypeOK, Ids
  <2>2. createdOn' \in [Boards -> [Ids -> Days]]
    BY <1>3, <2>1 DEF Publish, TypeOK
  <2>3. posted' \in [Boards -> 0..MaxId] /\ listed' \in [Boards -> SUBSET Ids]
    BY <1>3, <2>1 DEF Publish, TypeOK, Ids
  <2>4. QED
    BY <1>3, <2>2, <2>3 DEF Publish, TypeOK, db, cycle, walk
<1>4. ASSUME NEW b \in Boards, NEW i \in Ids, Delete(b, i) PROVE TypeOK'
  BY <1>4 DEF Delete, PulledUp, TypeOK, db, walk, Ids
<1>5. CASE StartRun
  BY <1>5 DEF StartRun, TypeOK, site, db, walk
<1>6. ASSUME NEW b \in Boards, BeginBoard(b) PROVE TypeOK'
  <2>1. lastDate' \in 0..MaxDay
    <3>1. lastDate' = 0 \/ \E d \in Days : lastDate' = d
      BY <1>6, Zenon DEF BeginBoard
    <3>2. QED
      BY <3>1 DEF Days
  <2>2. page' \in 0..MaxPageCount /\ page' # 0
    BY <1>6 DEF BeginBoard
  <2>3. board' \in Boards /\ board' # NoBoard /\ lastCursor' \in 0..MaxId
    BY <1>6 DEF BeginBoard, TypeOK
  <2>4. QED
    BY <1>6, <2>1, <2>2, <2>3 DEF BeginBoard, TypeOK, site, db
<1>7. ASSUME NEW b \in Boards, CursorReadFails(b) PROVE TypeOK'
  BY <1>7 DEF CursorReadFails, Fault, TypeOK, site, db, walk
<1>8. CASE FetchPage
  <2>1. board \in Boards /\ page \in 1..MaxPageCount
    BY <1>8 DEF FetchPage, TypeOK
  <2> DEFINE S     == Rows(board, page)
             taken == AboveStops(board, S) \ Unreadable
  <2>2. S \in SUBSET Ids /\ taken \in SUBSET Ids
    BY <2>1 DEF Rows, Beyond, AboveStops, TypeOK
  <2>3. batch' \in SUBSET Entry /\ text' \in SUBSET batch' /\ text' = {}
    BY <1>8, <2>1, <2>2 DEF FetchPage, TypeOK, Entry
  <2>4. newCursor' \in [Boards -> 0..MaxId]
    BY <1>8, <2>1 DEF FetchPage, TypeOK
  <2>5. \A b \in todo' : newCursor'[b] = 0
    <3>1. board \notin todo
      BY <1>8 DEF FetchPage, TypeOK
    <3>2. QED
      BY <1>8, <2>1, <3>1 DEF FetchPage, TypeOK
  <2>6. passed' \in [Boards -> SUBSET Ids]
    BY <1>8, <2>1, <2>2 DEF FetchPage, TypeOK, AboveStops, Beyond
  <2>7. CASE Stops(board, S) # {} \/ AtLastPage
    <3>1. EndWalk
      BY <1>8, <2>7 DEF FetchPage
    <3>2. QED
      BY <1>8, <3>1, <2>3, <2>4, <2>5, <2>6
         DEF FetchPage, EndWalk, ForgetWalk, TypeOK, site, db
  <2>8. CASE ~(Stops(board, S) # {} \/ AtLastPage)
    <3>1. page' = page + 1 /\ UNCHANGED <<pc, board, lastCursor, lastDate>>
      BY <1>8, <2>8 DEF FetchPage
    <3>2. page' \in 1..MaxPageCount
      BY <2>1, <2>8, <3>1 DEF AtLastPage
    <3>3. QED
      BY <1>8, <3>1, <3>2, <2>3, <2>4, <2>5, <2>6 DEF FetchPage, TypeOK, site, db
  <2>9. QED
    BY <2>7, <2>8
<1>9. CASE EndOfData
  BY <1>9 DEF EndOfData, EndWalk, ForgetWalk, TypeOK, site, db
<1>10. CASE BoardFails
  BY <1>10 DEF BoardFails, Fault, EndWalk, ForgetWalk, TypeOK, site, db
<1>11. CASE EndBoards
  BY <1>11 DEF EndBoards, TypeOK, site, db, walk
<1>12. CASE FetchContents
  BY <1>12 DEF FetchContents, TypeOK, site, db, walk
<1>13. CASE SaveArticles
  <2>1. Upsert(batch) /\ batch \in SUBSET batch
    BY <1>13 DEF SaveArticles
  <2>2. QED
    BY <1>13, <2>1, UpsertTypeOK DEF SaveArticles, TypeOK, site, walk
<1>14. CASE SavePartially
  <2>1. PICK saved \in SUBSET batch : Upsert(saved)
    BY <1>14 DEF SavePartially
  <2>2. missed' \in [Boards -> SUBSET Ids]
    BY <1>14 DEF SavePartially, Misses, Collected, TypeOK, Entry
  <2>3. QED
    BY <1>14, <2>1, <2>2, UpsertTypeOK
       DEF SavePartially, Fault, TypeOK, site, EndRun, ForgetCycle, ForgetWalk
<1>15. CASE SaveFails
  BY <1>15 DEF SaveFails, Fault, TypeOK, site, db, EndRun, ForgetCycle, ForgetWalk
<1>16. CASE NothingToSave
  BY <1>16 DEF NothingToSave, TypeOK, site, db, walk
<1>17. ASSUME NEW b \in Boards, UpsertCursor(b) PROVE TypeOK'
  BY <1>17 DEF UpsertCursor, TypeOK, site, walk
<1>18. ASSUME NEW b \in Boards, CursorWriteFails(b) PROVE TypeOK'
  BY <1>18 DEF CursorWriteFails, Fault, TypeOK, site, db, walk
<1>19. CASE FinishRun
  BY <1>19 DEF FinishRun, TypeOK, site, db, EndRun, ForgetCycle, ForgetWalk
<1>20. CASE Panic
  BY <1>20 DEF Panic, Fault, TypeOK, site, db, EndRun, ForgetCycle, ForgetWalk
<1>21. CASE Crash
  BY <1>21 DEF Crash, Fault, TypeOK, site, db, ForgetCycle, ForgetWalk
<1>22. CASE Restart
  BY <1>22 DEF Restart, TypeOK, site, walk
<1>23. QED
  BY <1>1, <1>2, <1>3, <1>4, <1>5, <1>6, <1>7, <1>8, <1>9, <1>10, <1>11, <1>12,
     <1>13, <1>14, <1>15, <1>16, <1>17, <1>18, <1>19, <1>20, <1>21, <1>22
     DEF Next, Site, Progress, Failure
-----------------------------------------------------------------------------
(* Cursors.                                                                 *)

\* A page adds to the articles of its board those above the stopping row that
\* can be read, and nothing to another board.
LEMMA CollectedByPage ==
    ASSUME TypeOK, FetchPage, NEW b \in Boards
    PROVE  Collected(b)' = Collected(b) \cup
               {i \in AboveStops(board, Rows(board, page)) \ Unreadable : b = board}
<1> DEFINE taken == AboveStops(board, Rows(board, page)) \ Unreadable
<1>1. batch' = batch \cup {[board |-> board, id |-> i, page |-> page] : i \in taken}
  BY DEF FetchPage
<1>2. ASSUME NEW i \in Collected(b)'
      PROVE  i \in Collected(b) \cup {k \in taken : b = board}
  <2>1. PICK e \in batch' : e.board = b /\ e.id = i
    BY <1>2 DEF Collected
  <2>2. CASE e \in batch
    BY <2>1, <2>2 DEF Collected
  <2>3. CASE e \notin batch
    <3>1. PICK k \in taken : e = [board |-> board, id |-> k, page |-> page]
      BY <1>1, <2>1, <2>3
    <3>2. QED
      BY <2>1, <3>1
  <2>4. QED
    BY <2>2, <2>3
<1>3. Collected(b) \subseteq Collected(b)'
  BY <1>1 DEF Collected
<1>4. ASSUME NEW i \in taken, b = board PROVE i \in Collected(b)'
  <2>1. [board |-> board, id |-> i, page |-> page] \in batch'
    BY <1>1
  <2>2. QED
    BY <2>1, <1>4 DEF Collected
<1>5. QED
  BY <1>2, <1>3, <1>4

\* What a page adds lies above the cursor the walk started with.
LEMMA TakenIsNew ==
    ASSUME TypeOK, pc = "walk", lastCursor = cursor[board],
           NEW i \in AboveStops(board, Rows(board, page)) \ Unreadable
    PROVE  i > cursor[board]
<1>1. board \in Boards
  BY DEF TypeOK
<1>2. i \in Rows(board, page) /\ i \in Ids /\ i \notin Unreadable
  BY <1>1 DEF AboveStops, Rows, Beyond, TypeOK
<1>3. i \notin Stops(board, Rows(board, page))
  BY <1>2 DEF AboveStops, Ids
<1>4. i > lastCursor
  BY <1>2, <1>3 DEF Stops, TypeOK, Ids
<1>5. QED
  BY <1>4

\* Steps that leave the cursors, the batch and the stored articles alone, or
\* only reset the cycle, are of no concern to CursorInv.
THEOREM NextCursorInv == TypeOK /\ CursorInv /\ [Next]_vars => CursorInv'
<1> SUFFICES ASSUME TypeOK, CursorInv, [Next]_vars PROVE CursorInv'
  OBVIOUS
<1> USE BoardsAssumption, BoundsAssumption
<1>1. CASE UNCHANGED vars
  BY <1>1 DEF CursorInv, Collected, vars, site, db, cycle, walk
<1>2. CASE NextDay
  BY <1>2 DEF NextDay, CursorInv, Collected, db, cycle, walk
<1>3. ASSUME NEW b \in Boards, Publish(b) PROVE CursorInv'
  BY <1>3 DEF Publish, CursorInv, Collected, db, cycle, walk
<1>4. ASSUME NEW b \in Boards, NEW i \in Ids, Delete(b, i) PROVE CursorInv'
  BY <1>4 DEF Delete, CursorInv, Collected, db, walk
<1>5. CASE StartRun
  BY <1>5 DEF StartRun, CursorInv, Collected, db, walk
<1>6. ASSUME NEW b \in Boards, BeginBoard(b) PROVE CursorInv'
  BY <1>6 DEF BeginBoard, CursorInv, Collected, db
<1>7. ASSUME NEW b \in Boards, CursorReadFails(b) PROVE CursorInv'
  BY <1>7 DEF CursorReadFails, CursorInv, Collected, db, walk
<1>8. CASE FetchPage
  <2>1. board \in Boards /\ pc = "walk"
    BY <1>8 DEF FetchPage, TypeOK
  <2> DEFINE taken == AboveStops(board, Rows(board, page)) \ Unreadable
  <2>2. \A i \in taken : i > cursor[board]
    BY <2>1, TakenIsNew DEF CursorInv
  <2>3. PICK m \in taken \cup {newCursor[board]} :
            newCursor' = [newCursor EXCEPT ![board] = m]
    BY <1>8 DEF FetchPage, IsMaxOf
  <2>4. \A b \in Boards : Collected(b) \subseteq Collected(b)'
    BY <1>8, CollectedByPage
  <2>5. \A b \in Boards : b = board => taken \subseteq Collected(b)'
    BY <1>8, CollectedByPage
  <2>6. pc' \in {"walk", "boards"} /\ (pc' = "walk" => UNCHANGED <<board, lastCursor>>)
    BY <1>8, <2>1 DEF FetchPage, EndWalk
  <2>7. UNCHANGED cursor
    BY <1>8 DEF FetchPage, db
  <2>8. \A b \in Boards : newCursor'[b] # 0 =>
            newCursor'[b] > cursor[b] /\ newCursor'[b] \in Collected(b)'
    BY <2>1, <2>2, <2>3, <2>4, <2>5 DEF CursorInv, TypeOK
  <2>9. QED
    BY <2>1, <2>6, <2>7, <2>8 DEF CursorInv
<1>9. CASE EndOfData
  BY <1>9 DEF EndOfData, EndWalk, ForgetWalk, CursorInv, Collected, db
<1>10. CASE BoardFails
  <2>1. \A b \in Boards : newCursor'[b] # 0 => b # board /\ newCursor'[b] = newCursor[b]
    BY <1>10 DEF BoardFails, TypeOK
  <2>2. \A b \in Boards \ {board} : Collected(b) \subseteq Collected(b)'
    BY <1>10 DEF BoardFails, Collected
  <2>3. QED
    BY <1>10, <2>1, <2>2 DEF BoardFails, EndWalk, CursorInv, db
<1>11. CASE EndBoards
  BY <1>11 DEF EndBoards, CursorInv, Collected, db, walk
<1>12. CASE FetchContents
  BY <1>12 DEF FetchContents, CursorInv, Collected, db, walk
<1>13. CASE SaveArticles
  <2>1. \A b \in Boards : Collected(b) \subseteq stored'[b] /\ Collected(b)' = Collected(b)
    BY <1>13 DEF SaveArticles, Upsert, Collected
  <2>2. QED
    BY <1>13, <2>1 DEF SaveArticles, CursorInv
<1>14. CASE SavePartially
  BY <1>14 DEF SavePartially, CursorInv, EndRun, ForgetCycle
<1>15. CASE SaveFails
  BY <1>15 DEF SaveFails, CursorInv, EndRun, ForgetCycle
<1>16. CASE NothingToSave
  BY <1>16 DEF NothingToSave, CursorInv, Collected, db, walk
<1>17. ASSUME NEW b \in Boards, UpsertCursor(b) PROVE CursorInv'
  <2>1. \A c \in Boards : newCursor'[c] # 0 =>
            newCursor'[c] = newCursor[c] /\ cursor'[c] = cursor[c]
    BY <1>17 DEF UpsertCursor, TypeOK
  <2>2. QED
    BY <1>17, <2>1 DEF UpsertCursor, CursorInv, Collected
<1>18. ASSUME NEW b \in Boards, CursorWriteFails(b) PROVE CursorInv'
  <2>1. \A c \in Boards : newCursor'[c] # 0 => newCursor'[c] = newCursor[c]
    BY <1>18 DEF CursorWriteFails, TypeOK
  <2>2. QED
    BY <1>18, <2>1 DEF CursorWriteFails, CursorInv, Collected, db
<1>19. CASE FinishRun
  BY <1>19 DEF FinishRun, CursorInv, EndRun, ForgetCycle
<1>20. CASE Panic
  BY <1>20 DEF Panic, CursorInv, EndRun, ForgetCycle
<1>21. CASE Crash
  BY <1>21 DEF Crash, CursorInv, ForgetCycle
<1>22. CASE Restart
  BY <1>22 DEF Restart, CursorInv, Collected
<1>23. QED
  BY <1>1, <1>2, <1>3, <1>4, <1>5, <1>6, <1>7, <1>8, <1>9, <1>10, <1>11, <1>12,
     <1>13, <1>14, <1>15, <1>16, <1>17, <1>18, <1>19, <1>20, <1>21, <1>22
     DEF Next, Site, Progress, Failure

\* No cursor and no batch exist when the process starts.
THEOREM InitCursorInv == Init => CursorInv
BY DEF Init, CursorInv

\* TypeOK and CursorInv hold in every state.
THEOREM SpecCursorInv == Spec => [](TypeOK /\ CursorInv)
<1>1. Init => TypeOK /\ CursorInv
  BY InitTypeOK, InitCursorInv
<1>2. TypeOK /\ CursorInv /\ [Next]_vars => (TypeOK /\ CursorInv)'
  BY NextTypeOK, NextCursorInv
<1>3. QED
  BY <1>1, <1>2, PTL DEF Spec

\* The state and the variables of every reachable state are those of TypeOK.
THEOREM SpecTypeOK == Spec => []TypeOK
BY SpecCursorInv, PTL

\* The only step that moves a cursor is the upsert of updateCursors.
LEMMA CursorSteps ==
    ASSUME TypeOK, [Next]_vars, NEW b \in Boards, cursor'[b] # cursor[b]
    PROVE  UpsertCursor(b)
<1>1. ASSUME NEW c \in Boards, UpsertCursor(c) PROVE UpsertCursor(b)
  BY <1>1 DEF UpsertCursor, TypeOK
<1>2. ASSUME cursor' = cursor PROVE FALSE
  BY <1>2
<1>3. QED
  BY <1>1, <1>2
     DEF Next, Site, NextDay, Publish, Delete, Progress, StartRun, FetchPage,
         EndOfData, EndBoards, FetchContents, SaveArticles, NothingToSave,
         FinishRun, Restart, BeginBoard, Failure, BoardFails, SavePartially,
         SaveFails, Panic, Crash, CursorReadFails, CursorWriteFails, vars, db

\* A cursor moves only when the whole batch of the cycle is in the database,
\* and forward to an article of that batch.
THEOREM CursorFollowsFullSaveHolds == Spec => CursorFollowsFullSave
<1>1. TypeOK /\ CursorInv /\ [Next]_vars =>
          [\A b \in Boards : cursor'[b] # cursor[b] =>
              /\ cursor'[b] > cursor[b]
              /\ \A e \in batch : e.id \in stored[e.board]
              /\ \E e \in batch : e.board = b /\ e.id = cursor'[b]]_vars
  <2> SUFFICES ASSUME TypeOK, CursorInv, [Next]_vars,
                      NEW b \in Boards, cursor'[b] # cursor[b]
               PROVE  /\ cursor'[b] > cursor[b]
                      /\ \A e \in batch : e.id \in stored[e.board]
                      /\ \E e \in batch : e.board = b /\ e.id = cursor'[b]
    OBVIOUS
  <2>1. UpsertCursor(b)
    BY CursorSteps
  <2>2. \A e \in batch : e.id \in stored[e.board]
    BY <2>1 DEF UpsertCursor, CursorInv, Collected, TypeOK, Entry
  <2>3. cursor'[b] \in Collected(b)
    BY <2>1 DEF UpsertCursor, CursorInv, TypeOK
  <2>4. cursor'[b] > cursor[b]
    BY <2>1 DEF UpsertCursor, CursorInv, TypeOK
  <2>5. QED
    BY <2>2, <2>3, <2>4 DEF Collected
<1>2. QED
  BY <1>1, SpecCursorInv, PTL DEF Spec, CursorFollowsFullSave

\* Only FetchPage adds to the batch, and only rows above the cursor; the cursors
\* move when the phase is "cursors", of which BatchIsNew says nothing.
LEMMA NextBatchIsNew ==
    ASSUME TypeOK, CursorInv, BatchIsNew, [Next]_vars
    PROVE  BatchIsNew'
<1>1. CASE FetchPage
  <2>1. board \in Boards /\ pc = "walk" /\ UNCHANGED cursor
    BY <1>1 DEF FetchPage, TypeOK, db
  <2> DEFINE taken == AboveStops(board, Rows(board, page)) \ Unreadable
  <2>2. batch' = batch \cup {[board |-> board, id |-> i, page |-> page] : i \in taken}
    BY <1>1 DEF FetchPage
  <2>3. \A i \in taken : i > cursor[board]
    BY <2>1, TakenIsNew DEF CursorInv
  <2>4. \A e \in batch' : e.id > cursor[e.board]
    BY <2>1, <2>2, <2>3 DEF BatchIsNew
  <2>5. QED
    BY <2>1, <2>4 DEF BatchIsNew
<1>2. ASSUME batch' \subseteq batch, UNCHANGED cursor, pc # "cursors"
      PROVE  BatchIsNew'
  BY <1>2 DEF BatchIsNew
<1>3. ASSUME batch' = {} \/ pc' = "cursors" PROVE BatchIsNew'
  BY <1>3 DEF BatchIsNew
<1>4. CASE Restart
  BY <1>3, <1>4 DEF Restart, TypeOK
<1>5. CASE UNCHANGED <<pc, cursor, batch>>
  BY <1>5 DEF BatchIsNew
<1>6. QED
  BY <1>1, <1>2, <1>3, <1>4, <1>5
     DEF Next, Site, NextDay, Publish, Delete, Progress, StartRun, BeginBoard,
         EndOfData, EndWalk, EndBoards, FetchContents, SaveArticles, NothingToSave,
         FinishRun, EndRun, ForgetCycle, UpsertCursor, Failure, BoardFails,
         SavePartially, SaveFails, Panic, Crash, CursorReadFails,
         CursorWriteFails, vars, db, cycle

\* The upserts empty an article only if they write it, and then it is in the batch.
LEMMA UpsertEmpties ==
    ASSUME NEW saved \in SUBSET batch, Upsert(saved),
           NEW b \in Boards, NEW i \in filled[b] \ filled'[b]
    PROVE  \E e \in batch : e.board = b /\ e.id = i
<1>1. i \in {e.id : e \in {f \in LastCopies(saved) : f.board = b}}
  BY DEF Upsert
<1>2. LastCopies(saved) \subseteq batch
  BY DEF LastCopies
<1>3. QED
  BY <1>1, <1>2

\* What the cursor has passed is written no more: the content of an article below
\* the cursor leaves the database with the article only.
THEOREM ContentSettledHolds == Spec => ContentSettled
<1>1. TypeOK /\ BatchIsNew /\ [Next]_vars =>
          [\A b \in Boards : \A i \in filled[b] \ filled'[b] :
              i \notin stored'[b] \/ i > cursor[b]]_vars
  <2> SUFFICES ASSUME TypeOK, BatchIsNew, [Next]_vars,
                      NEW b \in Boards, NEW i \in filled[b] \ filled'[b]
               PROVE  i \notin stored'[b] \/ i > cursor[b]
    OBVIOUS
  <2>1. ASSUME NEW saved \in SUBSET batch, Upsert(saved), pc = "save"
        PROVE  i > cursor[b]
    BY <2>1, UpsertEmpties DEF BatchIsNew
  <2>2. CASE SaveArticles
    BY <2>1, <2>2 DEF SaveArticles
  <2>3. CASE SavePartially
    BY <2>1, <2>3 DEF SavePartially
  <2>4. CASE Restart
    <3>1. PICK old \in [Boards -> SUBSET Ids] :
              /\ stored' = [c \in Boards |-> stored[c] \ old[c]]
              /\ filled' = [c \in Boards |-> filled[c] \ old[c]]
      BY <2>4 DEF Restart
    <3>2. QED
      BY <3>1
  <2>5. ASSUME UNCHANGED filled PROVE FALSE
    BY <2>5
  <2>6. QED
    BY <2>2, <2>3, <2>4, <2>5
       DEF Next, Site, NextDay, Publish, Delete, Progress, StartRun, FetchPage,
           EndOfData, EndBoards, FetchContents, NothingToSave, FinishRun,
           BeginBoard, UpsertCursor, Failure, BoardFails, SaveFails, Panic, Crash,
           CursorReadFails, CursorWriteFails, vars, db
<1>2. Init => BatchIsNew
  BY DEF Init, BatchIsNew
<1>3. TypeOK /\ CursorInv /\ BatchIsNew /\ [Next]_vars => BatchIsNew'
  BY NextBatchIsNew
<1>4. QED
  BY <1>1, <1>2, <1>3, SpecCursorInv, PTL DEF Spec, ContentSettled
-----------------------------------------------------------------------------
(* What a step other than a publication changes, and how.                   *)

\* Saving keeps what is stored and adds at most what the cycle collected.
LEMMA UpsertStores ==
    ASSUME TypeOK, NEW saved \in SUBSET batch, Upsert(saved), NEW b \in Boards
    PROVE  /\ stored[b] \subseteq stored'[b]
           /\ stored'[b] \subseteq stored[b] \cup Collected(b)
           /\ excused'[b] = excused[b] \cup passed[b]
BY DEF Upsert, Collected

\* What any step but Publish may do to the state of board b.
StepShape(b) ==
    /\ UNCHANGED <<posted, createdOn>>
    /\ listed'[b] \subseteq listed[b]
    /\ today' >= today
    /\ stored'[b] \subseteq stored[b] \cup Collected(b)
    /\ \A i \in stored[b] : i \in stored'[b] \/ Expired(b, i)
    /\ excused[b] \subseteq excused'[b]
    /\ missed[b] \subseteq missed'[b]
    /\ cursor'[b] \in {cursor[b], newCursor[b]}
    /\ newCursor'[b] \in {0, newCursor[b]} \cup listed[b]
    /\ Collected(b)' \subseteq Collected(b) \cup listed[b]

\* Only StartRun, the list phase and the cursor phase go on with the cycle.
LEMMA StepShapeHolds ==
    ASSUME TypeOK, [Next]_vars, \A c \in Boards : ~Publish(c), NEW b \in Boards
    PROVE  StepShape(b)
<1> USE BoardsAssumption, BoundsAssumption DEF StepShape, record
<1>a. today \in Nat
  BY DEF TypeOK, Days
<1>1. CASE UNCHANGED vars
  BY <1>1, <1>a DEF Collected, vars, site, db, cycle, walk
<1>2. CASE NextDay
  BY <1>2, <1>a DEF NextDay, Collected, db, cycle, walk
<1>4. ASSUME NEW c \in Boards, NEW i \in Ids, Delete(c, i) PROVE StepShape(b)
  BY <1>4, <1>a DEF Delete, Collected, db, walk, TypeOK
<1>5. CASE StartRun
  BY <1>5, <1>a DEF StartRun, Collected, site, db, walk
<1>6. ASSUME NEW c \in Boards, BeginBoard(c) PROVE StepShape(b)
  BY <1>6, <1>a DEF BeginBoard, Collected, site, db
<1>7. ASSUME NEW c \in Boards, CursorReadFails(c) PROVE StepShape(b)
  BY <1>7, <1>a DEF CursorReadFails, Collected, site, db, walk
<1>8. CASE FetchPage
  <2>1. board \in Boards
    BY <1>8 DEF FetchPage, TypeOK
  <2> DEFINE taken == AboveStops(board, Rows(board, page)) \ Unreadable
  <2>2. taken \subseteq listed[board]
    BY DEF AboveStops, Rows, Beyond
  <2>3. PICK m \in taken \cup {newCursor[board]} :
            newCursor' = [newCursor EXCEPT ![board] = m]
    BY <1>8 DEF FetchPage, IsMaxOf
  <2>4. newCursor'[b] \in {newCursor[b]} \cup listed[b]
    BY <2>1, <2>2, <2>3 DEF TypeOK
  <2>5. Collected(b)' \subseteq Collected(b) \cup listed[b]
    BY <1>8, <2>2, CollectedByPage
  <2>6. QED
    BY <1>8, <1>a, <2>4, <2>5 DEF FetchPage, site, db
<1>9. CASE EndOfData
  BY <1>9, <1>a DEF EndOfData, Collected, site, db
<1>10. CASE BoardFails
  BY <1>10, <1>a DEF BoardFails, Collected, site, db, TypeOK
<1>11. CASE EndBoards
  BY <1>11, <1>a DEF EndBoards, Collected, site, db, walk
<1>12. CASE FetchContents
  BY <1>12, <1>a DEF FetchContents, Collected, site, db, walk
<1>13. CASE SaveArticles
  <2>1. Upsert(batch) /\ batch \in SUBSET batch
    BY <1>13 DEF SaveArticles
  <2>2. QED
    BY <1>13, <1>a, <2>1, UpsertStores DEF SaveArticles, Collected, site
<1>14. CASE SavePartially
  <2>1. PICK saved \in SUBSET batch : Upsert(saved)
    BY <1>14 DEF SavePartially
  <2>2. QED
    BY <1>14, <1>a, <2>1, UpsertStores
       DEF SavePartially, Misses, Collected, site, EndRun, ForgetCycle
<1>15. CASE SaveFails
  BY <1>15, <1>a DEF SaveFails, Collected, site, db, EndRun, ForgetCycle
<1>16. CASE NothingToSave
  BY <1>16, <1>a DEF NothingToSave, Collected, site, db, walk
<1>17. ASSUME NEW c \in Boards, UpsertCursor(c) PROVE StepShape(b)
  BY <1>17, <1>a DEF UpsertCursor, Collected, site, TypeOK
<1>18. ASSUME NEW c \in Boards, CursorWriteFails(c) PROVE StepShape(b)
  BY <1>18, <1>a DEF CursorWriteFails, Collected, site, db, TypeOK
<1>19. CASE FinishRun
  BY <1>19, <1>a DEF FinishRun, Collected, site, db, EndRun, ForgetCycle
<1>20. CASE Panic
  BY <1>20, <1>a DEF Panic, Collected, site, db, EndRun, ForgetCycle
<1>21. CASE Crash
  BY <1>21, <1>a DEF Crash, Collected, site, db, ForgetCycle
<1>22. CASE Restart
  <2>1. PICK old \in [Boards -> SUBSET Ids] :
            /\ \A c \in Boards : old[c] \subseteq {i \in stored[c] : Expired(c, i)}
            /\ stored' = [c \in Boards |-> stored[c] \ old[c]]
    BY <1>22 DEF Restart
  <2>2. stored'[b] = stored[b] \ old[b]
    BY <2>1
  <2>3. QED
    BY <1>22, <1>a, <2>1, <2>2 DEF Restart, Collected, site
<1>23. QED
  BY <1>1, <1>2, <1>4, <1>5, <1>6, <1>7, <1>8, <1>9, <1>10, <1>11, <1>12,
     <1>13, <1>14, <1>15, <1>16, <1>17, <1>18, <1>19, <1>20, <1>21, <1>22
     DEF Next, Site, Progress, Failure

\* Articles are known to the program only after the site published them, in
\* the order of their IDs and of their days.
LEMMA NextPublished == TypeOK /\ Published /\ [Next]_vars => Published'
<1> SUFFICES ASSUME TypeOK, Published, [Next]_vars PROVE Published'
  OBVIOUS
<1> USE BoundsAssumption
<1>1. ASSUME NEW b \in Boards, Publish(b) PROVE Published'
  <2>1. posted[b] + 1 \in Ids /\ posted[b] \in Nat
    BY <1>1 DEF Publish, TypeOK, Ids
  <2>2. SUFFICES ASSUME NEW c \in Boards
        PROVE /\ (listed[c] \cup stored[c] \cup Collected(c))' \subseteq 1..posted'[c]
              /\ cursor'[c] <= posted'[c] /\ newCursor'[c] <= posted'[c]
              /\ \A i, j \in 1..posted'[c] :
                    i <= j => createdOn'[c][i] <= createdOn'[c][j]
              /\ \A i \in 1..posted'[c] : createdOn'[c][i] <= today'
    BY DEF Published
  <2>3. UNCHANGED <<stored, cursor, newCursor, today, Collected(c)>>
    BY <1>1 DEF Publish, db, cycle, Collected
  <2>4. CASE c # b
    <3>1. UNCHANGED <<posted[c], listed[c], createdOn[c]>>
      BY <1>1, <2>4 DEF Publish, TypeOK
    <3>2. QED
      BY <2>3, <3>1 DEF Published
  <2>5. CASE c = b
    <3>1. /\ posted'[b] = posted[b] + 1
          /\ listed'[b] = listed[b] \cup {posted[b] + 1}
          /\ createdOn'[b] = [createdOn[b] EXCEPT ![posted[b] + 1] = today]
      BY <1>1 DEF Publish, TypeOK
    <3>2. \A i \in 1..posted[b] : createdOn'[b][i] = createdOn[b][i]
      BY <2>1, <3>1 DEF TypeOK, Ids
    <3>3. createdOn'[b][posted[b] + 1] = today /\ today \in Int
      BY <2>1, <3>1 DEF TypeOK, Days
    <3>4. 1..posted'[b] = (1..posted[b]) \cup {posted[b] + 1}
      BY <2>1, <3>1
    <3>5. \A i \in 1..posted[b] : i < posted[b] + 1
      BY <2>1
    <3>6. (listed[c] \cup stored[c] \cup Collected(c))' \subseteq 1..posted'[c]
      BY <2>3, <2>5, <3>1, <3>4 DEF Published
    <3>7. cursor'[c] <= posted'[c] /\ newCursor'[c] <= posted'[c]
      BY <2>1, <2>3, <2>5, <3>1 DEF Published, TypeOK
    <3>8. \A i \in 1..posted'[b] : createdOn'[b][i] <= today
      BY <3>2, <3>3, <3>4 DEF Published
    <3>9. \A i, j \in 1..posted'[b] :
              i <= j => createdOn'[b][i] <= createdOn'[b][j]
      <4>1. SUFFICES ASSUME NEW i \in 1..posted'[b], NEW j \in 1..posted'[b], i <= j
                     PROVE  createdOn'[b][i] <= createdOn'[b][j]
        OBVIOUS
      <4>2. CASE j = posted[b] + 1
        BY <3>3, <3>8, <4>2
      <4>3. CASE j # posted[b] + 1
        <5>1. i \in 1..posted[b] /\ j \in 1..posted[b]
          BY <2>1, <3>1, <4>1, <4>3
        <5>2. QED
          BY <3>2, <4>1, <5>1 DEF Published
      <4>4. QED
        BY <4>2, <4>3
    <3>10. QED
      BY <2>3, <2>5, <3>6, <3>7, <3>8, <3>9
  <2>6. QED
    BY <2>4, <2>5
<1>2. ASSUME \A c \in Boards : ~Publish(c) PROVE Published'
  <2>1. \A b \in Boards : StepShape(b)
    BY <1>2, StepShapeHolds
  <2>2. today \in Int /\ today' \in Int /\ \A b \in Boards : posted[b] \in Nat
    BY NextTypeOK DEF TypeOK, Days
  <2>3. \A b \in Boards : \A i \in 1..posted[b] : createdOn[b][i] \in Int
    BY DEF TypeOK, Days, Ids
  <2>4. QED
    BY <2>1, <2>2, <2>3 DEF StepShape, Published
<1>3. QED
  BY <1>1, <1>2

\* Once covered, an article stays covered: it is purged only when expired.
LEMMA CoveredStays ==
    ASSUME TypeOK, Published, [Next]_vars,
           NEW b \in Boards, NEW i \in 1..posted[b], Covered(b, i)
    PROVE  Covered(b, i)'
<1> USE BoundsAssumption
<1>1. i \in Ids /\ createdOn[b][i] \in Int /\ today \in Int /\ today' \in Int
  <2>1. posted[b] \in 0..MaxId
    BY DEF TypeOK
  <2>2. i \in Ids
    BY <2>1 DEF Ids
  <2>3. today' \in Days
    BY NextTypeOK DEF TypeOK
  <2>4. QED
    BY <2>2, <2>3 DEF TypeOK, Days
<1>2. ASSUME NEW c \in Boards, Publish(c) PROVE Covered(b, i)'
  <2>1. createdOn'[b][i] = createdOn[b][i]
    BY <1>1, <1>2 DEF Publish, TypeOK, Ids
  <2>2. QED
    BY <1>2, <2>1 DEF Publish, Covered, Expired, db, record
<1>3. ASSUME \A c \in Boards : ~Publish(c) PROVE Covered(b, i)'
  <2>1. StepShape(b)
    BY <1>3, StepShapeHolds
  <2>2. Expired(b, i) => Expired(b, i)'
    BY <1>1, <2>1 DEF StepShape, Expired
  <2>3. QED
    BY <2>1, <2>2 DEF StepShape, Covered
<1>4. QED
  BY <1>2, <1>3
-----------------------------------------------------------------------------
(* No loss.                                                                 *)

\* A row further down the list is an older article.
LEMMA RankAntitone ==
    ASSUME TypeOK, NEW b \in Boards, NEW i \in Ids, NEW j \in Ids, i <= j
    PROVE  Rank(b, j) <= Rank(b, i)
<1>1. MaxId \in Nat /\ listed[b] \in SUBSET (1..MaxId) /\ i \in Int /\ j \in Int
  BY BoundsAssumption DEF TypeOK, Ids
<1>2. QED
  BY <1>1, CountAntitone DEF Rank

\* The position of a row is a number.
LEMMA RankType ==
    ASSUME TypeOK, NEW b \in Boards, NEW i \in Ids
    PROVE  Rank(b, i) \in Nat
<1>1. MaxId \in Nat /\ listed[b] \in SUBSET (1..MaxId) /\ i \in Int
  BY BoundsAssumption DEF TypeOK, Ids
<1>2. QED
  BY <1>1, CountNewer DEF Rank

\* Publishing moves the articles of a board down the list, never up.
LEMMA PublishPushesDown ==
    ASSUME TypeOK, NEW b \in Boards, Publish(b), NEW c \in Boards,
           NEW i \in Ids, NEW n \in Int, i \in listed[c], i \in Beyond(c, n)
    PROVE  i \in Beyond(c, n)'
<1>1. TypeOK'
  BY NextTypeOK DEF Next, Site
<1>2. listed[c] \subseteq listed'[c]
  BY DEF Publish, TypeOK
<1>3. {k \in listed[c] : k >= i} \subseteq {k \in listed'[c] : k >= i}
  BY <1>2
<1>a. MaxId \in Nat /\ listed'[c] \in SUBSET (1..MaxId) /\ i \in Int
  BY <1>1, BoundsAssumption DEF TypeOK, Ids
<1>4. /\ IsFiniteSet({k \in listed'[c] : k >= i})
      /\ Cardinality({k \in listed'[c] : k >= i}) \in Nat
  BY <1>a, CountNewer
<1>5. Rank(c, i) <= Rank(c, i)'
  BY <1>3, <1>4, FS_Subset DEF Rank
<1>6. Rank(c, i) \in Nat /\ Rank(c, i)' \in Nat
  BY <1>4, RankType DEF Rank
<1>7. QED
  BY <1>2, <1>5, <1>6 DEF Beyond

\* Deleting x lets only the first row of the next page through to the pages
\* already fetched, and PulledUp has it.
LEMMA DeletePullsUp ==
    ASSUME TypeOK, NEW b \in Boards, NEW x \in Ids, Delete(b, x),
           NEW i \in listed'[b], b = board,
           i \in Beyond(b, (page - 1) * PageSize),
           i \notin Beyond(b, (page - 1) * PageSize)'
    PROVE  i \in passed'[b]
<1> DEFINE n == (page - 1) * PageSize
<1>1. n \in Int
  BY BoundsAssumption DEF TypeOK
<1>2. listed'[b] = listed[b] \ {x} /\ x \in listed[b] /\ page' = page
  BY DEF Delete, walk, TypeOK
<1>3. i \in Ids /\ i # x /\ i \in listed[b]
  BY <1>2 DEF TypeOK
<1>4. /\ MaxId \in Nat /\ listed[b] \in SUBSET (1..MaxId)
      /\ i \in Int /\ x \in Int
  BY <1>3, BoundsAssumption DEF TypeOK, Ids
<1>5. Rank(b, i)' = IF x >= i THEN Rank(b, i) - 1 ELSE Rank(b, i)
  <2>1. Rank(b, i) = Newer(listed[b], i) /\ Rank(b, i)' = Newer(listed[b] \ {x}, i)
    BY <1>2 DEF Rank, Newer
  <2>2. x \in listed[b] /\ MaxId \in Nat /\ listed[b] \in SUBSET (1..MaxId) /\ i \in Int
    BY <1>2, <1>4
  <2>3. Newer(listed[b] \ {x}, i) =
          IF x >= i THEN Newer(listed[b], i) - 1 ELSE Newer(listed[b], i)
    BY <2>2, NewerWithout
  <2>4. QED
    BY <2>1, <2>3
<1>6. Rank(b, i) \in Nat
  BY <1>3, RankType
<1>7. Rank(b, i) > n
  BY <1>1 DEF Beyond
<1>8. ~(Rank(b, i)' > n)
  BY <1>2 DEF Beyond
<1>9. x > i /\ Rank(b, i) = n + 1
  BY <1>1, <1>3, <1>4, <1>5, <1>6, <1>7, <1>8
<1>10. i \in PulledUp(b, x)
  BY <1>3, <1>9 DEF PulledUp
<1>11. QED
  BY <1>10 DEF Delete, TypeOK

\* The argument for a walk's last page: what its first stop is not newer than
\* was covered by an earlier cycle.
LEMMA StopCovers ==
    ASSUME TypeOK, Published, CursorInv, LossesCovered, StoredCovers, WalkBaseline,
           pc = "walk", NEW s \in Stops(board, Rows(board, page)),
           NEW i \in listed[board], i <= s
    PROVE  Covered(board, i)
<1> USE BoundsAssumption
<1>1. board \in Boards /\ s \in listed[board]
  BY DEF TypeOK, Stops, Rows, Beyond
<1>2. s \in 1..posted[board] /\ i \in 1..posted[board] /\ posted[board] \in 0..MaxId
  BY <1>1 DEF Published, TypeOK
<1>3. CASE s <= lastCursor
  <2>1. i <= cursor[board]
    BY <1>1, <1>2, <1>3 DEF CursorInv, TypeOK
  <2>2. QED
    BY <1>1, <2>1 DEF LossesCovered
<1>4. CASE createdOn[board][s] < lastDate
  <2>1. /\ s \in Ids /\ createdOn[board][s] \in Nat \ {0} /\ lastDate # 0
        /\ i \in Ids /\ createdOn[board][i] \in Nat
    BY <1>1, <1>2, <1>4 DEF TypeOK, Days, Ids
  <2>2. PICK j \in stored[board] : createdOn[board][j] = lastDate
    BY <2>1 DEF WalkBaseline
  <2>3. createdOn[board][i] <= createdOn[board][s]
    BY <1>1, <1>2 DEF Published
  <2>4. createdOn[board][i] < createdOn[board][j]
    BY <1>4, <2>1, <2>2, <2>3 DEF TypeOK
  <2>5. QED
    BY <1>1, <2>2, <2>4 DEF StoredCovers
<1>5. QED
  BY <1>3, <1>4 DEF Stops

\* After the list phase of a board everything up to its new cursor is
\* accounted for.
LEMMA BoardAccounted ==
    ASSUME TypeOK, CursorInv, WalkedIsAccounted, PassedIsExcused,
           pc \in {"save", "cursors"}, NEW b \in Boards,
           NEW i \in listed[b], i <= newCursor[b]
    PROVE  i \in Collected(b) \/ i \in passed[b] \/ Covered(b, i)
<1>1. b # board
  BY BoardsAssumption DEF TypeOK
<1>2. QED
  BY <1>1 DEF WalkedIsAccounted

\* A step keeps every article at or below the cursor covered: the only step
\* that raises the cursor, UpsertCursor, comes after the walk was accounted for.
LEMMA NextLossesCovered ==
    ASSUME TypeOK, Published, CursorInv, LossesCovered, CoverInv, [Next]_vars
    PROVE  LossesCovered'
<1> SUFFICES ASSUME NEW b \in Boards, NEW i \in listed'[b], i <= cursor'[b]
             PROVE  Covered(b, i)'
  BY DEF LossesCovered
<1> USE BoundsAssumption
<1>1. ASSUME NEW c \in Boards, Publish(c) PROVE Covered(b, i)'
  <2>1. cursor' = cursor /\ cursor[b] \in Nat /\ cursor[b] <= posted[b] /\ posted[b] \in Nat
    BY <1>1 DEF Publish, db, Published, TypeOK
  <2>2. i \in listed[b]
    BY <1>1, <2>1 DEF Publish, TypeOK
  <2>3. i \in 1..posted[b] /\ Covered(b, i)
    BY <2>1, <2>2 DEF LossesCovered, Published
  <2>4. QED
    BY <2>3, CoveredStays
<1>2. ASSUME \A c \in Boards : ~Publish(c) PROVE Covered(b, i)'
  <2>1. i \in listed[b]
    BY <1>2, StepShapeHolds DEF StepShape
  <2>2. i \in 1..posted[b]
    BY <2>1 DEF Published
  <2>3. CASE cursor'[b] = cursor[b]
    <3>1. Covered(b, i)
      BY <2>1, <2>3 DEF LossesCovered
    <3>2. QED
      BY <2>2, <3>1, CoveredStays
  <2>4. CASE cursor'[b] # cursor[b]
    <3>1. UpsertCursor(b)
      BY <2>4, CursorSteps
    <3>2. pc = "cursors" /\ newCursor[b] # 0 /\ i <= newCursor[b]
      BY <3>1 DEF UpsertCursor, TypeOK
    <3>3. i \in Collected(b) \/ i \in passed[b] \/ Covered(b, i)
      BY <2>1, <3>2, BoardAccounted DEF CoverInv
    <3>4. Covered(b, i)
      BY <3>2, <3>3 DEF CursorInv, CoverInv, PassedIsExcused, Covered
    <3>5. QED
      BY <2>2, <3>4, CoveredStays
  <2>5. QED
    BY <2>3, <2>4
<1>3. QED
  BY <1>1, <1>2
\* Only a save adds stored articles.
LEMMA StoreSteps ==
    ASSUME TypeOK, [Next]_vars, NEW b \in Boards, NEW j \in stored'[b], j \notin stored[b]
    PROVE  SaveArticles \/ SavePartially
<1>1. ASSUME stored' = stored PROVE FALSE
  BY <1>1
<1>2. ASSUME Restart PROVE FALSE
  BY <1>2 DEF Restart, TypeOK
<1>3. QED
  BY <1>1, <1>2
     DEF Next, Site, NextDay, Publish, Delete, Progress, StartRun, FetchPage,
         EndOfData, EndBoards, FetchContents, NothingToSave, FinishRun,
         BeginBoard, UpsertCursor, Failure, BoardFails, SaveFails, Panic, Crash,
         CursorReadFails, CursorWriteFails, vars, db

\* A save stores articles of days before which everything is accounted for; of
\* what a partial save leaves out, Misses records what is older than a stored day.
LEMMA NextStoredCovers ==
    ASSUME TypeOK, Published, CursorInv, LossesCovered, CoverInv, [Next]_vars
    PROVE  StoredCovers'
<1> SUFFICES ASSUME NEW b \in Boards, NEW j \in stored'[b], NEW i \in listed'[b],
                    createdOn'[b][i] < createdOn'[b][j]
             PROVE  Covered(b, i)'
  BY DEF StoredCovers
<1> USE BoundsAssumption
<1>1. ASSUME NEW c \in Boards, Publish(c) PROVE Covered(b, i)'
  <2>1. stored' = stored /\ posted[b] \in Nat
    BY <1>1 DEF Publish, db, TypeOK
  <2>2. j \in 1..posted[b] /\ posted[b] \in 0..MaxId
    BY <2>1 DEF Published, TypeOK
  <2>3. \A k \in 1..posted[b] : createdOn'[b][k] = createdOn[b][k]
    BY <1>1 DEF Publish, TypeOK, Ids
  <2>4. ASSUME i \notin listed[b] PROVE FALSE
    <3>1. b = c /\ i = posted[b] + 1
      BY <1>1, <2>4 DEF Publish, TypeOK
    <3>2. createdOn'[b][i] = today
      BY <1>1, <2>2, <3>1 DEF Publish, TypeOK, Ids
    <3>3. j \in Ids /\ createdOn'[b][j] = createdOn[b][j]
      BY <2>2, <2>3 DEF Ids
    <3>4. createdOn[b][j] <= today
      BY <2>2 DEF Published
    <3>5. today \in Int /\ createdOn[b][j] \in Int
      BY <3>3 DEF TypeOK, Days
    <3>6. QED
      BY <3>2, <3>3, <3>4, <3>5
  <2>5. i \in 1..posted[b]
    BY <2>4 DEF Published
  <2>6. Covered(b, i)
    BY <2>1, <2>2, <2>3, <2>4, <2>5 DEF CoverInv, StoredCovers
  <2>7. QED
    BY <2>5, <2>6, CoveredStays
<1>2. ASSUME \A c \in Boards : ~Publish(c) PROVE Covered(b, i)'
  <2>1. i \in listed[b] /\ createdOn' = createdOn
    BY <1>2, StepShapeHolds DEF StepShape
  <2>2. i \in 1..posted[b] /\ posted[b] \in 0..MaxId
    BY <2>1 DEF Published, TypeOK
  <2>3. CASE j \in stored[b]
    BY <2>1, <2>2, <2>3, CoveredStays DEF CoverInv, StoredCovers
  <2>4. CASE j \notin stored[b]
    <3>1. SaveArticles \/ SavePartially
      BY <2>4, StoreSteps
    <3>2. pc = "save" /\ \E saved \in SUBSET batch : Upsert(saved)
      BY <3>1 DEF SaveArticles, SavePartially
    <3>3. j \in Collected(b) /\ excused'[b] = excused[b] \cup passed[b]
      BY <2>4, <3>2, UpsertStores
    <3>4. j \in 1..posted[b] /\ j <= newCursor[b] /\ newCursor[b] \in Int
      BY <3>2, <3>3 DEF CoverInv, BatchBelowCursor, Published, TypeOK
    <3>5. i <= newCursor[b]
      <4>1. j <= i => createdOn[b][j] <= createdOn[b][i]
        BY <2>2, <3>4 DEF Published
      <4>2. createdOn[b][i] \in Int /\ createdOn[b][j] \in Int
        BY <2>2, <3>4 DEF TypeOK, Ids, Days
      <4>3. ~(j <= i)
        BY <2>1, <4>1, <4>2
      <4>4. QED
        BY <2>2, <3>4, <4>3
    <3>6. i \in Collected(b) \/ i \in passed[b] \/ Covered(b, i)
      BY <2>1, <3>2, <3>5, BoardAccounted DEF CoverInv
    <3>7. i \in Collected(b) => i \in stored'[b] \cup missed'[b]
      <4>1. CASE SaveArticles
        BY <4>1 DEF SaveArticles, Upsert, Collected
      <4>2. CASE SavePartially
        BY <2>1, <4>2 DEF SavePartially, Misses
      <4>3. QED
        BY <3>1, <4>1, <4>2
    <3>8. QED
      BY <2>2, <3>3, <3>6, <3>7, CoveredStays DEF Covered
  <2>5. QED
    BY <2>3, <2>4
<1>3. QED
  BY <1>1, <1>2

\* The date read before the walk stays that of a stored article: only Restart
\* removes articles, and no walk survives a restart.
LEMMA NextWalkBaseline ==
    ASSUME TypeOK, Published, WalkBaseline, [Next]_vars
    PROVE  WalkBaseline'
<1> USE BoardsAssumption, BoundsAssumption
<1>1. CASE UNCHANGED vars
  BY <1>1 DEF WalkBaseline, vars, site, db, cycle, walk
<1>2. CASE NextDay
  BY <1>2 DEF NextDay, WalkBaseline, db, cycle, walk
<1>3. ASSUME NEW b \in Boards, Publish(b) PROVE WalkBaseline'
  <2>1. UNCHANGED <<pc, board, lastDate, stored>>
    BY <1>3 DEF Publish, db, cycle, walk
  <2>2. \A c \in Boards : \A j \in 1..posted[c] : createdOn'[c][j] = createdOn[c][j]
    BY <1>3 DEF Publish, TypeOK, Ids
  <2>3. pc = "walk" => board \in Boards
    BY DEF TypeOK
  <2>4. QED
    BY <2>1, <2>2, <2>3 DEF WalkBaseline, Published
<1>4. ASSUME NEW b \in Boards, NEW i \in Ids, Delete(b, i) PROVE WalkBaseline'
  BY <1>4 DEF Delete, WalkBaseline, db, walk
<1>6. ASSUME NEW b \in Boards, BeginBoard(b) PROVE WalkBaseline'
  <2>1. \/ lastDate' = 0
        \/ \E d \in {createdOn[b][i] : i \in stored[b]} : lastDate' = d
    BY <1>6 DEF BeginBoard, IsMaxOf
  <2>2. board' = b /\ UNCHANGED <<stored, createdOn>>
    BY <1>6 DEF BeginBoard, site, db
  <2>3. QED
    BY <2>1, <2>2 DEF WalkBaseline
<1>8. CASE FetchPage
  BY <1>8 DEF FetchPage, EndWalk, WalkBaseline, site, db
<1>9. ASSUME pc' # "walk" PROVE WalkBaseline'
  BY <1>9 DEF WalkBaseline
<1>10. QED
  BY <1>1, <1>2, <1>3, <1>4, <1>6, <1>8, <1>9
     DEF Next, Site, Progress, StartRun, EndOfData, EndBoards, EndWalk,
         FetchContents, SaveArticles, NothingToSave, FinishRun, Restart, EndRun,
         UpsertCursor, Failure, BoardFails, SavePartially, SaveFails, Panic,
         Crash, CursorReadFails, CursorWriteFails

\* What the cycle went past is on record before its cursors are written.
LEMMA NextPassedIsExcused ==
    ASSUME TypeOK, CursorInv, PassedIsExcused, [Next]_vars
    PROVE  PassedIsExcused'
<1> USE BoardsAssumption, BoundsAssumption DEF record
<1>1. CASE UNCHANGED vars
  BY <1>1 DEF PassedIsExcused, vars, cycle
<1>2. CASE NextDay
  BY <1>2 DEF NextDay, PassedIsExcused, cycle
<1>3. ASSUME NEW b \in Boards, Publish(b) PROVE PassedIsExcused'
  BY <1>3 DEF Publish, PassedIsExcused, cycle
<1>4. ASSUME NEW b \in Boards, NEW i \in Ids, Delete(b, i) PROVE PassedIsExcused'
  <2>1. pc = "cursors" => PulledUp(b, i) = {}
    BY DEF PulledUp, TypeOK
  <2>2. QED
    BY <1>4, <2>1 DEF Delete, PassedIsExcused, TypeOK
<1>5. CASE SaveArticles
  BY <1>5 DEF SaveArticles, Upsert, PassedIsExcused
<1>6. CASE NothingToSave
  BY <1>6 DEF NothingToSave, PassedIsExcused, CursorInv, Collected
<1>7. ASSUME NEW b \in Boards, UpsertCursor(b) PROVE PassedIsExcused'
  BY <1>7 DEF UpsertCursor, PassedIsExcused, TypeOK
<1>8. ASSUME NEW b \in Boards, CursorWriteFails(b) PROVE PassedIsExcused'
  BY <1>8 DEF CursorWriteFails, PassedIsExcused, TypeOK
<1>9. ASSUME pc' # "cursors" PROVE PassedIsExcused'
  BY <1>9 DEF PassedIsExcused
<1>10. QED
  BY <1>1, <1>2, <1>3, <1>4, <1>5, <1>6, <1>7, <1>8, <1>9
     DEF Next, Site, Progress, StartRun, FetchPage, EndOfData, EndBoards,
         EndWalk, FetchContents, FinishRun, Restart, EndRun, BeginBoard, Failure,
         BoardFails, SavePartially, SaveFails, Panic, Crash, CursorReadFails
\* The new cursor of a board is never below an article collected from it.
LEMMA NextBatchBelowCursor ==
    ASSUME TypeOK, BatchBelowCursor, [Next]_vars
    PROVE  BatchBelowCursor'
<1> USE BoardsAssumption, BoundsAssumption
<1>1. CASE UNCHANGED <<pc, batch, newCursor>>
  BY <1>1 DEF BatchBelowCursor, Collected
<1>2. CASE StartRun \/ EndBoards \/ FetchContents \/ EndOfData
           \/ \E b \in Boards : BeginBoard(b)
  BY <1>2 DEF StartRun, EndBoards, FetchContents, EndOfData, BeginBoard, EndWalk,
              BatchBelowCursor, Collected
<1>3. CASE FetchPage
  <2> DEFINE taken == AboveStops(board, Rows(board, page)) \ Unreadable
  <2>1. board \in Boards /\ pc = "walk"
    BY <1>3 DEF FetchPage, TypeOK
  <2>2. PICK m \in 0..MaxId : /\ IsMaxOf(m, taken \cup {newCursor[board]})
                              /\ newCursor' = [newCursor EXCEPT ![board] = m]
    BY <1>3 DEF FetchPage
  <2>3. \A b \in Boards : \A i \in Collected(b)' : i <= newCursor'[b]
    <3>1. SUFFICES ASSUME NEW b \in Boards, NEW i \in Collected(b)'
                   PROVE  i <= newCursor'[b]
      OBVIOUS
    <3>2. CASE b # board
      BY <1>3, <2>1, <2>2, <3>2, CollectedByPage DEF BatchBelowCursor, TypeOK
    <3>3. CASE b = board
      <4>1. i \in Collected(b) \cup taken
        BY <1>3, <3>3, CollectedByPage
      <4>2. newCursor'[b] = m /\ newCursor[b] <= m /\ newCursor[b] \in Int
        BY <2>1, <2>2, <3>3 DEF IsMaxOf, TypeOK
      <4>3. CASE i \in taken
        BY <2>2, <4>2, <4>3 DEF IsMaxOf
      <4>4. CASE i \in Collected(b)
        <5>1. i <= newCursor[b] /\ i \in Int
          BY <2>1, <4>4 DEF BatchBelowCursor, Collected, TypeOK, Entry, Ids
        <5>2. QED
          BY <4>2, <5>1
      <4>5. QED
        BY <4>1, <4>3, <4>4
    <3>4. QED
      BY <3>2, <3>3
  <2>4. QED
    BY <2>3 DEF BatchBelowCursor
<1>4. CASE BoardFails
  <2>1. \A b \in Boards \ {board} : newCursor'[b] = newCursor[b]
    BY <1>4 DEF BoardFails, TypeOK
  <2>2. \A b \in Boards : Collected(b)' \subseteq {i \in Collected(b) : b # board}
    BY <1>4 DEF BoardFails, Collected
  <2>3. pc = "walk"
    BY <1>4 DEF BoardFails
  <2>4. QED
    BY <2>1, <2>2, <2>3 DEF BatchBelowCursor
<1>5. ASSUME batch' = {} PROVE BatchBelowCursor'
  BY <1>5 DEF BatchBelowCursor, Collected
<1>6. ASSUME pc' = "cursors" PROVE BatchBelowCursor'
  BY <1>6 DEF BatchBelowCursor
<1>7. CASE Restart
  <2>1. batch' = {}
    BY <1>7 DEF Restart, TypeOK
  <2>2. QED
    BY <1>5, <2>1
<1>8. QED
  BY <1>1, <1>2, <1>3, <1>4, <1>5, <1>6, <1>7
     DEF Next, Site, NextDay, Publish, Delete, Progress, SaveArticles,
         NothingToSave, FinishRun, EndRun, ForgetCycle, UpsertCursor, Failure,
         SavePartially, SaveFails, Panic, Crash, CursorReadFails,
         CursorWriteFails, vars, cycle

\* FetchPage accounts for every row of the page and, when it ends the walk, for
\* everything below: covered by the cursor, by the date, or passed at the limit.
LEMMA PageAccounted ==
    ASSUME TypeOK, Published, CursorInv, LossesCovered, CoverInv, FetchPage, [Next]_vars
    PROVE  WalkedIsAccounted'
<1> USE BoardsAssumption, BoundsAssumption
<1> DEFINE n     == (page - 1) * PageSize
           S     == Rows(board, page)
           taken == AboveStops(board, S) \ Unreadable
           last  == Stops(board, S) # {} \/ AtLastPage
<1>1. board \in Boards /\ pc = "walk" /\ page \in Int /\ n \in Int
  BY DEF FetchPage, TypeOK
<1>2. UNCHANGED listed
  BY DEF FetchPage, site
<1>3. PICK m \in 0..MaxId : /\ IsMaxOf(m, taken \cup {newCursor[board]})
                            /\ newCursor' = [newCursor EXCEPT ![board] = m]
  BY DEF FetchPage
<1>4. passed'[board] = passed[board] \cup (AboveStops(board, S) \cap Unreadable)
          \cup {i \in Beyond(board, page * PageSize) : Stops(board, S) = {} /\ AtLastPage}
  BY <1>1 DEF FetchPage, TypeOK
<1>5. /\ last => board' = NoBoard
      /\ ~last => board' = board /\ page' = page + 1
  BY DEF FetchPage, EndWalk, ForgetWalk
<1> SUFFICES ASSUME NEW b \in Boards, NEW i \in listed[b], i <= newCursor'[b],
                    b = board' => i \notin Beyond(b, (page - 1) * PageSize)'
             PROVE  i \in Collected(b)' \/ i \in passed'[b] \/ Covered(b, i)'
  BY <1>2 DEF WalkedIsAccounted
<1>6. i \in 1..posted[b] /\ i \in Ids
  BY DEF Published, TypeOK
<1>7. Covered(b, i) => Covered(b, i)'
  BY <1>6, CoveredStays
<1>8. CASE b # board
  <2>1. newCursor'[b] = newCursor[b] /\ passed'[b] = passed[b]
    BY <1>1, <1>3, <1>8 DEF FetchPage, TypeOK
  <2>2. i \in Collected(b) \/ i \in passed[b] \/ Covered(b, i)
    BY <1>8, <2>1 DEF CoverInv, WalkedIsAccounted
  <2>3. QED
    BY <1>7, <2>1, <2>2, CollectedByPage
<1>9. CASE b = board
  <2>1. Collected(b)' = Collected(b) \cup taken
    BY <1>9, CollectedByPage
  <2>2. newCursor'[b] = m
    BY <1>3, <1>9 DEF TypeOK
  <2>3. CASE i \notin Beyond(b, n)  \* on an earlier page
    <3>1. i <= newCursor[b]
      <4>1. ASSUME m \in taken PROVE i > m
        <5>1. m \in Beyond(b, n) /\ m \in Ids
          BY <1>9, <4>1 DEF AboveStops, Rows, Beyond, TypeOK
        <5>2. Rank(b, m) > n /\ ~(Rank(b, i) > n) /\ Rank(b, m) \in Nat /\ Rank(b, i) \in Nat
          BY <1>6, <2>3, <5>1, RankType DEF Beyond
        <5>3. i <= m => Rank(b, m) <= Rank(b, i)
          BY <1>6, <5>1, RankAntitone
        <5>4. QED
          BY <1>1, <1>6, <5>1, <5>2, <5>3 DEF Ids
      <4>2. m = newCursor[b]
        BY <1>3, <1>6, <1>9, <2>2, <4>1 DEF IsMaxOf, Ids
      <4>3. QED
        BY <2>2, <4>2
    <3>2. i \in Collected(b) \/ i \in passed[b] \/ Covered(b, i)
      BY <2>3, <3>1 DEF CoverInv, WalkedIsAccounted
    <3>3. QED
      BY <1>4, <1>7, <1>9, <2>1, <3>2
  <2>4. CASE i \in S /\ i \in AboveStops(b, S)  \* taken, or not readable
    BY <1>4, <1>9, <2>1, <2>4
  <2>5. CASE \E s \in Stops(b, S) : i <= s  \* not newer than what ended the walk
    <3>1. Covered(b, i)
      BY <1>1, <1>9, <2>5, StopCovers DEF CoverInv
    <3>2. QED
      BY <1>7, <3>1
  <2>6. CASE /\ i \in Beyond(b, n)
             /\ i \notin S
             /\ \A s \in Stops(b, S) : ~(i <= s)  \* below the page
    <3>1. i \in Beyond(b, page * PageSize)
      BY <1>9, <2>6 DEF Rows
    <3>2. Stops(b, S) = {}
      <4>1. SUFFICES ASSUME NEW s \in Stops(b, S) PROVE FALSE
        OBVIOUS
      <4>2. s \in Ids /\ s \in listed[b] /\ s \notin Beyond(b, page * PageSize)
        BY <1>9 DEF Stops, Rows, Beyond, TypeOK
      <4>3. s <= i
        BY <1>6, <2>6, <4>2 DEF Ids
      <4>4. Rank(b, i) <= Rank(b, s) /\ Rank(b, i) \in Nat /\ Rank(b, s) \in Nat
        BY <1>6, <4>2, <4>3, RankAntitone, RankType
      <4>5. page * PageSize \in Int
        BY <1>1
      <4>6. QED
        BY <3>1, <4>2, <4>4, <4>5 DEF Beyond
    <3>3. AtLastPage
      <4>1. SUFFICES ASSUME ~AtLastPage PROVE FALSE
        OBVIOUS
      <4>2. board' = b /\ page' = page + 1
        BY <1>5, <1>9, <3>2, <4>1
      <4>3. page' - 1 = page
        BY <1>1, <4>2
      <4>4. i \in Beyond(b, (page - 1) * PageSize)'
        BY <1>2, <3>1, <4>3 DEF Beyond, Rank
      <4>5. QED
        BY <4>2, <4>4
    <3>4. QED
      BY <1>4, <1>9, <3>1, <3>2, <3>3
  <2>7. QED
    <3>1. i \in S => i \in AboveStops(b, S) \/ \E s \in Stops(b, S) : i <= s
      <4>1. \A s \in Stops(b, S) : s \in Ids
        BY <1>9 DEF Stops, Rows, Beyond, TypeOK
      <4>2. QED
        BY <1>6, <4>1 DEF AboveStops, Ids
    <3>2. QED
      BY <2>3, <2>4, <2>5, <2>6, <3>1
<1>10. QED
  BY <1>8, <1>9
\* Every other step keeps the walk accounted for; publishing and deleting move
\* rows between pages, which PublishPushesDown and PulledUp take care of.
LEMMA NextWalkedIsAccounted ==
    ASSUME TypeOK, Published, CursorInv, LossesCovered, CoverInv, [Next]_vars
    PROVE  WalkedIsAccounted'
<1> USE BoardsAssumption, BoundsAssumption
<1>1. ASSUME UNCHANGED <<listed, newCursor, board, page, batch, passed>>
      PROVE  WalkedIsAccounted'
  <2>1. SUFFICES ASSUME NEW b \in Boards, NEW i \in listed[b], i <= newCursor[b],
                        b = board => i \notin Beyond(b, (page - 1) * PageSize)
                 PROVE  i \in Collected(b) \/ i \in passed[b] \/ Covered(b, i)'
    BY <1>1 DEF WalkedIsAccounted, Collected, Beyond, Rank
  <2>2. i \in Collected(b) \/ i \in passed[b] \/ Covered(b, i)
    BY <2>1 DEF CoverInv, WalkedIsAccounted
  <2>3. i \in 1..posted[b]
    BY DEF Published
  <2>4. QED
    BY <2>2, <2>3, CoveredStays
<1>2. ASSUME \A b \in Boards : newCursor'[b] = 0 PROVE WalkedIsAccounted'
  <2>1. TypeOK'
    BY NextTypeOK
  <2>2. \A b \in Boards : \A i \in listed'[b] : ~(i <= newCursor'[b])
    BY <1>2, <2>1 DEF TypeOK, Ids
  <2>3. QED
    BY <2>2 DEF WalkedIsAccounted
<1>3. ASSUME NEW c \in Boards, Publish(c) PROVE WalkedIsAccounted'
  <2>1. SUFFICES ASSUME NEW b \in Boards, NEW i \in listed'[b], i <= newCursor[b],
                        b = board => i \notin Beyond(b, (page - 1) * PageSize)'
                 PROVE  i \in Collected(b) \/ i \in passed[b] \/ Covered(b, i)'
    BY <1>3 DEF Publish, cycle, walk, WalkedIsAccounted, Collected
  <2>2. i \in listed[b]
    BY <1>3, <2>1 DEF Publish, Published, TypeOK
  <2>3. i \in Ids /\ (page - 1) * PageSize \in Int
    BY <2>2 DEF TypeOK
  <2>4. b = board => i \notin Beyond(b, (page - 1) * PageSize)
    <3>1. page' = page
      BY <1>3 DEF Publish, cycle, walk
    <3>2. ASSUME NEW n \in Int, i \in Beyond(b, n) PROVE i \in Beyond(b, n)'
      BY <1>3, <2>2, <2>3, <3>2, PublishPushesDown
    <3>3. QED
      BY <2>1, <2>3, <3>1, <3>2 DEF Beyond
  <2>5. i \in Collected(b) \/ i \in passed[b] \/ Covered(b, i)
    BY <2>1, <2>2, <2>4 DEF CoverInv, WalkedIsAccounted
  <2>6. i \in 1..posted[b]
    BY <2>2 DEF Published
  <2>7. QED
    BY <2>5, <2>6, CoveredStays
<1>4. ASSUME NEW c \in Boards, NEW x \in Ids, Delete(c, x) PROVE WalkedIsAccounted'
  <2>1. SUFFICES ASSUME NEW b \in Boards, NEW i \in listed'[b], i <= newCursor[b],
                        b = board => i \notin Beyond(b, (page - 1) * PageSize)'
                 PROVE  i \in Collected(b) \/ i \in passed'[b] \/ Covered(b, i)'
    BY <1>4 DEF Delete, walk, WalkedIsAccounted, Collected
  <2>2. i \in listed[b] /\ passed[b] \subseteq passed'[b] /\ page' = page
    BY <1>4, <2>1 DEF Delete, walk, TypeOK
  <2>3. i \in 1..posted[b]
    BY <2>2 DEF Published
  <2>4. CASE b = board => i \notin Beyond(b, (page - 1) * PageSize)
    <3>1. i \in Collected(b) \/ i \in passed[b] \/ Covered(b, i)
      BY <2>1, <2>2, <2>4 DEF CoverInv, WalkedIsAccounted
    <3>2. QED
      BY <2>2, <2>3, <3>1, CoveredStays
  <2>5. CASE b = board /\ i \in Beyond(b, (page - 1) * PageSize)
    <3>1. CASE b = c
      BY <1>4, <2>1, <2>5, <3>1, DeletePullsUp
    <3>2. CASE b # c
      <4>1. listed'[b] = listed[b]
        BY <1>4, <3>2 DEF Delete, TypeOK
      <4>2. i \in Beyond(b, (page - 1) * PageSize)'
        BY <2>2, <2>5, <4>1 DEF Beyond, Rank
      <4>3. QED
        BY <2>1, <2>5, <4>2
    <3>3. QED
      BY <3>1, <3>2
  <2>6. QED
    BY <2>4, <2>5
<1>5. ASSUME NEW c \in Boards, BeginBoard(c) PROVE WalkedIsAccounted'
  <2>1. SUFFICES ASSUME NEW b \in Boards, NEW i \in listed[b], i <= newCursor[b]
                 PROVE  i \in Collected(b) \/ i \in passed[b] \/ Covered(b, i)'
    BY <1>5 DEF BeginBoard, site, WalkedIsAccounted, Collected
  <2>2. b # board
    BY <1>5 DEF BeginBoard, TypeOK
  <2>3. i \in Collected(b) \/ i \in passed[b] \/ Covered(b, i)
    BY <2>1, <2>2 DEF CoverInv, WalkedIsAccounted
  <2>4. i \in 1..posted[b]
    BY DEF Published
  <2>5. QED
    BY <2>3, <2>4, CoveredStays
<1>6. CASE FetchPage
  BY <1>6, PageAccounted
<1>7. CASE EndOfData
  <2>1. SUFFICES ASSUME NEW b \in Boards, NEW i \in listed[b], i <= newCursor[b]
                 PROVE  i \in Collected(b) \/ i \in passed[b] \/ Covered(b, i)'
    BY <1>7 DEF EndOfData, site, WalkedIsAccounted, Collected
  <2>2. b = board => i \notin Beyond(b, (page - 1) * PageSize)
    BY <1>7 DEF EndOfData
  <2>3. i \in Collected(b) \/ i \in passed[b] \/ Covered(b, i)
    BY <2>1, <2>2 DEF CoverInv, WalkedIsAccounted
  <2>4. i \in 1..posted[b]
    BY DEF Published
  <2>5. QED
    BY <2>3, <2>4, CoveredStays
<1>8. CASE BoardFails
  <2>1. SUFFICES ASSUME NEW b \in Boards, NEW i \in listed[b], i <= newCursor'[b]
                 PROVE  i \in Collected(b)' \/ i \in passed'[b] \/ Covered(b, i)'
    BY <1>8 DEF BoardFails, site, WalkedIsAccounted
  <2>2. i \in 1..posted[b]
    BY DEF Published
  <2>3. b # board /\ newCursor'[b] = newCursor[b] /\ passed'[b] = passed[b]
    BY <1>8, <2>1, <2>2 DEF BoardFails, TypeOK
  <2>4. Collected(b) \subseteq Collected(b)'
    BY <1>8, <2>3 DEF BoardFails, Collected
  <2>5. i \in Collected(b) \/ i \in passed[b] \/ Covered(b, i)
    BY <2>1, <2>3 DEF CoverInv, WalkedIsAccounted
  <2>6. QED
    BY <2>2, <2>3, <2>4, <2>5, CoveredStays
<1>9. ASSUME NEW c \in Boards, UpsertCursor(c) \/ CursorWriteFails(c)
      PROVE  WalkedIsAccounted'
  <2>1. SUFFICES ASSUME NEW b \in Boards, NEW i \in listed[b], i <= newCursor'[b]
                 PROVE  i \in Collected(b) \/ i \in passed[b] \/ Covered(b, i)'
    BY <1>9 DEF UpsertCursor, CursorWriteFails, site, WalkedIsAccounted, Collected
  <2>2. i \in 1..posted[b]
    BY DEF Published
  <2>a. /\ pc = "cursors" /\ newCursor[c] # 0
        /\ newCursor' = [newCursor EXCEPT ![c] = 0]
    BY <1>9 DEF UpsertCursor, CursorWriteFails
  <2>b. newCursor'[b] = newCursor[b] \/ newCursor'[b] = 0
    BY <2>a DEF TypeOK
  <2>3. i <= newCursor[b] /\ b # board
    BY <2>1, <2>2, <2>a, <2>b DEF TypeOK
  <2>4. i \in Collected(b) \/ i \in passed[b] \/ Covered(b, i)
    BY <2>3 DEF CoverInv, WalkedIsAccounted
  <2>5. QED
    BY <2>2, <2>4, CoveredStays
<1>10. CASE UNCHANGED vars \/ NextDay \/ StartRun \/ EndBoards \/ FetchContents
            \/ SaveArticles \/ NothingToSave \/ Restart
            \/ \E c \in Boards : CursorReadFails(c)
  BY <1>1, <1>10 DEF vars, site, cycle, walk, NextDay, StartRun, EndBoards, FetchContents,
                     SaveArticles, NothingToSave, Restart, CursorReadFails
<1>11. CASE SavePartially \/ SaveFails \/ FinishRun \/ Panic \/ Crash
  BY <1>2, <1>11 DEF SavePartially, SaveFails, FinishRun, Panic, Crash, EndRun, ForgetCycle
<1>12. QED
  BY <1>3, <1>4, <1>5, <1>6, <1>7, <1>8, <1>9, <1>10, <1>11
     DEF Next, Site, Progress, Failure

-----------------------------------------------------------------------------
(* What a walk cannot see.                                                  *)

\* The articles of a board can be counted, those it deleted and those it hides.
LEMMA BoardFinite ==
    ASSUME TypeOK, NEW b \in Boards
    PROVE  IsFiniteSet(Hidden(b)) /\ IsFiniteSet(Deleted(b))
<1>1. IsFiniteSet(1..MaxId) /\ IsFiniteSet(1..posted[b])
  BY BoundsAssumption, FS_Interval DEF TypeOK
<1>2. Hidden(b) \subseteq 1..MaxId
  BY DEF TypeOK, Hidden, Ids
<1>3. Deleted(b) \subseteq 1..posted[b]
  BY DEF Deleted
<1>4. QED
  BY <1>1, <1>2, <1>3, FS_Subset

\* A bound by counting survives fewer on the left and more on the right.
LEMMA CountBetween ==
    ASSUME NEW G, NEW H \in SUBSET G, NEW D, NEW C \in SUBSET D,
           IsFiniteSet(G), IsFiniteSet(D), Cardinality(G) <= Cardinality(C)
    PROVE  Cardinality(H) <= Cardinality(D)
<1>1. IsFiniteSet(H) /\ IsFiniteSet(C)
  BY FS_Subset
<1>2. Cardinality(H) <= Cardinality(G) /\ Cardinality(C) <= Cardinality(D)
  BY FS_Subset
<1>3. /\ Cardinality(H) \in Nat /\ Cardinality(G) \in Nat
      /\ Cardinality(C) \in Nat /\ Cardinality(D) \in Nat
  BY <1>1, FS_CardinalityType
<1>4. QED
  BY <1>2, <1>3

\* An article of rank n has n - 1 articles published after it.
LEMMA RankCounts ==
    ASSUME TypeOK, Published, NEW b \in Boards, NEW i \in listed[b]
    PROVE  Rank(b, i) <= posted[b] - i + 1
<1>1. i \in 1..posted[b] /\ posted[b] \in Nat
  BY DEF Published, TypeOK
<1>2. {k \in listed[b] : k >= i} \subseteq i..posted[b]
  <2>1. ASSUME NEW k \in listed[b], k >= i PROVE k \in i..posted[b]
    <3>1. k \in 1..posted[b]
      BY DEF Published
    <3>2. QED
      BY <1>1, <2>1, <3>1
  <2>2. QED
    BY <2>1
<1>3. i \in Int /\ posted[b] \in Int /\ i <= posted[b]
  BY <1>1
<1>4. IsFiniteSet(i..posted[b]) /\ Cardinality(i..posted[b]) = posted[b] - i + 1
  BY <1>3, FS_Interval
<1>5. Cardinality({k \in listed[b] : k >= i}) <= Cardinality(i..posted[b])
  BY <1>2, <1>4, FS_Subset
<1>6. QED
  BY <1>4, <1>5 DEF Rank

\* Two rows of a list do not have the same rank.
LEMMA RankInjective ==
    ASSUME TypeOK, NEW b \in Boards, NEW i \in listed[b], NEW j \in listed[b], i < j
    PROVE  Rank(b, i) # Rank(b, j)
<1>1. /\ MaxId \in Nat /\ listed[b] \in SUBSET (1..MaxId)
      /\ i \in 1..MaxId /\ j \in 1..MaxId
  BY BoundsAssumption DEF TypeOK, Ids
<1> DEFINE I == {k \in listed[b] : k >= i}
           J == {k \in listed[b] : k >= j}
<1>2. J \subseteq I
  <2>1. \A k \in listed[b] : k >= j => k >= i
    BY <1>1
  <2>2. QED
    BY <2>1
<1>3. i \in I /\ i \notin J
  BY <1>1
<1>4. IsFiniteSet(I)
  <2>1. i \in Int
    BY <1>1
  <2>2. QED
    BY <1>1, <2>1, CountNewer
<1>5. Cardinality(I) # Cardinality(J)
  BY <1>2, <1>3, <1>4, FS_Subset
<1>6. QED
  BY <1>5 DEF Rank

\* A step that hides no more of a board leaves its count alone.
LEMMA HiddenKeeps ==
    ASSUME TypeOK, TypeOK', NEW b \in Boards, Cardinality(Hidden(b)) <= Cardinality(Deleted(b)),
           Hidden(b)' \subseteq Hidden(b), Deleted(b) \subseteq Deleted(b)'
    PROVE  Cardinality(Hidden(b)') <= Cardinality(Deleted(b)')
<1>1. IsFiniteSet(Hidden(b)) /\ IsFiniteSet(Deleted(b)')
  <2>1. IsFiniteSet(1..posted'[b])
    BY FS_Interval DEF TypeOK
  <2>2. Deleted(b)' \subseteq 1..posted'[b]
    BY DEF Deleted
  <2>3. QED
    BY <2>1, <2>2, BoardFinite, FS_Subset
<1>2. QED
  BY <1>1, CountBetween

\* Deleting x hides one article at most: the first row of the page fetched next.
LEMMA DeleteHidesOne ==
    ASSUME TypeOK, Published, TypeOK', NEW b \in Boards, NEW x \in Ids, Delete(b, x),
           Cardinality(Hidden(b)) <= Cardinality(Deleted(b))
    PROVE  Cardinality(Hidden(b)') <= Cardinality(Deleted(b)')
<1>1. /\ x \in listed[b] /\ listed'[b] = listed[b] \ {x}
      /\ passed'[b] = passed[b] \cup PulledUp(b, x)
      /\ posted' = posted /\ excused' = excused
  BY DEF Delete, record, TypeOK
<1>2. x \in 1..posted[b]
  BY <1>1 DEF Published
<1>3. Deleted(b)' = Deleted(b) \cup {x} /\ x \notin Deleted(b)
  BY <1>1, <1>2 DEF Deleted
<1>4. /\ Cardinality(Deleted(b)') = Cardinality(Deleted(b)) + 1
      /\ IsFiniteSet(Deleted(b)')
  BY <1>3, BoardFinite, FS_AddElement
<1>5. Hidden(b)' \subseteq Hidden(b) \cup PulledUp(b, x)
  BY <1>1 DEF Hidden
<1>6. PICK k : PulledUp(b, x) \subseteq {k}
  <2>1. ASSUME NEW i \in PulledUp(b, x), NEW j \in PulledUp(b, x) PROVE i = j
    <3>1. i \in listed[b] /\ j \in listed[b] /\ Rank(b, i) = Rank(b, j)
      BY DEF PulledUp
    <3>2. i \in Int /\ j \in Int
      BY <3>1 DEF TypeOK, Ids
    <3>3. ~(i < j) /\ ~(j < i)
      BY <3>1, RankInjective
    <3>4. QED
      BY <3>2, <3>3
  <2>2. QED
    BY <2>1
<1>7. Hidden(b)' \subseteq Hidden(b) \cup {k}
  BY <1>5, <1>6
<1> DEFINE G == Hidden(b) \cup {k}
<1>8. /\ IsFiniteSet(G)
      /\ Cardinality(G) = IF k \in Hidden(b) THEN Cardinality(Hidden(b))
                                             ELSE Cardinality(Hidden(b)) + 1
  BY BoardFinite, FS_AddElement
<1>9. Cardinality(Hidden(b)) \in Nat /\ Cardinality(Deleted(b)) \in Nat
  BY BoardFinite, FS_CardinalityType
<1>10. Cardinality(G) <= Cardinality(Deleted(b)')
  BY <1>4, <1>8, <1>9
<1>11. QED
  BY <1>4, <1>7, <1>8, <1>10, CountBetween

\* What a page is left behind for at the page limit lies a whole walk's rows
\* below the newest article.
LEMMA PageHidesNone ==
    ASSUME TypeOK, Published, FetchPage, NEW b \in Boards
    PROVE  Hidden(b)' \subseteq Hidden(b)
<1> DEFINE S == Rows(board, page)
<1>1. board \in Boards /\ posted' = posted /\ excused' = excused
  BY DEF FetchPage, TypeOK, site, record
<1>2. CASE b # board
  BY <1>1, <1>2 DEF FetchPage, Hidden, TypeOK
<1>3. CASE b = board
  <2>1. passed'[b] = passed[b] \cup (AboveStops(board, S) \cap Unreadable)
            \cup {i \in Beyond(board, page * PageSize) : Stops(board, S) = {} /\ AtLastPage}
    BY <1>1, <1>3 DEF FetchPage, TypeOK
  <2>2. ASSUME NEW i \in Beyond(board, page * PageSize), AtLastPage
        PROVE  ~(posted[b] - i < PageSize * MaxPageCount)
    <3>1. i \in listed[b] /\ Rank(b, i) > page * PageSize /\ page = MaxPageCount
      BY <1>3, <2>2 DEF Beyond, AtLastPage
    <3>2. Rank(b, i) <= posted[b] - i + 1
      BY <3>1, RankCounts
    <3>3. /\ Rank(b, i) \in Nat /\ i \in Int /\ posted[b] \in Int
          /\ PageSize * MaxPageCount \in Int
      BY <3>1, RankType, BoundsAssumption DEF TypeOK, Ids
    <3>4. page * PageSize = PageSize * MaxPageCount
      BY <3>1, BoundsAssumption
    <3>5. QED
      BY <3>1, <3>2, <3>3, <3>4
  <2>3. QED
    BY <1>1, <2>1, <2>2 DEF Hidden
<1>4. QED
  BY <1>2, <1>3

\* Each deletion hides one article at most, and nothing else hides any.
LEMMA NextDeletionsHideOne ==
    ASSUME TypeOK, Published, DeletionsHideOne, [Next]_vars
    PROVE  DeletionsHideOne'
<1> SUFFICES ASSUME NEW b \in Boards
             PROVE  Cardinality(Hidden(b)') <= Cardinality(Deleted(b)')
  BY DEF DeletionsHideOne
<1>1. TypeOK' /\ Cardinality(Hidden(b)) <= Cardinality(Deleted(b))
  BY NextTypeOK DEF DeletionsHideOne
<1>2. ASSUME Hidden(b)' \subseteq Hidden(b), Deleted(b) \subseteq Deleted(b)'
      PROVE  Cardinality(Hidden(b)') <= Cardinality(Deleted(b)')
  BY <1>1, <1>2, HiddenKeeps
<1>3. ASSUME NEW c \in Boards, Publish(c)
      PROVE  Hidden(b)' \subseteq Hidden(b) /\ Deleted(b) \subseteq Deleted(b)'
  <2>1. /\ posted[b] \in Nat /\ posted'[b] \in Nat /\ posted[b] <= posted'[b]
        /\ passed' = passed /\ excused' = excused
    BY <1>3 DEF Publish, TypeOK, cycle, record
  <2>2. Hidden(b)' \subseteq Hidden(b)
    <3>1. ASSUME NEW i \in excused[b] \cup passed[b],
                 posted'[b] - i < PageSize * MaxPageCount
          PROVE  posted[b] - i < PageSize * MaxPageCount
      <4>1. i \in Int /\ PageSize * MaxPageCount \in Int
        BY BoundsAssumption DEF TypeOK, Ids
      <4>2. QED
        BY <2>1, <3>1, <4>1
    <3>2. QED
      BY <2>1, <3>1 DEF Hidden
  <2>3. listed'[b] \cap (1..posted[b]) \subseteq listed[b]
    BY <1>3 DEF Publish, TypeOK
  <2>4. QED
    BY <2>1, <2>2, <2>3 DEF Deleted
<1>4. ASSUME NEW c \in Boards, NEW x \in Ids, Delete(c, x)
      PROVE  Cardinality(Hidden(b)') <= Cardinality(Deleted(b)')
  <2>1. CASE c = b
    BY <1>1, <1>4, <2>1, DeleteHidesOne
  <2>2. CASE c # b
    <3>1. UNCHANGED <<posted, excused, passed[b], listed[b]>>
      BY <1>4, <2>2 DEF Delete, TypeOK, record
    <3>2. Hidden(b)' = Hidden(b) /\ Deleted(b)' = Deleted(b)
      BY <3>1 DEF Hidden, Deleted
    <3>3. QED
      BY <1>2, <3>2
  <2>3. QED
    BY <2>1, <2>2
<1>5. CASE FetchPage
  <2>1. Deleted(b)' = Deleted(b)
    BY <1>5 DEF FetchPage, Deleted, site
  <2>2. QED
    BY <1>2, <1>5, <2>1, PageHidesNone
<1>6. ASSUME UNCHANGED <<posted, listed>>,
             excused'[b] \cup passed'[b] \subseteq excused[b] \cup passed[b]
      PROVE  Cardinality(Hidden(b)') <= Cardinality(Deleted(b)')
  <2>1. Hidden(b)' \subseteq Hidden(b) /\ Deleted(b)' = Deleted(b)
    BY <1>6 DEF Hidden, Deleted
  <2>2. QED
    BY <1>2, <2>1
<1>7. CASE UNCHANGED vars \/ NextDay \/ StartRun \/ EndOfData \/ EndBoards \/ FetchContents
           \/ NothingToSave \/ Restart
  BY <1>6, <1>7 DEF vars, site, db, cycle, walk, record, NextDay, StartRun, EndOfData,
         EndBoards, FetchContents, NothingToSave, Restart
<1>8. ASSUME NEW c \in Boards,
             BeginBoard(c) \/ UpsertCursor(c) \/ CursorReadFails(c) \/ CursorWriteFails(c)
      PROVE  Cardinality(Hidden(b)') <= Cardinality(Deleted(b)')
  BY <1>6, <1>8 DEF site, db, walk, record, BeginBoard, UpsertCursor, CursorReadFails,
         CursorWriteFails
<1>9. CASE SaveFails \/ FinishRun \/ Panic \/ Crash \/ BoardFails
  BY <1>6, <1>9 DEF site, db, record, SaveFails, FinishRun, Panic, Crash, BoardFails, EndRun,
         ForgetCycle, TypeOK
<1>10. CASE SaveArticles
  <2>1. Upsert(batch) /\ batch \in SUBSET batch /\ passed' = passed
    BY <1>10 DEF SaveArticles
  <2>2. excused'[b] = excused[b] \cup passed[b]
    BY <2>1, UpsertStores
  <2>3. QED
    BY <1>6, <1>10, <2>1, <2>2 DEF SaveArticles, site
<1>11. CASE SavePartially
  <2>1. PICK saved \in SUBSET batch : Upsert(saved)
    BY <1>11 DEF SavePartially
  <2>2. excused'[b] = excused[b] \cup passed[b] /\ passed'[b] = {}
    BY <1>11, <2>1, UpsertStores DEF SavePartially, EndRun, ForgetCycle
  <2>3. QED
    BY <1>6, <1>11, <2>2 DEF SavePartially, site
<1>12. QED
  BY <1>2, <1>3, <1>4, <1>5, <1>7, <1>8, <1>9, <1>10, <1>11
     DEF Next, Site, Progress, Failure

\* The invariant holds at the start and every step keeps it.
THEOREM BoardInvariant == Spec => []IInv
<1>1. Init => IInv
  <2> SUFFICES ASSUME Init PROVE IInv
    OBVIOUS
  <2>1. Published /\ LossesCovered /\ CoverInv
    BY DEF Init, Published, LossesCovered, CoverInv, StoredCovers, WalkBaseline,
           Collected, BatchBelowCursor, PassedIsExcused, WalkedIsAccounted
  <2>2. DeletionsHideOne
    <3>1. \A b \in Boards : Hidden(b) = {} /\ Deleted(b) = {}
      BY DEF Init, Hidden, Deleted
    <3>2. Cardinality({}) <= Cardinality({})
      BY FS_EmptySet
    <3>3. QED
      BY <3>1, <3>2 DEF DeletionsHideOne
  <2>3. QED
    BY <2>1, <2>2, InitTypeOK, InitCursorInv DEF IInv
<1>2. IInv /\ [Next]_vars => IInv'
  <2> SUFFICES ASSUME IInv, [Next]_vars PROVE IInv'
    OBVIOUS
  <2> USE DEF IInv
  <2>1. TypeOK' /\ Published' /\ CursorInv' /\ LossesCovered'
    BY NextTypeOK, NextPublished, NextCursorInv, NextLossesCovered
  <2>2. StoredCovers' /\ WalkBaseline'
    BY NextStoredCovers, NextWalkBaseline DEF CoverInv
  <2>3. BatchBelowCursor' /\ PassedIsExcused' /\ WalkedIsAccounted'
    BY NextBatchBelowCursor, NextPassedIsExcused, NextWalkedIsAccounted DEF CoverInv
  <2>4. DeletionsHideOne'
    BY NextDeletionsHideOne
  <2>5. QED
    BY <2>1, <2>2, <2>3, <2>4 DEF CoverInv
<1>3. QED
  BY <1>1, <1>2, PTL DEF Spec

\* A listed article that a walk can see is left behind by its board's cursor only
\* if a save failed for its row and stored one of a later day, and each deletion
\* takes one article at most out of a walk's sight: nothing else that fails,
\* crashes, is published or is deleted loses one.
THEOREM OnlyPartialSavesLoseHolds == Spec => []OnlyPartialSavesLose
<1>1. IInv => OnlyPartialSavesLose
  BY DEF IInv, OnlyPartialSavesLose
<1>2. QED
  BY <1>1, BoardInvariant, PTL

\* A step changes the cursor of one board at most, and settles nothing then ...
LEMMA AdvanceStep ==
    ASSUME IInv, IInv', [Next]_vars, NEW b \in Boards, cursor'[b] # cursor[b]
    PROVE  Feed!Advance(b)
<1> USE DEF IInv
<1>1. UpsertCursor(b)
  BY CursorSteps
<1>2. /\ newCursor[b] \in Ids /\ newCursor[b] > cursor[b]
      /\ cursor' = [cursor EXCEPT ![b] = newCursor[b]]
      /\ newCursor[b] <= posted[b]
  <2>1. newCursor[b] \in 0..MaxId /\ newCursor[b] # 0
    BY <1>1 DEF UpsertCursor, TypeOK
  <2>2. QED
    BY <1>1, <2>1, BoundsAssumption DEF UpsertCursor, CursorInv, Published, Ids
<1>3. Settled' = Settled
  BY <1>1 DEF UpsertCursor, Settled, Covered, Expired, site, record
<1>4. ASSUME NEW i \in 1..newCursor[b] PROVE i \in Settled[b]
  <2>1. i \in 1..posted[b] /\ i <= newCursor[b]
    <3>1. newCursor[b] \in Int /\ posted[b] \in Int
      BY DEF TypeOK
    <3>2. QED
      BY <1>2, <3>1
  <2>2. cursor'[b] = newCursor[b] /\ listed' = listed
    BY <1>1, <1>2 DEF TypeOK, UpsertCursor, site
  <2>3. i \in listed[b] => Covered(b, i)'
    BY <2>1, <2>2 DEF LossesCovered
  <2>4. Covered(b, i)' <=> Covered(b, i)
    BY <1>1 DEF UpsertCursor, Covered, Expired, site, record
  <2>5. QED
    BY <2>1, <2>3, <2>4 DEF Settled
<1>5. QED
  BY <1>2, <1>3, <1>4 DEF Feed!Advance

\* ... and what is settled stays settled in any other.
LEMMA SettleStep ==
    ASSUME IInv, TypeOK', [Next]_vars, cursor' = cursor
    PROVE  Feed!Settle
<1> USE DEF IInv
<1>1. Settled' \in [Boards -> SUBSET Ids]
  <2>1. ASSUME NEW b \in Boards PROVE 1..posted'[b] \subseteq Ids
    <3>1. posted'[b] \in 0..MaxId
      BY DEF TypeOK
    <3>2. QED
      BY <3>1, BoundsAssumption DEF Ids
  <2>2. QED
    BY <2>1 DEF Settled
<1>2. ASSUME NEW b \in Boards, NEW i \in Settled[b] PROVE i \in Settled'[b]
  <2>1. i \in 1..posted[b] /\ posted[b] \in Nat /\ (i \notin listed[b] \/ Covered(b, i))
    BY DEF Settled, TypeOK
  <2>2. posted'[b] \in {posted[b], posted[b] + 1}
    <3>1. ASSUME NEW c \in Boards, Publish(c) PROVE posted'[b] \in {posted[b], posted[b] + 1}
      BY <3>1 DEF Publish, TypeOK
    <3>2. QED
      BY <3>1, StepShapeHolds DEF StepShape
  <2>3. i \in 1..posted'[b]
    BY <2>1, <2>2
  <2>4. i \notin listed[b] => i \notin listed'[b]
    <3>1. ASSUME NEW c \in Boards, Publish(c), i \in listed'[b] PROVE i \in listed[b]
      <4>1. listed'[b] \subseteq listed[b] \cup {posted[b] + 1}
        BY <3>1 DEF Publish, TypeOK
      <4>2. QED
        BY <2>1, <3>1, <4>1
    <3>2. QED
      BY <3>1, StepShapeHolds DEF StepShape
  <2>5. Covered(b, i) => Covered(b, i)'
    BY <2>1, CoveredStays
  <2>6. QED
    BY <2>1, <2>3, <2>4, <2>5 DEF Settled
<1>3. QED
  BY <1>1, <1>2 DEF Feed!Settle

\* The crawl of a provider's boards implements CursorFeed, whatever the site
\* does and whatever fails.
THEOREM BoardImplementsFeed == Spec => FeedSpec
<1>1. Init => Feed!Init
  <2> SUFFICES ASSUME Init PROVE Feed!Init
    OBVIOUS
  <2>1. \A b \in Boards : 1..posted[b] = {}
    BY DEF Init
  <2>2. Settled = [b \in Boards |-> {}]
    BY <2>1 DEF Settled
  <2>3. QED
    BY <2>2 DEF Init, Feed!Init
<1>2. IInv /\ IInv' /\ [Next]_vars => [Feed!Next]_(Feed!vars)
  <2> SUFFICES ASSUME IInv, IInv', [Next]_vars PROVE Feed!Next
    OBVIOUS
  <2>1. CASE cursor' = cursor
    BY <2>1, SettleStep DEF IInv, Feed!Next
  <2>2. CASE cursor' # cursor
    <3>1. PICK b \in Boards : cursor'[b] # cursor[b]
      BY <2>2 DEF IInv, TypeOK
    <3>2. QED
      BY <3>1, AdvanceStep DEF Feed!Next
  <2>3. QED
    BY <2>1, <2>2
<1>3. QED
  BY <1>1, <1>2, BoardInvariant, PTL DEF Spec, FeedSpec, Feed!Spec

\* A feed with a cursor leaves nothing behind it.
THEOREM FeedLeavesNothingBehind == Feed!Spec => []Feed!NothingBehind
<1>1. Feed!Init => Feed!NothingBehind
  BY DEF Feed!Init, Feed!NothingBehind
<1>2. Feed!NothingBehind /\ [Feed!Next]_(Feed!vars) => Feed!NothingBehind'
  <2> SUFFICES ASSUME Feed!NothingBehind, [Feed!Next]_(Feed!vars) PROVE Feed!NothingBehind'
    OBVIOUS
  <2> USE DEF Feed!NothingBehind
  <2>1. CASE UNCHANGED Feed!vars
    BY <2>1 DEF Feed!vars
  <2>2. CASE Feed!Settle
    BY <2>2 DEF Feed!Settle
  <2>3. ASSUME NEW b \in Boards, Feed!Advance(b) PROVE Feed!NothingBehind'
    BY <2>3 DEF Feed!Advance
  <2>4. QED
    BY <2>1, <2>2, <2>3 DEF Feed!Next
<1>3. QED
  BY <1>1, <1>2, PTL DEF Feed!Spec

NoneMissed == \A b \in Boards : missed[b] = {}

\* What base.go promises holds if the rows of a save are stored all or none.
THEOREM NoLossHolds == ~RowFailures => (Spec => []NoLoss)
<1> SUFFICES ASSUME ~RowFailures PROVE Spec => []NoLoss
  OBVIOUS
<1>1. Init => NoneMissed
  BY DEF Init, NoneMissed
<1>2. NoneMissed /\ [Next]_vars => NoneMissed'
  BY DEF NoneMissed, Next, Site, NextDay, Publish, Delete, Progress, StartRun,
         BeginBoard, FetchPage, EndOfData, EndBoards, FetchContents, SaveArticles,
         NothingToSave, FinishRun, Restart, UpsertCursor, Failure, BoardFails,
         SavePartially, SaveFails, Panic, Crash, CursorReadFails, CursorWriteFails,
         vars, record
<1>3. IInv /\ NoneMissed => NoLoss
  BY DEF IInv, NoneMissed, NoLoss, LossesCovered, Covered
<1>4. QED
  BY <1>1, <1>2, <1>3, BoardInvariant, PTL DEF Spec
=============================================================================
