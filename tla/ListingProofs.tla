---------------------------- MODULE ListingProofs ----------------------------
(***************************************************************************)
(* Paging, for any number of profiles, users and limits and any precision  *)
(* of created_at: what a walk through the pages can show twice, what it    *)
(* can miss, and what the total is worth.                                  *)
(***************************************************************************)
EXTENDS ProfileListing, FiniteSetTheorems, TLAPS

(* Cursors *)

LEMMA Quotients ==
    ASSUME NEW t \in Nat
    PROVE  /\ t \div Second \in Nat
           /\ Format(t) = (t \div Second) * Second
           /\ Format(t) \in Nat
           /\ Format(t) <= t /\ t < Format(t) + Second
BY ListingAssumption DEF Format

\* One of two times is in the second of the other, or before all of it.
LEMMA FormatOrder ==
    ASSUME NEW c \in Nat, NEW o \in Nat, c <= o
    PROVE  Format(c) = Format(o) \/ c < Format(o)
<1> DEFINE p == c \div Second
           q == o \div Second
<1>1. Second \in Nat /\ p \in Nat /\ q \in Nat
  <2>1. Second \in Nat
    BY ListingAssumption
  <2>2. p \in Nat
    BY Quotients
  <2>3. q \in Nat
    BY Quotients
  <2> QED  BY <2>1, <2>2, <2>3
<1>2. /\ Format(c) = p * Second /\ Format(c) <= c /\ c < p * Second + Second
      /\ Format(o) = q * Second /\ Format(o) <= o /\ o < q * Second + Second
      /\ p * Second \in Nat /\ q * Second \in Nat
  BY Quotients
<1> HIDE DEF p, q
<1>3. CASE p < q
  <2>1. (p + 1) * Second <= q * Second
    BY <1>1, <1>3
  <2>2. (p + 1) * Second = p * Second + Second
    BY <1>1
  <2> QED  BY <1>1, <1>2, <2>1, <2>2
<1>4. CASE p > q
  <2>1. (q + 1) * Second <= p * Second
    BY <1>1, <1>4
  <2>2. (q + 1) * Second = q * Second + Second
    BY <1>1
  <2> QED  BY <1>1, <1>2, <2>1, <2>2
<1>5. CASE p = q
  BY <1>2, <1>5
<1> QED  BY <1>1, <1>3, <1>4, <1>5

-----------------------------------------------------------------------------
(* Pages *)

LEMMA MatchingFinite ==
    ASSUME NEW u, NEW c
    PROVE  /\ IsFiniteSet(Matching(u, c))
           /\ Cardinality(Matching(u, c)) \in Nat
BY ListingAssumption, FS_Subset, FS_CardinalityType DEF Matching

\* What LIMIT and OFFSET leave of a finite set.
LEMMA PageSize ==
    ASSUME NEW M, IsFiniteSet(M), NEW P, NEW limit \in Nat, NEW offset \in Nat,
           IsPage(P, M, limit, offset)
    PROVE  Cardinality(P) =
             Lesser(limit, IF Cardinality(M) < offset THEN 0 ELSE Cardinality(M) - offset)
<1>1. PICK S \in SUBSET M :
         /\ Cardinality(S) = Lesser(offset, Cardinality(M))
         /\ Cardinality(P) = Lesser(limit, Cardinality(M \ S))
  BY DEF IsPage
<1>2. IsFiniteSet(S) /\ Cardinality(M \ S) = Cardinality(M) - Cardinality(M \cap S)
  BY FS_Difference, FS_Subset
<1>3. M \cap S = S /\ Cardinality(M) \in Nat
  BY FS_CardinalityType
<1> QED  BY <1>1, <1>2, <1>3 DEF Lesser

\* A first page is empty only if nothing matches, and else leads the rest.
LEMMA FirstPage ==
    ASSUME NEW M, IsFiniteSet(M), NEW P, NEW limit \in Nat \ {0},
           IsPage(P, M, limit, 0)
    PROVE  /\ P \subseteq M
           /\ P = {} => M = {}
           /\ Leads(P, M)
<1>1. PICK S \in SUBSET M :
         /\ P \subseteq M \ S
         /\ Cardinality(S) = Lesser(0, Cardinality(M))
         /\ Cardinality(P) = Lesser(limit, Cardinality(M \ S))
         /\ Leads(P, M \ S)
  BY DEF IsPage
<1>2. IsFiniteSet(S) /\ Cardinality(M) \in Nat
  BY FS_Subset, FS_CardinalityType
<1>3. S = {}
  BY <1>1, <1>2, FS_EmptySet DEF Lesser
<1>4. M \ S = M
  BY <1>3
<1>5. P = {} => M = {}
  BY <1>1, <1>2, <1>4, FS_EmptySet DEF Lesser
<1> QED  BY <1>1, <1>4, <1>5

-----------------------------------------------------------------------------
(* Types *)

LEMMA CursorType ==
    /\ Cursors \subseteq Nat \cup {None}
    /\ \A t \in Times : Format(t) \in Cursors
<1>1. \A t \in Times : t \in Nat
  BY ListingAssumption
<1>2. \A t \in Times : Format(t) \in Nat
  BY <1>1, Quotients
<1> QED  BY <1>2 DEF Cursors

LEMMA LimitType ==
    ASSUME NEW asked \in Asked
    PROVE  GetLimit(asked) \in Nat \ {0}
BY ListingAssumption DEF GetLimit, Lesser

LEMMA TypeStep ==
    ASSUME TypeOK, [Next]_vars
    PROVE  TypeOK'
<1> USE DEF TypeOK
<1>1. ASSUME NEW u \in Users, NEW by \in {"cursor", "offset"}, NEW asked \in Asked,
             StartWalk(u, by, asked)
      PROVE  TypeOK'
  <2>1. GetLimit(asked) \in Nat \ {0} /\ None \in Cursors
    BY LimitType DEF Cursors
  <2> QED  BY <1>1, <2>1 DEF StartWalk
<1>2. CASE SelectPage
  <2>1. PICK P \in SUBSET Matching(walk.user, walk.cursor), c \in {None} \cup {Format(t) : t \in Times} :
           page' = [ids |-> P, next |-> c]
    BY <1>2 DEF SelectPage
  <2>2. P \subseteq Ids /\ c \in Cursors
    BY DEF Matching, Cursors
  <2> QED  BY <1>2, <2>1, <2>2 DEF SelectPage
<1>3. CASE CountAll
  <2>1. walk' \in [step : {"idle", "page", "count", "done"}, user : Users \cup {None},
                   by : {"cursor", "offset"}, limit : Nat \ {0}, cursor : Cursors,
                   offset : Nat]
    <3>1. CASE page.ids = {}
      BY <1>3, <3>1 DEF CountAll, Proceed
    <3>2. CASE page.ids # {} /\ walk.by = "cursor"
      BY <1>3, <3>2 DEF CountAll, Proceed
    <3>3. CASE page.ids # {} /\ walk.by = "offset"
      <4>1. walk' = [walk EXCEPT !.step = "page", !.offset = walk.offset + walk.limit]
        BY <1>3, <3>3 DEF CountAll, Proceed
      <4>2. walk.offset + walk.limit \in Nat
        OBVIOUS
      <4> QED  BY <4>1, <4>2
    <3> QED  BY <3>1, <3>2, <3>3
  <2>2. None \in Cursors
    BY DEF Cursors
  <2> QED  BY <1>3, <2>1, <2>2 DEF CountAll, NoPage
<1>4. CASE ListFails
  <2>1. None \in Cursors
    BY DEF Cursors
  <2> QED  BY <1>4, <2>1 DEF ListFails, NoPage
<1>5. CASE Leave
  <2>1. None \in Cursors /\ Fallback \in Nat \ {0}
    BY ListingAssumption DEF Cursors
  <2> QED  BY <1>5, <2>1 DEF Leave, Idle
<1>6. ASSUME NEW id \in Ids, NEW u \in Users, NEW at \in Times, Insert(id, u, at)
      PROVE  TypeOK'
  <2>1. rows' \in [Ids -> Row \cup {NoRow}]
    BY <1>6 DEF Insert, Row
  <2> QED  BY <1>6, <2>1 DEF Insert
<1>7. ASSUME NEW id \in Ids, Remove(id)
      PROVE  TypeOK'
  <2>1. rows[id] \in Row
    BY <1>7 DEF Remove
  <2>2. [rows[id] EXCEPT !.deleted = TRUE] \in Row
    BY <2>1 DEF Row
  <2>3. rows' \in [Ids -> Row \cup {NoRow}]
    BY <1>7, <2>2 DEF Remove
  <2> QED  BY <1>7, <2>3 DEF Remove
<1>8. CASE UNCHANGED vars
  BY <1>8 DEF vars
<1> QED  BY <1>1, <1>2, <1>3, <1>4, <1>5, <1>6, <1>7, <1>8 DEF Next

LEMMA TypeInit == Init => TypeOK
<1>1. None \in Cursors /\ Fallback \in Nat \ {0}
  BY ListingAssumption DEF Cursors
<1> QED  BY <1>1 DEF Init, TypeOK, Idle, NoPage

(***************************************************************************)
(* Rows, requests, pages and cursors are always well formed; above all, no *)
(* request asks for an empty page and each cursor is a whole second.       *)
(***************************************************************************)
THEOREM PagesWellFormed == Spec => []TypeOK
BY TypeInit, TypeStep, PTL DEF Spec

-----------------------------------------------------------------------------
(* What a walk by cursor shows *)

\* What was shown is not before the cursor.
CursorInv ==
    walk.by = "cursor" =>
        /\ walk.offset = 0
        /\ \A id \in seen : /\ rows[id] # NoRow
                            /\ walk.cursor # None
                            /\ walk.cursor <= rows[id].created_at

\* What is about to be shown is before the cursor, and not before the next.
PageInv ==
    walk.step = "count" =>
        \A id \in page.ids : /\ rows[id] # NoRow
                             /\ walk.cursor # None => rows[id].created_at < walk.cursor
                             /\ page.next # None
                             /\ page.next <= rows[id].created_at

ShownInv == TypeOK /\ CursorInv /\ PageInv

\* A row keeps its time.
LEMMA TimesStay ==
    ASSUME TypeOK, [Next]_vars, NEW id \in Ids, rows[id] # NoRow
    PROVE  /\ rows'[id] # NoRow
           /\ rows'[id].created_at = rows[id].created_at
           /\ rows'[id].user_id = rows[id].user_id
<1>1. rows[id] \in Row
  BY DEF TypeOK
<1>2. ASSUME NEW i \in Ids, Remove(i)
      PROVE  /\ rows'[id] # NoRow
             /\ rows'[id].created_at = rows[id].created_at
             /\ rows'[id].user_id = rows[id].user_id
  <2>1. CASE i = id
    <3>1. rows'[id] = [rows[id] EXCEPT !.deleted = TRUE]
      BY <1>2, <2>1 DEF Remove, TypeOK
    <3>2. rows'[id] \in Row
      BY <1>1, <3>1 DEF Row
    <3> QED  BY <1>1, <3>1, <3>2, ListingAssumption DEF Row
  <2>2. CASE i # id
    BY <1>2, <2>2 DEF Remove, TypeOK
  <2> QED  BY <2>1, <2>2
<1>3. ASSUME NEW i \in Ids, NEW u \in Users, NEW at \in Times, Insert(i, u, at)
      PROVE  rows'[id] = rows[id]
  BY <1>3 DEF Insert, TypeOK
<1>4. ASSUME SelectPage \/ CountAll \/ ListFails \/ Leave \/ UNCHANGED vars
      PROVE  rows'[id] = rows[id]
  BY <1>4 DEF SelectPage, CountAll, ListFails, Leave, vars
<1>5. ASSUME NEW u \in Users, NEW by \in {"cursor", "offset"}, NEW asked \in Asked,
             StartWalk(u, by, asked)
      PROVE  rows'[id] = rows[id]
  BY <1>5 DEF StartWalk
<1> QED  BY <1>2, <1>3, <1>4, <1>5 DEF Next

LEMMA RowTimes ==
    ASSUME TypeOK, NEW id \in Ids, rows[id] # NoRow
    PROVE  rows[id].created_at \in Times /\ rows[id].created_at \in Nat
BY ListingAssumption DEF TypeOK, Row

\* The cursor after a page is not after any of its rows.
LEMMA NextCursorBelow ==
    ASSUME TypeOK, NEW P \in SUBSET Ids, NEW c, IsNextCursor(c, P),
           NEW id \in P, \A p \in P : rows[p] # NoRow
    PROVE  /\ c \in Nat
           /\ c <= rows[id].created_at
           /\ \E last \in P : /\ rows[last].created_at <= rows[id].created_at
                              /\ c = Format(rows[last].created_at)
<1>1. PICK last \in P : /\ \A p \in P : rows[last].created_at <= rows[p].created_at
                        /\ c = Format(rows[last].created_at)
  BY DEF IsNextCursor
<1>2. rows[last].created_at \in Nat /\ rows[id].created_at \in Nat
  BY RowTimes
<1>3. Format(rows[last].created_at) \in Nat
  BY <1>2, Quotients
<1>4. Format(rows[last].created_at) <= rows[last].created_at
  BY <1>2, Quotients
<1> QED  BY <1>1, <1>2, <1>3, <1>4

LEMMA ShownStep ==
    ASSUME ShownInv, [Next]_vars
    PROVE  ShownInv'
<1> USE DEF ShownInv
<1> SUFFICES CursorInv' /\ PageInv'
  BY TypeStep
<1>1. ASSUME UNCHANGED <<walk, page, seen>>
      PROVE  CursorInv' /\ PageInv'
  <2>1. seen \subseteq Ids /\ page.ids \subseteq Ids
    BY DEF TypeOK
  <2>2. CursorInv'
    BY <1>1, <2>1, TimesStay DEF CursorInv
  <2>3. PageInv'
    BY <1>1, <2>1, TimesStay DEF PageInv
  <2> QED  BY <2>2, <2>3
<1>2. ASSUME NEW u \in Users, NEW by \in {"cursor", "offset"}, NEW asked \in Asked,
             StartWalk(u, by, asked)
      PROVE  CursorInv' /\ PageInv'
  BY <1>2 DEF StartWalk, CursorInv, PageInv
<1>3. CASE SelectPage
  <2>1. PICK P \in SUBSET Matching(walk.user, walk.cursor), c \in {None} \cup {Format(t) : t \in Times} :
           IsNextCursor(c, P) /\ page' = [ids |-> P, next |-> c]
    BY <1>3 DEF SelectPage
  <2>2. walk' = [walk EXCEPT !.step = "count"] /\ rows' = rows /\ seen' = seen
    BY <1>3 DEF SelectPage
  <2>3. /\ walk'.by = walk.by /\ walk'.cursor = walk.cursor /\ walk'.offset = walk.offset
    BY <2>2 DEF TypeOK
  <2>4. \A id \in P : /\ rows[id] # NoRow
                      /\ walk.cursor # None => rows[id].created_at < walk.cursor
    BY DEF Matching, Visible
  <2>5. P \in SUBSET Ids
    BY DEF Matching
  <2>6. \A id \in P : c \in Nat /\ c <= rows[id].created_at
    BY <2>1, <2>4, <2>5, NextCursorBelow
  <2>7. None \notin Nat
    BY ListingAssumption
  <2>8. PageInv'
    BY <2>1, <2>2, <2>3, <2>4, <2>6, <2>7 DEF PageInv
  <2>9. CursorInv'
    BY <2>2, <2>3 DEF CursorInv
  <2> QED  BY <2>8, <2>9
<1>4. CASE CountAll
  <2>1. rows' = rows /\ seen' = seen \cup page.ids
    BY <1>4 DEF CountAll
  <2>2. PageInv'
    BY <1>4 DEF CountAll, Proceed, PageInv, TypeOK
  <2>3. CASE page.ids = {}
    <3>1. walk' = [walk EXCEPT !.step = "done"]
      BY <1>4, <2>3 DEF CountAll, Proceed
    <3> QED  BY <2>1, <2>2, <2>3, <3>1 DEF CursorInv, TypeOK
  <2>4. CASE page.ids # {} /\ walk.by = "cursor"
    <3>1. walk' = [walk EXCEPT !.step = "page", !.cursor = page.next]
      BY <1>4, <2>4 DEF CountAll, Proceed
    <3>2. walk'.cursor = page.next /\ walk'.offset = walk.offset
      BY <3>1 DEF TypeOK
    <3>3. walk.step = "count"
      BY <1>4 DEF CountAll
    <3>4. \A id \in page.ids : /\ rows[id] # NoRow /\ page.next # None
                               /\ page.next <= rows[id].created_at
      BY <3>3 DEF PageInv
    <3>5. PICK top \in page.ids : rows[top].created_at < walk.cursor \/ walk.cursor = None
      BY <2>4, <3>3 DEF PageInv
    <3>6. page.next <= rows[top].created_at /\ page.next # None /\ rows[top] # NoRow
      BY <3>4, <3>5
    <3>7. rows[top].created_at \in Nat /\ page.next \in Nat
      BY <3>6, RowTimes, CursorType DEF TypeOK
    <3>8. \A id \in seen : /\ rows[id] # NoRow
                           /\ page.next <= rows[id].created_at
      <4> TAKE id \in seen
      <4>1. /\ rows[id] # NoRow /\ walk.cursor # None
            /\ walk.cursor <= rows[id].created_at
        BY <2>4 DEF CursorInv
      <4>2. rows[id].created_at \in Nat /\ walk.cursor \in Nat
        BY <4>1, RowTimes, CursorType DEF TypeOK
      <4> QED  BY <3>5, <3>6, <3>7, <4>1, <4>2
    <3>9. CursorInv'
      BY <2>1, <2>4, <3>2, <3>4, <3>6, <3>8 DEF CursorInv
    <3> QED  BY <2>2, <3>9
  <2>5. CASE page.ids # {} /\ walk.by = "offset"
    <3>1. walk' = [walk EXCEPT !.step = "page", !.offset = @ + walk.limit]
      BY <1>4, <2>5 DEF CountAll, Proceed
    <3>2. walk'.by = "offset"
      BY <2>5, <3>1 DEF TypeOK
    <3> QED  BY <2>2, <3>2 DEF CursorInv
  <2>6. walk.by \in {"cursor", "offset"}
    BY DEF TypeOK
  <2> QED  BY <2>3, <2>4, <2>5, <2>6
<1>5. CASE ListFails
  BY <1>5 DEF ListFails, CursorInv, PageInv, TypeOK
<1>6. CASE Leave
  BY <1>6 DEF Leave, Idle, CursorInv, PageInv
<1>7. ASSUME NEW id \in Ids, NEW u \in Users, NEW at \in Times, Insert(id, u, at)
      PROVE  CursorInv' /\ PageInv'
  BY <1>1, <1>7 DEF Insert
<1>8. ASSUME NEW id \in Ids, Remove(id)
      PROVE  CursorInv' /\ PageInv'
  BY <1>1, <1>8 DEF Remove
<1>9. CASE UNCHANGED vars
  BY <1>1, <1>9 DEF vars
<1> QED  BY <1>2, <1>3, <1>4, <1>5, <1>6, <1>7, <1>8, <1>9 DEF Next

LEMMA ShownInit == Init => ShownInv
BY TypeInit DEF Init, ShownInv, CursorInv, PageInv, Idle

LEMMA ShownOnce ==
    ASSUME ShownInv, [Next]_vars
    PROVE  [walk.by = "cursor" => reply'.page \cap seen = {}]_vars
<1> SUFFICES ASSUME Next, walk.by = "cursor"
             PROVE  reply'.page \cap seen = {}
  OBVIOUS
<1>1. CASE reply' = NoReply
  BY <1>1 DEF NoReply
<1>2. CASE CountAll
  <2> SUFFICES ASSUME NEW id \in page.ids \cap seen
               PROVE  FALSE
    BY <1>2 DEF CountAll
  <2>1. /\ rows[id] # NoRow /\ walk.cursor # None
        /\ walk.cursor <= rows[id].created_at
        /\ rows[id].created_at < walk.cursor
    BY <1>2 DEF CountAll, ShownInv, CursorInv, PageInv
  <2>2. walk.cursor \in Nat /\ rows[id].created_at \in Nat
    BY <2>1, RowTimes, CursorType DEF ShownInv, TypeOK
  <2> QED  BY <2>1, <2>2
<1> QED  BY <1>1, <1>2
         DEF Next, StartWalk, SelectPage, ListFails, Leave, Insert, Remove

(***************************************************************************)
(* Whatever is inserted or deleted between its pages, and however many     *)
(* profiles share a created_at, a walk by cursor shows none of them twice. *)
(***************************************************************************)
THEOREM CursorNeverRepeats == Spec => NeverShownTwice
<1>1. ShownInv /\ [Next]_vars => [walk.by = "cursor" => reply'.page \cap seen = {}]_vars
  BY ShownOnce
<1> QED  BY <1>1, ShownInit, ShownStep, PTL DEF Spec, NeverShownTwice

-----------------------------------------------------------------------------
(* What a walk by cursor misses *)

\* Rows that the next page may hold.
After(id) == walk.cursor # None => rows[id].created_at < walk.cursor

\* Those that were there all along are there.
StayInv == walk.step # "idle" => \A id \in stayed : Visible(id, walk.user)

\* What was not shown is still to come, or in the second of a cursor.
LeftInv ==
    walk.by = "cursor" /\ walk.step # "idle" =>
        \A id \in stayed \ seen :
            \/ walk.step # "done" /\ After(id)
            \/ Format(rows[id].created_at) \in ends

\* The same, once this page is shown.
RestInv ==
    walk.by = "cursor" /\ walk.step = "count" =>
        \A id \in stayed \ page.ids :
            After(id) => /\ page.ids # {}
                         /\ \/ Format(rows[id].created_at) = page.next
                            \/ rows[id].created_at < page.next

MissInv == ShownInv /\ StayInv /\ LeftInv /\ RestInv

\* Formatting loses no more than the order within a second.
LEMMA PageRest ==
    ASSUME TypeOK, NEW P, NEW c, NEW u, NEW cursor, NEW limit \in Nat \ {0},
           IsPage(P, Matching(u, cursor), limit, 0), IsNextCursor(c, P),
           NEW id \in Matching(u, cursor) \ P
    PROVE  /\ P # {}
           /\ Format(rows[id].created_at) = c \/ rows[id].created_at < c
<1>1. /\ P \subseteq Matching(u, cursor)
      /\ P = {} => Matching(u, cursor) = {}
      /\ Leads(P, Matching(u, cursor))
  BY MatchingFinite, FirstPage
<1>2. \A p \in Matching(u, cursor) : p \in Ids /\ rows[p] # NoRow
  BY DEF Matching, Visible
<1>3. PICK top \in P : TRUE
  BY <1>1
<1>4. PICK last \in P : c = Format(rows[last].created_at)
  BY <1>1, <1>2, <1>3, NextCursorBelow
<1>5. rows[id].created_at <= rows[last].created_at
  BY <1>1 DEF Leads
<1>6. rows[id].created_at \in Nat /\ rows[last].created_at \in Nat
  BY <1>1, <1>2, RowTimes
<1> QED  BY <1>3, <1>4, <1>5, <1>6, FormatOrder

\* Writes of others leave what stayed where it is.
LEMMA MissUnmoved ==
    ASSUME MissInv, TypeOK', [Next]_vars, UNCHANGED <<walk, page, seen, ends>>,
           stayed' \subseteq stayed,
           \A id \in stayed' : Visible(id, walk.user)'
    PROVE  StayInv' /\ LeftInv' /\ RestInv'
<1>1. \A id \in stayed : id \in Ids /\ (walk.step # "idle" => rows[id] # NoRow)
  BY DEF MissInv, ShownInv, TypeOK, StayInv, Visible
<1>2. ASSUME walk.step # "idle"
      PROVE  \A id \in stayed : rows'[id].created_at = rows[id].created_at
  BY <1>1, <1>2, TimesStay DEF MissInv, ShownInv
<1>3. StayInv'
  BY DEF StayInv
<1>4. LeftInv'
  BY <1>2 DEF MissInv, LeftInv, After
<1>5. RestInv'
  BY <1>2 DEF MissInv, RestInv, After
<1> QED  BY <1>3, <1>4, <1>5

LEMMA MissStep ==
    ASSUME MissInv, [Next]_vars
    PROVE  MissInv'
<1>0. ShownInv /\ ShownInv' /\ TypeOK /\ TypeOK'
  BY ShownStep DEF MissInv, ShownInv
<1> SUFFICES StayInv' /\ LeftInv' /\ RestInv'
  BY <1>0 DEF MissInv
<1>1. ASSUME NEW u \in Users, NEW by \in {"cursor", "offset"}, NEW asked \in Asked,
             StartWalk(u, by, asked)
      PROVE  StayInv' /\ LeftInv' /\ RestInv'
  BY <1>1 DEF StartWalk, StayInv, LeftInv, RestInv, After, Visible
<1>2. CASE SelectPage
  <2>1. PICK P \in SUBSET Matching(walk.user, walk.cursor), c \in {None} \cup {Format(t) : t \in Times} :
           /\ IsPage(P, Matching(walk.user, walk.cursor), walk.limit, walk.offset)
           /\ IsNextCursor(c, P)
           /\ page' = [ids |-> P, next |-> c]
    BY <1>2 DEF SelectPage
  <2>2. /\ walk.step = "page" /\ walk' = [walk EXCEPT !.step = "count"]
        /\ rows' = rows /\ seen' = seen /\ stayed' = stayed /\ ends' = ends
    BY <1>2 DEF SelectPage
  <2>3. /\ walk'.user = walk.user /\ walk'.by = walk.by /\ walk'.cursor = walk.cursor
        /\ walk'.step = "count"
    BY <1>0, <2>2 DEF TypeOK
  <2>4. StayInv'
    BY <2>2, <2>3 DEF MissInv, StayInv, Visible
  <2>5. LeftInv'
    BY <2>2, <2>3 DEF MissInv, LeftInv, After
  <2>6. ASSUME walk.by = "cursor", NEW id \in stayed \ P, After(id)
        PROVE  P # {} /\ (Format(rows[id].created_at) = c \/ rows[id].created_at < c)
    <3>1. id \in Ids /\ Visible(id, walk.user)
      BY <1>0, <2>2, <2>6 DEF MissInv, StayInv, TypeOK
    <3>2. id \in Matching(walk.user, walk.cursor) \ P
      BY <2>6, <3>1 DEF Matching, After
    <3>3. walk.offset = 0 /\ walk.limit \in Nat \ {0}
      BY <1>0, <2>6 DEF ShownInv, CursorInv, TypeOK
    <3> QED  BY <1>0, <2>1, <3>2, <3>3, PageRest
  <2>7. RestInv'
    BY <2>1, <2>2, <2>3, <2>6 DEF RestInv, After
  <2> QED  BY <2>4, <2>5, <2>7
<1>3. CASE CountAll
  <2>1. /\ walk.step = "count" /\ rows' = rows /\ stayed' = stayed
        /\ seen' = seen \cup page.ids /\ ends' = ends \cup {page.next}
    BY <1>3 DEF CountAll
  <2>2. walk'.user = walk.user /\ walk'.by = walk.by /\ walk'.step \in {"page", "done"}
    BY <1>0, <1>3 DEF CountAll, Proceed, TypeOK
  <2>3. StayInv'
    BY <2>1, <2>2 DEF MissInv, StayInv, Visible
  <2>4. RestInv'
    BY <2>2 DEF RestInv
  <2>5. ASSUME walk.by = "cursor", page.ids = {}
        PROVE  LeftInv'
    <3>1. walk' = [walk EXCEPT !.step = "done"]
      BY <1>3, <2>5 DEF CountAll, Proceed
    <3>2. \A id \in stayed \ seen : Format(rows[id].created_at) \in ends
      BY <2>1, <2>5 DEF MissInv, LeftInv, RestInv
    <3> QED  BY <2>1, <2>5, <3>1, <3>2 DEF LeftInv
  <2>6. ASSUME walk.by = "cursor", page.ids # {}
        PROVE  LeftInv'
    <3>1. walk' = [walk EXCEPT !.step = "page", !.cursor = page.next]
      BY <1>3, <2>6 DEF CountAll, Proceed
    <3>2. walk'.step = "page" /\ walk'.cursor = page.next
      BY <1>0, <3>1 DEF TypeOK
    <3>3. ASSUME NEW id \in stayed \ (seen \cup page.ids)
          PROVE  \/ rows[id].created_at < page.next
                 \/ Format(rows[id].created_at) \in ends \cup {page.next}
      BY <2>1, <2>6, <3>3 DEF MissInv, LeftInv, RestInv
    <3> QED  BY <2>1, <3>2, <3>3 DEF LeftInv, After
  <2>7. ASSUME walk.by # "cursor"
        PROVE  LeftInv'
    BY <2>2, <2>7 DEF LeftInv
  <2> QED  BY <2>3, <2>4, <2>5, <2>6, <2>7
<1>4. CASE ListFails
  BY <1>0, <1>4 DEF ListFails, MissInv, StayInv, LeftInv, RestInv, After, Visible, TypeOK
<1>5. CASE Leave
  BY <1>5 DEF Leave, Idle, StayInv, LeftInv, RestInv
<1>6. ASSUME NEW id \in Ids, NEW u \in Users, NEW at \in Times, Insert(id, u, at)
      PROVE  StayInv' /\ LeftInv' /\ RestInv'
  <2>1. CASE walk.step = "idle"
    BY <1>6, <2>1 DEF Insert, StayInv, LeftInv, RestInv
  <2>2. CASE walk.step # "idle"
    <3>1. \A i \in stayed : i \in Ids /\ Visible(i, walk.user)
      BY <1>0, <2>2 DEF MissInv, StayInv, TypeOK
    <3>2. \A i \in stayed : rows'[i] = rows[i]
      BY <1>0, <1>6, <3>1 DEF Insert, Visible, TypeOK
    <3>3. \A i \in stayed' : Visible(i, walk.user)'
      BY <1>6, <3>1, <3>2 DEF Insert, Visible
    <3> QED  BY <1>0, <1>6, <3>3, MissUnmoved DEF Insert
  <2> QED  BY <2>1, <2>2
<1>7. ASSUME NEW id \in Ids, Remove(id)
      PROVE  StayInv' /\ LeftInv' /\ RestInv'
  <2>1. CASE walk.step = "idle"
    BY <1>7, <2>1 DEF Remove, StayInv, LeftInv, RestInv
  <2>2. CASE walk.step # "idle"
    <3>1. \A i \in stayed : i \in Ids /\ Visible(i, walk.user)
      BY <1>0, <2>2 DEF MissInv, StayInv, TypeOK
    <3>2. \A i \in stayed \ {id} : rows'[i] = rows[i]
      BY <1>0, <1>7, <3>1 DEF Remove, TypeOK
    <3>3. \A i \in stayed' : Visible(i, walk.user)'
      BY <1>7, <3>1, <3>2 DEF Remove, Visible
    <3> QED  BY <1>0, <1>7, <3>3, MissUnmoved DEF Remove
  <2> QED  BY <2>1, <2>2
<1>8. CASE UNCHANGED vars
  BY <1>8 DEF vars, MissInv, StayInv, LeftInv, RestInv, After, Visible
<1> QED  BY <1>1, <1>2, <1>3, <1>4, <1>5, <1>6, <1>7, <1>8 DEF Next

LEMMA MissInit == Init => MissInv
BY ShownInit DEF Init, MissInv, StayInv, LeftInv, RestInv, Idle

LEMMA MissEnd == MissInv => SkipsOnlyWithinSecond
BY DEF MissInv, LeftInv, SkipsOnlyWithinSecond

(***************************************************************************)
(* All that a walk by cursor misses of the profiles that were there from   *)
(* its start to its end lies in the seconds in which its pages ended.      *)
(***************************************************************************)
THEOREM CursorMissesASecond == Spec => []SkipsOnlyWithinSecond
BY MissInit, MissStep, MissEnd, PTL DEF Spec

-----------------------------------------------------------------------------
(* What a walk by offset misses *)

\* The profiles that a listing without a cursor puts before this one.
Above(id) == {m \in Matching(walk.user, None) : rows[m].created_at > rows[id].created_at}

\* Unless a profile went or two share a time, those that were there all along
\* and were not shown have at least offset others before them; and those that
\* the page leaves out have the page before them as well.
OffsetInv ==
    walk.by = "offset" =>
        /\ walk.step # "idle" /\ walk.cursor = None
        /\ ~removed /\ Distinct(walk.user) =>
               \A id \in stayed \ seen :
                   /\ walk.step # "done"
                   /\ Cardinality(Above(id)) >= walk.offset
                   /\ walk.step = "count" /\ id \notin page.ids =>
                         /\ page.ids # {}
                         /\ Cardinality(Above(id)) >= walk.offset + walk.limit

SkipInv == MissInv /\ OffsetInv

\* What a page leaves out has the page before it, and all that OFFSET skipped.
LEMMA PageLeads ==
    ASSUME TypeOK, Distinct(walk.user), NEW P,
           IsPage(P, Matching(walk.user, None), walk.limit, walk.offset),
           NEW id \in Matching(walk.user, None) \ P, Cardinality(Above(id)) >= walk.offset
    PROVE  P # {} /\ Cardinality(Above(id)) >= walk.offset + walk.limit
<1> DEFINE M == Matching(walk.user, None)
           A == Above(id)
           limit == walk.limit
           offset == walk.offset
<1>1. /\ IsPage(P, M, limit, offset) /\ id \in M \ P /\ Cardinality(A) >= offset
      /\ limit \in Nat \ {0} /\ offset \in Nat
      /\ IsFiniteSet(M)
  BY MatchingFinite DEF TypeOK
<1>2. \A m \in M : rows[m].created_at \in Nat
  BY RowTimes DEF Matching, Visible
<1>3. \A a, b \in M : rows[a].created_at = rows[b].created_at => a = b
  BY DEF Distinct, Matching
<1>4. A \subseteq M /\ \A m \in M : m \in A <=> rows[m].created_at > rows[id].created_at
  BY DEF Above
<1> SUFFICES P # {} /\ Cardinality(A) >= offset + limit
  OBVIOUS
<1> HIDE DEF M, A, limit, offset
<1>5. PICK S \in SUBSET M :
         /\ P \subseteq M \ S
         /\ Cardinality(S) = Lesser(offset, Cardinality(M))
         /\ Cardinality(P) = Lesser(limit, Cardinality(M \ S))
         /\ Leads(S, M)
         /\ Leads(P, M \ S)
  BY <1>1 DEF IsPage
<1>6. /\ IsFiniteSet(S) /\ IsFiniteSet(M \ S) /\ IsFiniteSet(P) /\ IsFiniteSet(A)
      /\ Cardinality(M) \in Nat /\ Cardinality(S) \in Nat /\ Cardinality(M \ S) \in Nat
      /\ Cardinality(P) \in Nat /\ Cardinality(A) \in Nat
  <2>1. IsFiniteSet(S) /\ IsFiniteSet(M \ S)
    BY <1>1, FS_Subset
  <2>2. IsFiniteSet(P)
    BY <1>5, <2>1, FS_Subset
  <2>3. IsFiniteSet(A)
    BY <1>1, <1>4, FS_Subset
  <2> QED  BY <1>1, <2>1, <2>2, <2>3, FS_CardinalityType
<1>7. id \notin S
  <2> SUFFICES ASSUME id \in S
               PROVE  FALSE
    OBVIOUS
  <2>1. A \subseteq S
    BY <1>5, <1>1, <1>2, <1>4 DEF Leads
  <2>2. A # S
    BY <1>1, <1>2, <1>4
  <2>3. Cardinality(A) < Cardinality(S)
    BY <1>6, <2>1, <2>2, FS_Subset
  <2> QED  BY <1>1, <1>5, <1>6, <2>3 DEF Lesser
<1>8. Cardinality(S) = offset
  <2>1. S # M
    BY <1>1, <1>7
  <2>2. Cardinality(S) < Cardinality(M)
    BY <1>6, <1>1, <2>1, FS_Subset
  <2> QED  BY <1>1, <1>5, <1>6, <2>2 DEF Lesser
<1>9. Cardinality(P) = limit
  <2>1. P \subseteq M \ S /\ P # M \ S
    BY <1>1, <1>5, <1>7
  <2>2. Cardinality(P) < Cardinality(M \ S)
    BY <1>6, <1>1, <2>1, FS_Subset
  <2> QED  BY <1>1, <1>5, <1>6, <2>2 DEF Lesser
<1>10. S \cup P \subseteq A
  <2>1. \A s \in S : rows[s].created_at >= rows[id].created_at /\ s # id /\ s \in M
    BY <1>1, <1>5, <1>7 DEF Leads
  <2>2. \A s \in P : rows[s].created_at >= rows[id].created_at /\ s # id /\ s \in M
    BY <1>1, <1>5, <1>7 DEF Leads
  <2> QED  BY <1>1, <1>2, <1>3, <1>4, <2>1, <2>2
<1>11. Cardinality(S \cup P) = offset + limit
  <2>1. S \cap P = {}
    BY <1>5
  <2>2. Cardinality(S \cap P) = 0
    BY <2>1, FS_EmptySet
  <2>3. Cardinality(S \cup P) = Cardinality(S) + Cardinality(P) - Cardinality(S \cap P)
    BY <1>6, FS_Union
  <2> QED  BY <1>1, <1>8, <1>9, <2>2, <2>3
<1>12. Cardinality(S \cup P) <= Cardinality(A)
  BY <1>6, <1>10, FS_Subset
<1>13. P # {}
  BY <1>1, <1>9, FS_EmptySet
<1> QED  BY <1>1, <1>6, <1>11, <1>12, <1>13

LEMMA AboveFinite ==
    ASSUME NEW id
    PROVE  IsFiniteSet(Above(id)) /\ Cardinality(Above(id)) \in Nat
BY MatchingFinite, FS_Subset, FS_CardinalityType DEF Above

\* While nothing of the user's goes, no profile loses one that is before it.
LEMMA AboveGrows ==
    ASSUME TypeOK, TypeOK', walk' = walk,
           \A i \in Ids : Visible(i, walk.user) => rows'[i] = rows[i],
           NEW id \in Ids, Visible(id, walk.user)
    PROVE  Cardinality(Above(id)) <= Cardinality(Above(id)')
<1>1. Above(id) \subseteq Above(id)'
  BY DEF Above, Matching, Visible
<1>2. Above(id)' \subseteq Ids
  BY DEF Above, Matching
<1>3. IsFiniteSet(Above(id)')
  BY <1>2, FS_Subset, ListingAssumption
<1> QED  BY <1>1, <1>3, FS_Subset

\* A write that deletes nothing of the user's leaves the walk as it was.
LEMMA SkipUnmoved ==
    ASSUME SkipInv, TypeOK', UNCHANGED <<walk, page, seen>>,
           stayed' \subseteq stayed, ~removed' => ~removed,
           walk.step # "idle" /\ ~removed' =>
               \A i \in Ids : Visible(i, walk.user) => rows'[i] = rows[i]
    PROVE  OffsetInv'
<1> SUFFICES ASSUME walk.by = "offset", ~removed', Distinct(walk.user)',
                    NEW id \in stayed \ seen
             PROVE  /\ walk.step # "done"
                    /\ Cardinality(Above(id)') >= walk.offset
                    /\ walk.step = "count" /\ id \notin page.ids =>
                          /\ page.ids # {}
                          /\ Cardinality(Above(id)') >= walk.offset + walk.limit
  BY DEF SkipInv, OffsetInv
<1>1. TypeOK /\ walk.step # "idle" /\ ~removed
  BY DEF SkipInv, MissInv, ShownInv, OffsetInv
<1>2. id \in Ids /\ Visible(id, walk.user)
  BY <1>1 DEF SkipInv, MissInv, StayInv, TypeOK
<1>3. \A i \in Ids : Visible(i, walk.user) => rows'[i] = rows[i]
  BY <1>1
<1>4. Distinct(walk.user)
  BY <1>3 DEF Distinct, Visible
<1>5. Cardinality(Above(id)) <= Cardinality(Above(id)')
  BY <1>1, <1>2, <1>3, AboveGrows
<1>6. Cardinality(Above(id)) \in Nat /\ Cardinality(Above(id)') \in Nat
  <2>1. Above(id)' \subseteq Ids
    BY DEF Above, Matching
  <2> QED  BY <2>1, AboveFinite, FS_Subset, FS_CardinalityType, ListingAssumption
<1>7. walk.offset \in Nat /\ walk.limit \in Nat
  BY <1>1 DEF TypeOK
<1>8. /\ walk.step # "done"
      /\ Cardinality(Above(id)) >= walk.offset
      /\ walk.step = "count" /\ id \notin page.ids =>
            /\ page.ids # {}
            /\ Cardinality(Above(id)) >= walk.offset + walk.limit
  BY <1>1, <1>4 DEF SkipInv, OffsetInv
<1> QED  BY <1>5, <1>6, <1>7, <1>8

LEMMA SkipStep ==
    ASSUME SkipInv, [Next]_vars
    PROVE  SkipInv'
<1>0. MissInv /\ MissInv' /\ TypeOK /\ TypeOK'
  BY MissStep DEF SkipInv, MissInv, ShownInv
<1> SUFFICES OffsetInv'
  BY <1>0 DEF SkipInv
<1>1. ASSUME NEW u \in Users, NEW by \in {"cursor", "offset"}, NEW asked \in Asked,
             StartWalk(u, by, asked)
      PROVE  OffsetInv'
  <2>1. /\ walk'.step = "page" /\ walk'.cursor = None /\ walk'.offset = 0
    BY <1>1 DEF StartWalk
  <2>2. \A id : Cardinality(Above(id)') \in Nat
    <3> TAKE id
    <3>1. Above(id)' \subseteq Ids
      BY DEF Above, Matching
    <3> QED  BY <3>1, FS_Subset, FS_CardinalityType, ListingAssumption
  <2> QED  BY <2>1, <2>2 DEF OffsetInv
<1>2. CASE SelectPage
  <2>1. PICK P \in SUBSET Matching(walk.user, walk.cursor), c \in {None} \cup {Format(t) : t \in Times} :
           /\ IsPage(P, Matching(walk.user, walk.cursor), walk.limit, walk.offset)
           /\ page' = [ids |-> P, next |-> c]
    BY <1>2 DEF SelectPage
  <2>2. /\ walk.step = "page" /\ walk' = [walk EXCEPT !.step = "count"]
        /\ rows' = rows /\ seen' = seen /\ stayed' = stayed /\ removed' = removed
    BY <1>2 DEF SelectPage
  <2>3. /\ walk'.user = walk.user /\ walk'.by = walk.by /\ walk'.cursor = walk.cursor
        /\ walk'.limit = walk.limit /\ walk'.offset = walk.offset /\ walk'.step = "count"
    BY <1>0, <2>2 DEF TypeOK
  <2> SUFFICES ASSUME walk.by = "offset", ~removed, Distinct(walk.user),
                      NEW id \in stayed \ seen
               PROVE  /\ Cardinality(Above(id)) >= walk.offset
                      /\ id \notin P =>
                            /\ P # {}
                            /\ Cardinality(Above(id)) >= walk.offset + walk.limit
    BY <2>1, <2>2, <2>3 DEF SkipInv, OffsetInv, Above, Matching, Visible, Distinct
  <2>4. walk.cursor = None /\ Cardinality(Above(id)) >= walk.offset
    BY DEF SkipInv, OffsetInv
  <2>5. id \in Ids /\ Visible(id, walk.user)
    BY <1>0, <2>2 DEF MissInv, StayInv, TypeOK
  <2>6. id \in Matching(walk.user, None)
    BY <2>5 DEF Matching
  <2>7. IsPage(P, Matching(walk.user, None), walk.limit, walk.offset)
    BY <2>1, <2>4
  <2>8. ASSUME id \notin P
        PROVE  P # {} /\ Cardinality(Above(id)) >= walk.offset + walk.limit
    BY <1>0, <2>4, <2>6, <2>7, <2>8, PageLeads
  <2> QED  BY <2>4, <2>8
<1>3. CASE CountAll
  <2>1. /\ walk.step = "count" /\ rows' = rows /\ stayed' = stayed
        /\ seen' = seen \cup page.ids /\ removed' = removed
    BY <1>3 DEF CountAll
  <2>2. /\ walk'.user = walk.user /\ walk'.by = walk.by
    BY <1>0, <1>3 DEF CountAll, Proceed, TypeOK
  <2> SUFFICES ASSUME walk.by = "offset"
               PROVE  OffsetInv'
    BY <2>2 DEF OffsetInv
  <2>3. \/ page.ids = {} /\ walk' = [walk EXCEPT !.step = "done"]
        \/ page.ids # {} /\ walk' = [walk EXCEPT !.step = "page", !.offset = @ + walk.limit]
    BY <1>3 DEF CountAll, Proceed
  <2>4. /\ walk'.cursor = walk.cursor /\ walk'.limit = walk.limit
        /\ \/ page.ids = {} /\ walk'.step = "done"
           \/ /\ page.ids # {} /\ walk'.step = "page"
              /\ walk'.offset = walk.offset + walk.limit
    BY <1>0, <2>3 DEF TypeOK
  <2>5. walk'.step # "idle" /\ walk'.step # "count" /\ walk'.cursor = None
    BY <2>4 DEF SkipInv, OffsetInv
  <2>6. ASSUME ~removed, Distinct(walk.user), NEW id \in stayed \ (seen \cup page.ids)
        PROVE  page.ids # {} /\ Cardinality(Above(id)) >= walk.offset + walk.limit
    BY <2>1, <2>6 DEF SkipInv, OffsetInv
  <2>7. /\ Distinct(walk.user)' <=> Distinct(walk.user)
        /\ \A id : Above(id)' = Above(id)
    BY <2>1, <2>2 DEF Distinct, Above, Matching, Visible
  <2> QED  BY <2>1, <2>2, <2>4, <2>5, <2>6, <2>7 DEF OffsetInv
<1>4. CASE ListFails
  <2>1. /\ walk'.user = walk.user /\ walk'.by = walk.by /\ walk'.cursor = walk.cursor
        /\ walk'.offset = walk.offset /\ walk'.step = "page"
    BY <1>0, <1>4 DEF ListFails, TypeOK
  <2> QED  BY <1>4, <2>1
           DEF ListFails, SkipInv, OffsetInv, Above, Matching, Visible, Distinct
<1>5. CASE Leave
  BY <1>5 DEF Leave, Idle, OffsetInv
<1>6. ASSUME NEW id \in Ids, NEW u \in Users, NEW at \in Times, Insert(id, u, at)
      PROVE  OffsetInv'
  <2>1. \A i \in Ids : Visible(i, walk.user) => rows'[i] = rows[i]
    BY <1>0, <1>6 DEF Insert, Visible, TypeOK
  <2> QED  BY <1>0, <1>6, <2>1, SkipUnmoved DEF Insert
<1>7. ASSUME NEW id \in Ids, Remove(id)
      PROVE  OffsetInv'
  <2>1. ~removed' => \A i \in Ids : Visible(i, walk.user) => rows'[i] = rows[i]
    BY <1>0, <1>7 DEF Remove, Visible, TypeOK
  <2> QED  BY <1>0, <1>7, <2>1, SkipUnmoved DEF Remove
<1>8. CASE UNCHANGED vars
  BY <1>8 DEF vars, SkipInv, OffsetInv, Above, Matching, Visible, Distinct
<1> QED  BY <1>1, <1>2, <1>3, <1>4, <1>5, <1>6, <1>7, <1>8 DEF Next

LEMMA SkipInit == Init => SkipInv
BY MissInit DEF Init, SkipInv, OffsetInv, Idle

LEMMA SkipEnd == SkipInv => OffsetSkipsOnlyOnRemoval
BY DEF SkipInv, OffsetInv, OffsetSkipsOnlyOnRemoval

(***************************************************************************)
(* A walk by offset shows every profile that was there from its start to   *)
(* its end, however many are inserted before the ones it has reached, if   *)
(* none of the user's went meanwhile and no two share a created_at.        *)
(***************************************************************************)
THEOREM OffsetMissesOnlyOnRemoval == Spec => []OffsetSkipsOnlyOnRemoval
BY SkipInit, SkipStep, SkipEnd, PTL DEF Spec

-----------------------------------------------------------------------------
(* What the total is worth *)

TotalInv ==
    walk.step = "count" /\ quiet =>
        Cardinality(page.ids) =
          Lesser(walk.limit, IF Cardinality(Matching(walk.user, walk.cursor)) < walk.offset THEN 0
                             ELSE Cardinality(Matching(walk.user, walk.cursor)) - walk.offset)

LEMMA TotalStep ==
    ASSUME TypeOK, TotalInv, [Next]_vars
    PROVE  TotalInv'
<1>1. CASE SelectPage
  <2>1. PICK P \in SUBSET Matching(walk.user, walk.cursor), c \in {None} \cup {Format(t) : t \in Times} :
           /\ IsPage(P, Matching(walk.user, walk.cursor), walk.limit, walk.offset)
           /\ page' = [ids |-> P, next |-> c]
    BY <1>1 DEF SelectPage
  <2>2. walk' = [walk EXCEPT !.step = "count"] /\ rows' = rows
    BY <1>1 DEF SelectPage
  <2>3. /\ walk'.user = walk.user /\ walk'.cursor = walk.cursor
        /\ walk'.limit = walk.limit /\ walk'.offset = walk.offset
    BY <2>2 DEF TypeOK
  <2>4. Matching(walk.user, walk.cursor)' = Matching(walk.user, walk.cursor)
    BY <2>2, <2>3 DEF Matching, Visible
  <2>5. walk.limit \in Nat /\ walk.offset \in Nat
    BY DEF TypeOK
  <2>6. Cardinality(P) =
          Lesser(walk.limit, IF Cardinality(Matching(walk.user, walk.cursor)) < walk.offset THEN 0
                             ELSE Cardinality(Matching(walk.user, walk.cursor)) - walk.offset)
    BY <2>1, <2>5, MatchingFinite, PageSize
  <2> QED  BY <2>1, <2>3, <2>4, <2>6 DEF TotalInv
<1>2. CASE CountAll
  BY <1>2 DEF CountAll, Proceed, TotalInv, TypeOK
<1>3. CASE ListFails
  BY <1>3 DEF ListFails, TotalInv, TypeOK
<1>4. CASE Leave
  BY <1>4 DEF Leave, Idle, TotalInv
<1>5. CASE UNCHANGED vars
  BY <1>5 DEF vars, TotalInv, Matching, Visible
<1>6. ASSUME NEW u \in Users, NEW by \in {"cursor", "offset"}, NEW asked \in Asked,
             StartWalk(u, by, asked)
      PROVE  TotalInv'
  BY <1>6 DEF StartWalk, TotalInv
<1>7. ASSUME NEW id \in Ids, NEW u \in Users, NEW at \in Times, Insert(id, u, at)
      PROVE  TotalInv'
  <2>1. ~quiet'
    BY <1>7 DEF Insert
  <2> QED  BY <2>1 DEF TotalInv
<1>8. ASSUME NEW id \in Ids, Remove(id)
      PROVE  TotalInv'
  <2>1. ~quiet'
    BY <1>8 DEF Remove
  <2> QED  BY <2>1 DEF TotalInv
<1> QED  BY <1>1, <1>2, <1>3, <1>4, <1>5, <1>6, <1>7, <1>8 DEF Next

LEMMA TotalFits ==
    ASSUME TypeOK, TotalInv, [Next]_vars
    PROVE  [reply'.sent /\ quiet =>
              Cardinality(reply'.page) =
                 Lesser(walk.limit, IF reply'.total < walk.offset THEN 0
                                    ELSE reply'.total - walk.offset)]_vars
<1> SUFFICES ASSUME Next, reply'.sent, quiet
             PROVE  Cardinality(reply'.page) =
                      Lesser(walk.limit, IF reply'.total < walk.offset THEN 0
                                         ELSE reply'.total - walk.offset)
  OBVIOUS
<1>1. CASE CountAll
  BY <1>1 DEF CountAll, TotalInv
<1>2. CASE reply' = NoReply
  BY <1>2 DEF NoReply
<1> QED  BY <1>1, <1>2
         DEF Next, StartWalk, SelectPage, ListFails, Leave, Insert, Remove

(***************************************************************************)
(* Unless something was written between the two statements of a listing,   *)
(* its total accounts for its page.                                        *)
(***************************************************************************)
THEOREM TotalAccountsForPage == Spec => TotalFitsPage
<1>1. TypeOK /\ TotalInv /\ [Next]_vars =>
        [reply'.sent /\ quiet =>
              Cardinality(reply'.page) =
                 Lesser(walk.limit, IF reply'.total < walk.offset THEN 0
                                    ELSE reply'.total - walk.offset)]_vars
  BY TotalFits
<1>2. Init => TotalInv
  BY DEF Init, Idle, TotalInv
<1> QED  BY <1>1, <1>2, TypeInit, TypeStep, TotalStep, PTL DEF Spec, TotalFitsPage
=============================================================================
