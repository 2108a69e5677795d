--------------------------- MODULE ProfileListing ---------------------------
(***************************************************************************)
(* GET /profiles, page by page: a client walks through its profiles with   *)
(* next_cursor or with offset while other requests insert and delete.  A   *)
(* listing is two statements, the page and then the count, and writes come *)
(* between them.  Time is counted in ticks, Second of them to the second.  *)
(***************************************************************************)
EXTENDS Naturals, FiniteSets

CONSTANTS
    Users,     \* user ids
    Ids,       \* profile ids (UUIDs)
    Times,     \* created_at of the profiles
    Second,    \* ticks of created_at to the second
    Fallback,  \* the limit of a request that names none
    MaxLimit,  \* the largest limit
    Asked,     \* limits that clients name; 0 for none, or one that is no number
    NoRow,     \* no row under this primary key
    None       \* no cursor

Row == [user_id : Users, created_at : Times, deleted : BOOLEAN]

ASSUME ListingAssumption ==
    /\ Times \subseteq Nat
    /\ Second \in Nat \ {0}
    /\ Fallback \in Nat \ {0}
    /\ MaxLimit \in Nat \ {0}
    /\ Asked \subseteq Nat
    /\ NoRow \notin Row
    /\ None \notin Nat
    /\ IsFiniteSet(Ids)

VARIABLES
    rows,     \* the profiles table
    walk,     \* the client's next request
    page,     \* the page that the request read, before it counts
    reply,    \* the reply that the step sent
    seen,     \* profiles shown so far on this walk
    stayed,   \* the user's profiles that were there all along the walk
    ends,     \* the cursors that this walk went through
    removed,  \* whether one of the user's profiles was deleted on the walk
    quiet     \* whether nothing was written since the page was read

vars == <<rows, walk, page, reply, seen, stayed, ends, removed, quiet>>

Lesser(a, b) == IF a < b THEN a ELSE b

\* WHERE user_id = ? AND (deleted_at IS NULL)
Visible(id, u) == rows[id] # NoRow /\ rows[id].user_id = u /\ ~rows[id].deleted

\* Mutant of Matching: created_at <= ?
MatchingAtMost(u, cursor) ==
    {id \in Ids : Visible(id, u) /\ (cursor # None => rows[id].created_at <= cursor)}

\* ... AND created_at < ?
Matching(u, cursor) ==
    {id \in Ids : Visible(id, u) /\ (cursor # None => rows[id].created_at < cursor)}

\* Mutants of Leads: no ORDER BY; ORDER BY created_at ASC.
AnyOrder(S, M) == TRUE

LeadsAscending(S, M) ==
    \A s \in S, m \in M \ S : rows[s].created_at <= rows[m].created_at

\* ORDER BY created_at DESC puts S first, in whatever order equals come.
Leads(S, M) == \A s \in S, m \in M \ S : rows[s].created_at >= rows[m].created_at

\* LIMIT and OFFSET: P comes after offset rows of M.
IsPage(P, M, limit, offset) ==
    \E S \in SUBSET M :
        /\ P \subseteq M \ S
        /\ Cardinality(S) = Lesser(offset, Cardinality(M))
        /\ Cardinality(P) = Lesser(limit, Cardinality(M \ S))
        /\ Leads(S, M)
        /\ Leads(P, M \ S)

\* Mutant of GetLimit: no fallback.
GetLimitRaw(asked) == Lesser(asked, MaxLimit)

\* response.GetLimit
GetLimit(asked) == IF asked = 0 THEN Fallback ELSE Lesser(asked, MaxLimit)

\* RFC3339 has no fraction of a second.
Format(at) == (at \div Second) * Second

\* The last row of a page is an oldest one; an empty page has no cursor.
IsNextCursor(c, P) ==
    \/ P = {} /\ c = None
    \/ \E last \in P : /\ \A p \in P : rows[last].created_at <= rows[p].created_at
                       /\ c = Format(rows[last].created_at)

-----------------------------------------------------------------------------
NoReply == [page |-> {}, total |-> 0, next |-> None, sent |-> FALSE]

NoPage == [ids |-> {}, next |-> None]

Idle == [step |-> "idle", user |-> None, by |-> "cursor", limit |-> Fallback,
         cursor |-> None, offset |-> 0]

\* A client starts over, with no cursor and no offset.
StartWalk(u, by, asked) ==
    /\ walk.step = "idle"
    /\ walk' = [step |-> "page", user |-> u, by |-> by, limit |-> GetLimit(asked),
                cursor |-> None, offset |-> 0]
    /\ seen' = {}
    /\ stayed' = {id \in Ids : Visible(id, u)}
    /\ ends' = {}
    /\ removed' = FALSE
    /\ reply' = NoReply
    /\ UNCHANGED <<rows, page, quiet>>

\* SELECT * ... ORDER BY created_at DESC LIMIT ? OFFSET ?
SelectPage ==
    /\ walk.step = "page"
    /\ \E P \in SUBSET Matching(walk.user, walk.cursor), c \in {None} \cup {Format(t) : t \in Times} :
        /\ IsPage(P, Matching(walk.user, walk.cursor), walk.limit, walk.offset)
        /\ IsNextCursor(c, P)
        /\ page' = [ids |-> P, next |-> c]
    /\ walk' = [walk EXCEPT !.step = "count"]
    /\ quiet' = TRUE
    /\ reply' = NoReply
    /\ UNCHANGED <<rows, seen, stayed, ends, removed>>

\* The client goes on after a page, and stops after an empty one.
Proceed ==
    walk' = CASE page.ids = {} -> [walk EXCEPT !.step = "done"]
              [] page.ids # {} /\ walk.by = "cursor" ->
                    [walk EXCEPT !.step = "page", !.cursor = page.next]
              [] page.ids # {} /\ walk.by = "offset" ->
                    [walk EXCEPT !.step = "page", !.offset = @ + walk.limit]

\* Mutant of CountAll: the count does not get the cursor.
CountEverything ==
    /\ walk.step = "count"
    /\ reply' = [page |-> page.ids, total |-> Cardinality(Matching(walk.user, None)),
                 next |-> page.next, sent |-> TRUE]
    /\ Proceed
    /\ seen' = seen \cup page.ids
    /\ ends' = ends \cup {page.next}
    /\ page' = NoPage
    /\ UNCHANGED <<rows, stayed, removed, quiet>>

\* SELECT COUNT(*) over the same conditions, and the reply.
CountAll ==
    /\ walk.step = "count"
    /\ reply' = [page |-> page.ids, total |-> Cardinality(Matching(walk.user, walk.cursor)),
                 next |-> page.next, sent |-> TRUE]
    /\ Proceed
    /\ seen' = seen \cup page.ids
    /\ ends' = ends \cup {page.next}
    /\ page' = NoPage
    /\ UNCHANGED <<rows, stayed, removed, quiet>>

\* Either statement fails: a 500, and the client asks for the same page again.
ListFails ==
    /\ walk.step = "count"
    /\ walk' = [walk EXCEPT !.step = "page"]
    /\ page' = NoPage
    /\ reply' = NoReply
    /\ UNCHANGED <<rows, seen, stayed, ends, removed, quiet>>

\* The client is through, or gives up.
Leave ==
    /\ walk.step \in {"page", "done"}
    /\ walk' = Idle
    /\ reply' = NoReply
    /\ seen' = {} /\ stayed' = {} /\ ends' = {}
    /\ removed' = FALSE /\ quiet' = FALSE
    /\ UNCHANGED <<rows, page>>

\* Another request creates a profile.  It took created_at before its INSERT,
\* and may have been slow, so rows come in any order of created_at.
Insert(id, u, at) ==
    /\ rows[id] = NoRow
    /\ rows' = [rows EXCEPT ![id] = [user_id |-> u, created_at |-> at, deleted |-> FALSE]]
    /\ quiet' = FALSE
    /\ reply' = NoReply
    /\ UNCHANGED <<walk, page, seen, stayed, ends, removed>>

\* Another request deletes a profile; its id is never used again.
Remove(id) ==
    /\ rows[id] # NoRow
    /\ ~rows[id].deleted
    /\ rows' = [rows EXCEPT ![id].deleted = TRUE]
    /\ stayed' = stayed \ {id}
    /\ removed' = (removed \/ rows[id].user_id = walk.user)
    /\ quiet' = FALSE
    /\ reply' = NoReply
    /\ UNCHANGED <<walk, page, seen, ends>>

Init ==
    /\ rows = [id \in Ids |-> NoRow]
    /\ walk = Idle
    /\ page = NoPage
    /\ reply = NoReply
    /\ seen = {}
    /\ stayed = {}
    /\ ends = {}
    /\ removed = FALSE
    /\ quiet = FALSE

Next ==
    \/ \E u \in Users, by \in {"cursor", "offset"}, asked \in Asked : StartWalk(u, by, asked)
    \/ SelectPage
    \/ CountAll
    \/ ListFails
    \/ Leave
    \/ \E id \in Ids, u \in Users, at \in Times : Insert(id, u, at)
    \/ \E id \in Ids : Remove(id)

Spec == Init /\ [][Next]_vars

-----------------------------------------------------------------------------
Cursors == {None} \cup {Format(t) : t \in Times}

\* Rows, requests and pages are well formed; a cursor is a whole second.
TypeOK ==
    /\ rows \in [Ids -> Row \cup {NoRow}]
    /\ walk \in [step : {"idle", "page", "count", "done"}, user : Users \cup {None},
                 by : {"cursor", "offset"}, limit : Nat \ {0}, cursor : Cursors,
                 offset : Nat]
    /\ page \in [ids : SUBSET Ids, next : Cursors]
    /\ seen \subseteq Ids /\ stayed \subseteq Ids /\ ends \subseteq Cursors

(***************************************************************************)
(* A walk by cursor never shows a profile twice, whatever is inserted or   *)
(* deleted between its pages and whichever order equal created_at come in: *)
(* a cursor that is cut down to the second stays behind all it has shown.  *)
(***************************************************************************)
NeverShownTwice ==
    [][walk.by = "cursor" => reply'.page \cap seen = {}]_vars

(***************************************************************************)
(* What a walk by cursor can miss: of the profiles that were there all the *)
(* time, only some whose created_at is in the very second in which a page  *)
(* ended, because next_cursor has lost the fraction (handler.go:117).      *)
(***************************************************************************)
SkipsOnlyWithinSecond ==
    walk.step = "done" /\ walk.by = "cursor" =>
        \A id \in stayed \ seen : Format(rows[id].created_at) \in ends

\* No two profiles of the user have the same created_at.
Distinct(u) ==
    \A a, b \in Ids : Visible(a, u) /\ Visible(b, u) /\ rows[a].created_at = rows[b].created_at
                      => a = b

(***************************************************************************)
(* A walk by offset misses none of the profiles that were there all the    *)
(* time, although insertions move them from page to page, unless one was   *)
(* deleted meanwhile or two have the same created_at.                      *)
(***************************************************************************)
OffsetSkipsOnlyOnRemoval ==
    walk.step = "done" /\ walk.by = "offset" /\ ~removed /\ Distinct(walk.user) =>
        stayed \subseteq seen

(***************************************************************************)
(* The total is a statement of its own, yet it fits the page it comes with *)
(* unless something was written between the two: the page is as long as    *)
(* limit, offset and total say.                                            *)
(***************************************************************************)
TotalFitsPage ==
    [][reply'.sent /\ quiet =>
          Cardinality(reply'.page) =
             Lesser(walk.limit, IF reply'.total < walk.offset THEN 0
                                ELSE reply'.total - walk.offset)]_vars
=============================================================================
