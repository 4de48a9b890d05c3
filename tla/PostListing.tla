------------------------------ MODULE PostListing ------------------------------
(***************************************************************************)
(* Reading the list of posts page by page while posts are published and    *)
(* deleted.  Every page is a request of its own, and its rows and their    *)
(* total are two queries that run at the same time (Promise.all): either   *)
(* may see the table first.  A reader begins at page 1 and goes on to the  *)
(* next page until the metadata of the answer names no later one.          *)
(*                                                                         *)
(* Of the orders of getOrderByClause the two by time are modelled, which   *)
(* do not move under the reader.  published_at is cut to whole seconds and *)
(* nothing else is ordered by: posts of one second come in any order, and  *)
(* in another one for the next page.  It is also set before the row is     *)
(* inserted, by whichever process publishes, so that a new row may be of   *)
(* an earlier second than those that are there.                            *)
(***************************************************************************)
EXTENDS Integers, Sequences, FiniteSetsExt, QueryOrder

CONSTANTS
    MaxPosts,       \* bound of the posts
    PostKinds,      \* tags and author a post may have
    Moments,        \* seconds in which posts are published
    Filters,        \* sequences of tags, and author, a list may be asked for
    PageSize,
    AnyAuthor

ASSUME ListingAssumption ==
    /\ MaxPosts \in Nat /\ PageSize \in Nat \ {0} /\ Moments \subseteq Int
    /\ \A f \in Filters :
          /\ f.tags \in Seq(STRING)
          /\ f.author = AnyAuthor \/ \E k \in PostKinds : k.author = f.author

VARIABLES
    rows,       \* sequence of rows, in the order they were inserted
    reading,    \* the request: its step, filters, sort, page, and what it read
    seen,       \* posts the reader has been shown
    repeated,   \* history: posts that were on two of the pages
    present,    \* history: posts that match and were there all the time
    countFirst, \* history: some total was older than the rows it came with
    grown       \* history: a post was published while the pages were turned

listingVars == <<rows, reading, seen, repeated, present, countFirst, grown>>

-----------------------------------------------------------------------------
(***************************************************************************)
(* The query.  joinWhereCauses joins the clauses with AND; the clause of   *)
(* the tags is itself a disjunction, without parentheses, so that the      *)
(* first tag binds to what comes before it and the last to what comes      *)
(* after.                                                                  *)
(***************************************************************************)
HasTag(i, tag) == tag \in rows[i].tags

ByAuthor(i, author) == author = AnyAuthor \/ rows[i].author = author

WhereClauses(i, tags, later) ==
    IF tags = <<>> THEN later
    ELSE \E k \in DOMAIN tags : HasTag(i, tags[k]) /\ (k = Len(tags) => later)

NotDeleted(i) == ~rows[i].deleted

\* buildBasePostSelectQuery
Selected(f) ==
    {i \in DOMAIN rows : WhereClauses(i, f.tags, ByAuthor(i, f.author) /\ NotDeleted(i))}

\* countQuery: deleted posts count.
Counted(f) == {i \in DOMAIN rows : WhereClauses(i, f.tags, ByAuthor(i, f.author))}

Total(f) == Cardinality(Counted(f))

\* getOrderByClause
SortKey(sort, i) == CASE sort = "newest" -> -rows[i].at
                      [] sort = "oldest" -> rows[i].at

\* The orders the database may answer S in.
OrderBy(sort, S) == Orders(S, [i \in S |-> SortKey(sort, i)])

\* Mutants of Offset: pages from zero; no OFFSET at all.
OffsetZero(page) == PageSize * page
OffsetNone(page) == 0

Offset(page) == PageSize * (page - 1)

\* LIMIT ? OFFSET ?
Page(s, page) == SubSeq(s, Offset(page) + 1, Min({Offset(page) + PageSize, Len(s)}))

\* fromSqlMany: every row becomes a post for its viewer.
Records(s) == {s[i] : i \in DOMAIN s}

\* PaginationMetadata: Math.ceil(total / limit), nextPage.
PagesCount(total) == (total + PageSize - 1) \div PageSize
NextPage(page, total) == IF page >= PagesCount(total) THEN PagesCount(total) ELSE page + 1

-----------------------------------------------------------------------------
Matches(i, f) ==
    /\ ~rows[i].deleted /\ ByAuthor(i, f.author)
    /\ f.tags = <<>> \/ \E k \in DOMAIN f.tags : HasTag(i, f.tags[k])

\* PostController.list and listAllPostsByAuthor, page 1.
StartReading(f, sort) ==
    /\ reading.step = "none"
    /\ reading' = [step |-> "list", filters |-> f, sort |-> sort, page |-> 1,
                   listed |-> FALSE, total |-> -1]
    /\ present' = {i \in DOMAIN rows : Matches(i, f)}
    /\ UNCHANGED <<rows, seen, repeated, countFirst, grown>>

SelectRecords ==
    /\ reading.step = "list" /\ ~reading.listed
    /\ \E list \in OrderBy(reading.sort, Selected(reading.filters)) :
          LET shown == Records(Page(list, reading.page))
          IN  /\ seen' = seen \union shown
              /\ repeated' = repeated \union (seen \intersect shown)
    /\ reading' = [reading EXCEPT !.listed = TRUE]
    /\ countFirst' = (countFirst \/ reading.total # -1)
    /\ UNCHANGED <<rows, present, grown>>

CountRecords ==
    /\ reading.step = "list" /\ reading.total = -1
    /\ reading' = [reading EXCEPT !.total = Total(reading.filters)]
    /\ UNCHANGED <<rows, seen, repeated, present, countFirst, grown>>

\* The answer is given; the reader turns the page or has read them all.
TurnPage ==
    /\ reading.step = "list" /\ reading.listed /\ reading.total # -1
    /\ reading' = IF NextPage(reading.page, reading.total) > reading.page
                  THEN [reading EXCEPT !.page = NextPage(reading.page, reading.total),
                                       !.listed = FALSE, !.total = -1]
                  ELSE [reading EXCEPT !.step = "done"]
    /\ UNCHANGED <<rows, seen, repeated, present, countFirst, grown>>

\* PostFactory sets publishedAt, create() the tag of the incident; add inserts the row.
PublishPost(k, at) ==
    /\ Len(rows) < MaxPosts
    /\ rows' = Append(rows, [at |-> at, tags |-> k.tags, author |-> k.author, deleted |-> FALSE])
    /\ grown' = (grown \/ reading.step = "list")
    /\ UNCHANGED <<reading, seen, repeated, present, countFirst>>

\* PostRepository.delete
DeleteListed(i) ==
    /\ ~rows[i].deleted
    /\ rows' = [rows EXCEPT ![i].deleted = TRUE]
    /\ present' = IF reading.step = "list" THEN {} ELSE present
    /\ UNCHANGED <<reading, seen, repeated, countFirst, grown>>

ListingInit ==
    /\ rows = <<>>
    /\ reading = [step |-> "none"]
    /\ seen = {} /\ repeated = {} /\ present = {}
    /\ countFirst = FALSE /\ grown = FALSE

ListingNext ==
    \/ \E f \in Filters, sort \in {"newest", "oldest"} : StartReading(f, sort)
    \/ SelectRecords \/ CountRecords \/ TurnPage
    \/ \E k \in PostKinds, at \in Moments : PublishPost(k, at)
    \/ \E i \in DOMAIN rows : DeleteListed(i)

ListingSpec == ListingInit /\ [][ListingNext]_listingVars

-----------------------------------------------------------------------------
ListingTypeOK ==
    /\ rows \in Seq([at : Moments, tags : UNION {SUBSET k.tags : k \in PostKinds},
                     author : {k.author : k \in PostKinds}, deleted : BOOLEAN])
    /\ Len(rows) <= MaxPosts
    /\ reading.step \in {"none", "list", "done"}
    /\ seen \subseteq DOMAIN rows /\ repeated \subseteq seen /\ present \subseteq DOMAIN rows
    /\ countFirst \in BOOLEAN /\ grown \in BOOLEAN

SameSecond(i, j) == rows[i].at = rows[j].at

(***************************************************************************)
(* A reader who has turned all the pages has seen every post that was      *)
(* there, and matched, from the beginning, however many were published     *)
(* meanwhile, or at least one of the same second: only posts that tie in   *)
(* the order can be passed over, where a page ends among them.  That is    *)
(* when none was deleted meanwhile and no total was older than the rows it *)
(* came with: then the newest rows push the last ones beyond the last page *)
(* that total knows.                                                       *)
(***************************************************************************)
NoPostIsMissed ==
    reading.step = "done" /\ ~countFirst => \A i \in present : \E j \in seen : SameSecond(i, j)

(***************************************************************************)
(* While nothing is published, and even though posts are deleted, which    *)
(* draws the later ones nearer, no post is shown on two pages, but for     *)
(* those that share their second with another post of the query.           *)
(***************************************************************************)
NoPostTwice ==
    ~grown => \A i \in repeated :
                 \E j \in Counted(reading.filters) \ {i} : SameSecond(i, j)
=============================================================================
