----------------------------- MODULE Reading_proof -----------------------------
(***************************************************************************)
(* Proofs about the parts that answer readers: the paged list of posts,    *)
(* the cooldown of views, and the reports on rain.                         *)
(***************************************************************************)
EXTENDS PostListing, WeatherReports, ViewCooldown, SumsAndSorting, SequenceTheorems

-----------------------------------------------------------------------------
(***************************************************************************)
(* The inductive invariant of a reader of the list.  A post that was there *)
(* all the time, and of whose second none has been shown, is still to      *)
(* come: as many posts of other seconds are before it as the pages so far  *)
(* have taken, and once a page is read and then counted, the total knows   *)
(* of a later page.  A post that was shown and is alone in its second has  *)
(* fewer before it, as long as nothing is published.                       *)
(***************************************************************************)
Ahead(i) ==
    {j \in Selected(reading.filters) : SortKey(reading.sort, j) < SortKey(reading.sort, i)}

PagesRead == IF reading.listed THEN reading.page ELSE reading.page - 1

Requested ==
    [step : {"list", "done"}, filters : Filters, sort : {"newest", "oldest"},
     page : Nat \ {0}, listed : BOOLEAN, total : Int]

StillToCome(i) ==
    /\ i \in Selected(reading.filters)
    /\ Cardinality(Ahead(i)) >= PageSize * PagesRead
    /\ reading.listed /\ reading.total # -1 /\ ~countFirst => reading.total > PageSize * reading.page

SecondIsSeen(i) == \E j \in seen : SameSecond(i, j)

AloneInSecond(i) == \A j \in Counted(reading.filters) : SameSecond(i, j) => j = i

Passed(i) == AloneInSecond(i) => Cardinality(Ahead(i)) < PageSize * PagesRead

ListingInv ==
    /\ ListingTypeOK
    /\ reading.step = "none" => seen = {}
    /\ reading.step # "none" => reading \in Requested
    /\ reading.step = "list" => \A i \in present : SecondIsSeen(i) \/ StillToCome(i)
    /\ reading.step = "list" /\ ~grown => \A i \in seen : Passed(i)
    /\ NoPostIsMissed
    /\ NoPostTwice

USE ListingAssumption

(***************************************************************************)
(* What a page shows of a list: what stands at its places.                 *)
(***************************************************************************)
OnPage(p, page) == PageSize * (page - 1) < p /\ p <= PageSize * page

ShownOf(s, n, page) == {s[p] : p \in {q \in 1 .. n : OnPage(q, page)}}

LEMMA RecordsOfPage ==
  ASSUME NEW T, NEW n \in Nat, NEW s \in [1 .. n -> T], NEW page \in Nat \ {0}
  PROVE  Records(Page(s, page)) = ShownOf(s, n, page)
<1> DEFINE off == Offset(page)
           last == Min({off + PageSize, Len(s)})
<1>1. s \in Seq(T) /\ Len(s) = n
  <2>1. s \in Seq(T)
    BY SeqDef
  <2> QED BY <2>1, LenProperties
<1>2. off \in Nat /\ off = PageSize * (page - 1) /\ off + PageSize = PageSize * page
  BY DEF Offset
<1>3. last \in Nat /\ last <= n /\ last <= off + PageSize /\ (last = n \/ last = off + PageSize)
  <2> DEFINE M == {off + PageSize, Len(s)}
  <2>1. \E x \in M : \A y \in M : x <= y
    BY <1>1, <1>2
  <2>2. last \in M /\ \A y \in M : last <= y
    BY <2>1 DEF Min
  <2> QED BY <1>1, <1>2, <2>2
<1>4. Page(s, page) = SubSeq(s, off + 1, last)
  BY DEF Page
<1>5. \A i \in off + 1 .. last : s[i] \in T
  BY <1>2, <1>3
<1>6. /\ Page(s, page) \in Seq(T)
      /\ Len(Page(s, page)) = IF off + 1 <= last THEN last - off ELSE 0
      /\ \A i \in 1 .. last - off : Page(s, page)[i] = s[off + i]
  <2> HIDE DEF off, last
  <2>1. off + 1 \in Int /\ last \in Int
    BY <1>2, <1>3
  <2>2. /\ SubSeq(s, off + 1, last) \in Seq(T)
        /\ Len(SubSeq(s, off + 1, last)) = IF off + 1 <= last THEN last - (off + 1) + 1 ELSE 0
        /\ \A i \in 1 .. last - (off + 1) + 1 :
              SubSeq(s, off + 1, last)[i] = s[off + 1 + i - 1]
    BY <1>5, <2>1, SubSeqProperties
  <2>3. last - (off + 1) + 1 = last - off
    BY <1>2, <1>3
  <2>4. \A i \in 1 .. last - off : off + 1 + i - 1 = off + i
    BY <1>2, <1>3
  <2> QED BY <1>4, <2>2, <2>3, <2>4
<1>7. DOMAIN Page(s, page) = 1 .. Len(Page(s, page))
  BY <1>6, LenProperties
<1>8. ASSUME NEW x \in Records(Page(s, page))
      PROVE  x \in ShownOf(s, n, page)
  <2> HIDE DEF off, last
  <2>1. PICK i \in DOMAIN Page(s, page) : x = Page(s, page)[i]
    BY DEF Records
  <2>2. i \in 1 .. last - off
    BY <1>2, <1>3, <1>6, <1>7, <2>1
  <2>3. x = s[off + i] /\ off + i \in 1 .. n /\ off < off + i /\ off + i <= off + PageSize
    BY <1>2, <1>3, <1>6, <2>1, <2>2
  <2>4. OnPage(off + i, page)
    BY <1>2, <2>3 DEF OnPage
  <2> QED BY <2>3, <2>4 DEF ShownOf
<1>9. ASSUME NEW p \in 1 .. n, OnPage(p, page)
      PROVE  s[p] \in Records(Page(s, page))
  <2> HIDE DEF off, last
  <2>1. off < p /\ p <= off + PageSize
    BY <1>2, <1>9 DEF OnPage
  <2>2. p - off \in 1 .. last - off /\ off + (p - off) = p
    BY <1>2, <1>3, <2>1
  <2>3. Page(s, page)[p - off] = s[p]
    BY <1>6, <2>2
  <2>4. p - off \in DOMAIN Page(s, page)
    BY <1>2, <1>3, <1>6, <1>7, <2>2
  <2> QED BY <2>3, <2>4 DEF Records
<1> QED BY <1>8, <1>9 DEF ShownOf

-----------------------------------------------------------------------------
(***************************************************************************)
(* What is selected are places of the table, all of what matches is, and   *)
(* the count takes no less.                                                *)
(***************************************************************************)
LEMMA SelectedIsFinite ==
  ASSUME NEW f \in Filters, NEW T, rows \in Seq(T)
  PROVE  /\ Selected(f) \in SUBSET Int /\ IsFiniteSet(Selected(f))
         /\ Selected(f) \subseteq DOMAIN rows
         /\ Cardinality(Selected(f)) \in Nat
<1>1. DOMAIN rows = 1 .. Len(rows) /\ Len(rows) \in Nat
  BY LenProperties
<1>2. Selected(f) \subseteq DOMAIN rows
  BY DEF Selected
<1>3. IsFiniteSet(DOMAIN rows)
  BY <1>1, FS_Interval
<1> QED BY <1>1, <1>2, <1>3, FS_Subset, FS_CardinalityType

LEMMA MatchingIsSelected ==
  ASSUME NEW f \in Filters, NEW i \in DOMAIN rows, Matches(i, f)
  PROVE  i \in Selected(f)
BY DEF Matches, Selected, WhereClauses, NotDeleted

LEMMA SelectedIsCounted == ASSUME NEW f \in Filters PROVE Selected(f) \subseteq Counted(f)
BY DEF Selected, Counted, WhereClauses

LEMMA TotalCountsSelected ==
  ASSUME NEW f \in Filters, NEW T, rows \in Seq(T)
  PROVE  Total(f) \in Nat /\ Total(f) >= Cardinality(Selected(f))
<1>1. IsFiniteSet(DOMAIN rows)
  BY LenProperties, FS_Interval
<1>2. Counted(f) \subseteq DOMAIN rows
  BY DEF Counted
<1>3. IsFiniteSet(Counted(f)) /\ Cardinality(Counted(f)) \in Nat
  BY <1>1, <1>2, FS_Subset, FS_CardinalityType
<1>4. Cardinality(Selected(f)) <= Cardinality(Counted(f)) /\ Cardinality(Selected(f)) \in Nat
  BY <1>3, SelectedIsCounted, FS_Subset, FS_CardinalityType
<1> QED BY <1>3, <1>4 DEF Total

(***************************************************************************)
(* Rounding up: what no page is left for fits the pages there are.         *)
(***************************************************************************)
LEMMA PagesHoldTotal ==
  ASSUME NEW total \in Nat, NEW page \in Nat, page >= PagesCount(total)
  PROVE  total <= PageSize * page
<1> DEFINE q == (total + PageSize - 1) \div PageSize
<1>1. PageSize \in Nat /\ PageSize > 0
  OBVIOUS
<1>2. q \in Int /\ total + PageSize - 1 < PageSize * q + PageSize
  BY <1>1
<1>3. q <= page
  BY DEF PagesCount
<1> HIDE DEF q
<1>4. PageSize * q <= PageSize * page
  BY <1>1, <1>2, <1>3
<1>5. PageSize * q \in Int /\ PageSize * page \in Int
  BY <1>1, <1>2
<1> QED BY <1>1, <1>2, <1>4, <1>5

-----------------------------------------------------------------------------
ListRows == [at : Moments, tags : UNION {SUBSET k.tags : k \in PostKinds},
             author : {k.author : k \in PostKinds}, deleted : BOOLEAN]

LEMMA ListingInitInv == ListingInit => ListingInv
<1> SUFFICES ASSUME ListingInit PROVE ListingInv
  OBVIOUS
<1>1. rows = <<>> /\ Len(rows) = 0 /\ DOMAIN rows = {}
  BY DEF ListingInit
<1>2. rows \in Seq(ListRows)
  BY <1>1, EmptySeq
<1>3. ListingTypeOK
  <2>1. Len(rows) <= MaxPosts /\ reading.step = "none"
    BY <1>1 DEF ListingInit
  <2>2. /\ seen = {} /\ present = {} /\ repeated = {}
        /\ countFirst \in BOOLEAN /\ grown \in BOOLEAN
    BY DEF ListingInit
  <2> QED BY <1>2, <2>1, <2>2 DEF ListingTypeOK, ListRows
<1> QED BY <1>3 DEF ListingInit, ListingInv, NoPostIsMissed, NoPostTwice

LEMMA ReadingStarts ==
  ASSUME ListingInv, NEW f \in Filters, NEW sort \in {"newest", "oldest"}, StartReading(f, sort)
  PROVE  ListingInv'
<1> USE DEF StartReading
<1>1. reading' \in Requested /\ reading'.step = "list"
  BY DEF Requested
<1>2. present' \subseteq DOMAIN rows /\ seen' = {} /\ repeated' = {}
  BY DEF ListingInv, ListingTypeOK
<1>3. ListingTypeOK'
  BY <1>1, <1>2 DEF ListingInv, ListingTypeOK
<1>4. ASSUME NEW i \in present' PROVE StillToCome(i)'
  <2>1. rows \in Seq(ListRows)
    BY DEF ListingInv, ListingTypeOK, ListRows
  <2>2. i \in Selected(f)
    BY MatchingIsSelected
  <2>3. i \in Selected(reading.filters)'
    BY <2>2 DEF Selected, WhereClauses, ByAuthor, HasTag, NotDeleted
  <2>4. (Ahead(i) \subseteq DOMAIN rows)'
    BY DEF Ahead, Selected
  <2>5. IsFiniteSet(DOMAIN rows)
    BY <2>1, LenProperties, FS_Interval
  <2>6. Cardinality(Ahead(i)') \in Nat
    BY <2>4, <2>5, FS_Subset, FS_CardinalityType
  <2>7. PageSize * PagesRead' = 0
    BY DEF PagesRead
  <2> QED BY <2>3, <2>6, <2>7 DEF StillToCome
<1>5. NoPostIsMissed' /\ NoPostTwice'
  BY <1>1, <1>2 DEF NoPostIsMissed, NoPostTwice
<1> QED BY <1>1, <1>2, <1>3, <1>4, <1>5 DEF ListingInv

(***************************************************************************)
(* The rows of a page are selected ones.  Unless the page shows a post of  *)
(* its second, whoever is not before the page is behind it; and whoever is *)
(* alone in its second and shown is on the page.                           *)
(***************************************************************************)
LEMMA KeysOfRows ==
  ASSUME ListingTypeOK, NEW sort \in {"newest", "oldest"}, NEW i \in DOMAIN rows, NEW j \in DOMAIN rows
  PROVE  /\ SortKey(sort, i) \in Int
         /\ SortKey(sort, i) = SortKey(sort, j) <=> SameSecond(i, j)
<1>1. rows \in Seq(ListRows)
  BY DEF ListingTypeOK, ListRows
<1>2. rows[i].at \in Int /\ rows[j].at \in Int
  <2>1. rows[i] \in ListRows /\ rows[j] \in ListRows
    BY <1>1, LenProperties, ElementOfSeq
  <2>2. rows[i].at \in Moments /\ rows[j].at \in Moments
    BY <2>1 DEF ListRows
  <2> QED BY <2>2
<1> QED BY <1>2 DEF SortKey, SameSecond

LEMMA PageOfSelected ==
  ASSUME ListingTypeOK, reading \in Requested,
         NEW list \in OrderBy(reading.sort, Selected(reading.filters))
  PROVE  LET shown == Records(Page(list, reading.page))
         IN  /\ shown \subseteq Selected(reading.filters)
             /\ \A i \in Selected(reading.filters) :
                   Cardinality(Ahead(i)) >= PageSize * (reading.page - 1) =>
                       \/ \E j \in shown : SameSecond(i, j)
                       \/ Cardinality(Ahead(i)) >= PageSize * reading.page
             /\ \A i \in shown :
                   AloneInSecond(i) => /\ PageSize * (reading.page - 1) <= Cardinality(Ahead(i))
                                       /\ Cardinality(Ahead(i)) < PageSize * reading.page
<1> DEFINE S == Selected(reading.filters)
           key == [i \in S |-> SortKey(reading.sort, i)]
           n == Cardinality(S)
           shown == Records(Page(list, reading.page))
<1>1. /\ reading.filters \in Filters /\ reading.sort \in {"newest", "oldest"}
      /\ reading.page \in Nat \ {0}
  BY DEF Requested
<1>2. rows \in Seq(ListRows)
  BY DEF ListingTypeOK, ListRows
<1>3. S \subseteq DOMAIN rows /\ IsFiniteSet(S) /\ n \in Nat
  BY <1>1, <1>2, SelectedIsFinite
<1>4. \A i, j \in S : /\ key[i] = SortKey(reading.sort, i) /\ key[i] \in Int
                      /\ key[i] = key[j] <=> SameSecond(i, j)
  BY <1>1, <1>3, KeysOfRows
<1>5. \A i \in S : Ahead(i) = Smaller(S, key, i)
  BY <1>4 DEF Ahead, Smaller
<1>6. list \in Orders(S, key)
  BY DEF OrderBy
<1> HIDE DEF S, key
<1>7. Lists(list, S)
  BY <1>3, <1>6, OrdersList
<1>8. \A i \in S : \E p \in 1 .. n : key[list[p]] = key[i] /\ Cardinality(Smaller(S, key, i)) = p - 1
  BY <1>3, <1>4, <1>6, OrderPlaces
<1>9. list \in [1 .. n -> S] /\ \A p, q \in 1 .. n : list[p] = list[q] => p = q
  BY <1>7 DEF Lists
<1>10. shown = {list[p] : p \in {q \in 1 .. n : OnPage(q, reading.page)}}
  <2>1. n \in Nat /\ list \in [1 .. n -> S] /\ reading.page \in Nat \ {0}
    BY <1>1, <1>3, <1>9
  <2> HIDE DEF n
  <2>2. Records(Page(list, reading.page)) = ShownOf(list, n, reading.page)
    BY ONLY <2>1, ListingAssumption, RecordsOfPage
  <2> QED BY <2>2 DEF ShownOf
<1> HIDE DEF shown, n
<1>11. PageSize * (reading.page - 1) \in Int /\ PageSize * reading.page \in Int
  BY <1>1
<1>12. shown \subseteq S
  BY <1>9, <1>10
<1>13. ASSUME NEW i \in S, Cardinality(Ahead(i)) >= PageSize * (reading.page - 1),
              ~(Cardinality(Ahead(i)) >= PageSize * reading.page)
       PROVE  \E j \in shown : SameSecond(i, j)
  <2>1. PICK p \in 1 .. n : key[list[p]] = key[i] /\ Cardinality(Ahead(i)) = p - 1
    BY <1>5, <1>8
  <2>2. OnPage(p, reading.page)
    BY <1>3, <1>11, <1>13, <2>1 DEF OnPage
  <2>3. list[p] \in shown /\ list[p] \in S
    BY <1>9, <1>10, <2>1, <2>2
  <2> QED BY <1>4, <2>1, <2>3
<1>14. ASSUME NEW i \in shown, AloneInSecond(i)
       PROVE  /\ PageSize * (reading.page - 1) <= Cardinality(Ahead(i))
              /\ Cardinality(Ahead(i)) < PageSize * reading.page
  <2>1. i \in S
    BY <1>12
  <2>2. PICK p \in 1 .. n : key[list[p]] = key[i] /\ Cardinality(Ahead(i)) = p - 1
    BY <1>5, <1>8, <2>1
  <2>3. list[p] \in Counted(reading.filters) /\ SameSecond(i, list[p])
    BY <1>1, <1>4, <1>9, <2>1, <2>2, SelectedIsCounted DEF S
  <2>4. list[p] = i
    BY <1>14, <2>3 DEF AloneInSecond
  <2>5. PICK q \in 1 .. n : OnPage(q, reading.page) /\ list[q] = i
    BY <1>10
  <2>6. OnPage(p, reading.page)
    BY <1>9, <2>4, <2>5
  <2> QED BY <1>3, <1>11, <2>2, <2>6 DEF OnPage
<1> QED BY <1>12, <1>13, <1>14 DEF shown, S

LEMMA SelectedIsShown ==
  ASSUME ListingInv, SelectRecords
  PROVE  ListingInv'
<1>1. reading \in Requested /\ reading.step = "list" /\ ~reading.listed
  BY DEF SelectRecords, ListingInv
<1>2. PICK list \in OrderBy(reading.sort, Selected(reading.filters)) :
         /\ seen' = seen \union Records(Page(list, reading.page))
         /\ repeated' = repeated \union (seen \intersect Records(Page(list, reading.page)))
  BY DEF SelectRecords
<1> DEFINE shown == Records(Page(list, reading.page))
<1>3. ListingTypeOK
  BY DEF ListingInv
<1>4. /\ shown \subseteq Selected(reading.filters)
      /\ \A i \in Selected(reading.filters) :
            Cardinality(Ahead(i)) >= PageSize * (reading.page - 1) =>
                \/ \E j \in shown : SameSecond(i, j)
                \/ Cardinality(Ahead(i)) >= PageSize * reading.page
      /\ \A i \in shown :
            AloneInSecond(i) => /\ PageSize * (reading.page - 1) <= Cardinality(Ahead(i))
                                /\ Cardinality(Ahead(i)) < PageSize * reading.page
  BY <1>1, <1>3, PageOfSelected
<1>5. seen' = seen \union shown /\ repeated' = repeated \union (seen \intersect shown)
  BY <1>2
<1>6. /\ reading' = [reading EXCEPT !.listed = TRUE]
      /\ countFirst' = (countFirst \/ reading.total # -1)
      /\ rows' = rows /\ present' = present /\ grown' = grown
  BY DEF SelectRecords
<1> HIDE DEF shown
<1>7. reading' \in Requested /\ reading'.step = "list" /\ reading'.listed
      /\ reading'.page = reading.page /\ reading'.total = reading.total
      /\ reading'.filters = reading.filters /\ reading'.sort = reading.sort
  BY <1>1, <1>6 DEF Requested
<1>8. Selected(reading.filters) \subseteq DOMAIN rows
  BY DEF Selected
<1>9. ListingTypeOK'
  BY <1>3, <1>4, <1>5, <1>6, <1>7, <1>8 DEF ListingTypeOK
<1>10. /\ Selected(reading.filters)' = Selected(reading.filters)
       /\ Counted(reading.filters)' = Counted(reading.filters)
  BY <1>6, <1>7 DEF Selected, Counted, WhereClauses, ByAuthor, HasTag, NotDeleted
<1>11. \A i : Ahead(i)' = Ahead(i) /\ (AloneInSecond(i)' <=> AloneInSecond(i))
  BY <1>6, <1>7, <1>10 DEF Ahead, SortKey, AloneInSecond, SameSecond
<1>12. PagesRead' = reading.page /\ PagesRead = reading.page - 1
  BY <1>1, <1>7 DEF PagesRead
<1>13. reading.page \in Nat \ {0}
  BY <1>1 DEF Requested
<1>14. ASSUME NEW i \in present' PROVE SecondIsSeen(i)' \/ StillToCome(i)'
  <2>1. SecondIsSeen(i) \/ StillToCome(i)
    BY <1>1, <1>6 DEF ListingInv
  <2>2. CASE SecondIsSeen(i)
    BY <1>5, <1>6, <2>2 DEF SecondIsSeen, SameSecond
  <2>3. CASE StillToCome(i)
    <3>1. i \in Selected(reading.filters) /\ Cardinality(Ahead(i)) >= PageSize * (reading.page - 1)
      BY <1>12, <2>3 DEF StillToCome
    <3>2. CASE \E j \in shown : SameSecond(i, j)
      BY <1>5, <1>6, <3>2 DEF SecondIsSeen, SameSecond
    <3>3. CASE Cardinality(Ahead(i)) >= PageSize * reading.page
      <4>1. reading'.total # -1 => countFirst'
        BY <1>6, <1>7
      <4> QED BY <1>10, <1>11, <1>12, <3>1, <3>3, <4>1 DEF StillToCome
    <3> QED BY <1>4, <3>1, <3>2, <3>3
  <2> QED BY <2>1, <2>2, <2>3
<1>15. \A i \in Selected(reading.filters) \union seen : Cardinality(Ahead(i)) \in Nat
  <2>1. reading.filters \in Filters /\ rows \in Seq(ListRows)
    BY <1>1, <1>3 DEF Requested, ListingTypeOK, ListRows
  <2>2. IsFiniteSet(Selected(reading.filters))
    BY <2>1, SelectedIsFinite
  <2>3. \A i : Ahead(i) \subseteq Selected(reading.filters)
    BY DEF Ahead
  <2> QED BY <2>2, <2>3, FS_Subset, FS_CardinalityType
<1>16. ASSUME ~grown, NEW i \in seen, AloneInSecond(i)
       PROVE  /\ Cardinality(Ahead(i)) < PageSize * (reading.page - 1)
              /\ i \notin shown
  <2>1. Cardinality(Ahead(i)) < PageSize * (reading.page - 1)
    BY <1>1, <1>12, <1>16 DEF ListingInv, Passed
  <2>2. PageSize * (reading.page - 1) \in Int /\ Cardinality(Ahead(i)) \in Nat
    BY <1>13, <1>15
  <2> QED BY <1>4, <1>16, <2>1, <2>2
<1>17. ASSUME ~grown', NEW i \in seen' PROVE Passed(i)'
  <2> SUFFICES ASSUME AloneInSecond(i) PROVE Cardinality(Ahead(i)) < PageSize * reading.page
    BY <1>11, <1>12 DEF Passed
  <2>1. CASE i \in shown
    BY <1>4, <2>1
  <2>2. CASE i \in seen
    <3>1. Cardinality(Ahead(i)) < PageSize * (reading.page - 1) /\ Cardinality(Ahead(i)) \in Nat
      BY <1>6, <1>15, <1>16, <1>17, <2>2
    <3>2. PageSize * (reading.page - 1) <= PageSize * reading.page
          /\ PageSize * (reading.page - 1) \in Int /\ PageSize * reading.page \in Int
      BY <1>13
    <3> QED BY <3>1, <3>2
  <2> QED BY <1>5, <2>1, <2>2
<1>18. NoPostIsMissed'
  BY <1>7 DEF NoPostIsMissed
<1>19. NoPostTwice'
  <2> SUFFICES ASSUME ~grown, NEW i \in repeated'
               PROVE  \E j \in Counted(reading.filters) \ {i} : SameSecond(i, j)
    BY <1>6, <1>10 DEF NoPostTwice, SameSecond
  <2>1. CASE i \in repeated
    BY <2>1 DEF ListingInv, NoPostTwice
  <2>2. CASE i \in seen /\ i \in shown
    BY <1>16, <2>2 DEF AloneInSecond
  <2> QED BY <1>5, <2>1, <2>2
<1> QED BY <1>7, <1>9, <1>14, <1>17, <1>18, <1>19 DEF ListingInv

LEMMA CountIsTaken ==
  ASSUME ListingInv, CountRecords
  PROVE  ListingInv'
<1>1. /\ reading \in Requested /\ reading.step = "list" /\ rows' = rows /\ seen' = seen
      /\ repeated' = repeated /\ present' = present /\ countFirst' = countFirst /\ grown' = grown
  BY DEF CountRecords, ListingInv
<1>2. reading.filters \in Filters /\ rows \in Seq(ListRows)
  BY <1>1 DEF Requested, ListingInv, ListingTypeOK, ListRows
<1>3. reading' = [reading EXCEPT !.total = Total(reading.filters)]
  BY DEF CountRecords
<1>4. Total(reading.filters) \in Nat
      /\ Total(reading.filters) >= Cardinality(Selected(reading.filters))
  BY <1>2, TotalCountsSelected
<1>5. reading' \in Requested /\ reading'.step = "list" /\ reading'.listed = reading.listed
      /\ reading'.page = reading.page /\ reading'.total = Total(reading.filters)
      /\ reading'.filters = reading.filters /\ reading'.sort = reading.sort
  BY <1>1, <1>3, <1>4 DEF Requested
<1>6. /\ Selected(reading.filters)' = Selected(reading.filters)
      /\ Counted(reading.filters)' = Counted(reading.filters)
  BY <1>1, <1>5 DEF Selected, Counted, WhereClauses, ByAuthor, HasTag, NotDeleted
<1>7. \A i : Ahead(i)' = Ahead(i) /\ (AloneInSecond(i)' <=> AloneInSecond(i))
  BY <1>1, <1>5, <1>6 DEF Ahead, SortKey, AloneInSecond, SameSecond
<1>8. PagesRead' = PagesRead
  BY <1>5 DEF PagesRead
<1>9. ASSUME NEW i \in present' PROVE SecondIsSeen(i)' \/ StillToCome(i)'
  <2>1. CASE SecondIsSeen(i)
    BY <1>1, <2>1 DEF SecondIsSeen, SameSecond
  <2>2. CASE StillToCome(i)
    <3>1. ASSUME reading.listed PROVE Total(reading.filters) > PageSize * reading.page
      <4> DEFINE S == Selected(reading.filters)
      <4>1. Cardinality(Ahead(i)) >= PageSize * reading.page /\ i \in S
        BY <2>2, <3>1 DEF StillToCome, PagesRead
      <4>2. IsFiniteSet(S) /\ Cardinality(S) \in Nat /\ S \subseteq DOMAIN rows
        BY <1>2, SelectedIsFinite
      <4>3. Ahead(i) \subseteq S \ {i}
        <5>1. SortKey(reading.sort, i) \in Int
          BY <1>1, <4>1, <4>2, KeysOfRows DEF ListingInv, Requested
        <5> QED BY <5>1 DEF Ahead
      <4>4. IsFiniteSet(S \ {i}) /\ Cardinality(S \ {i}) = Cardinality(S) - 1
        BY <4>1, <4>2, FS_RemoveElement
      <4>5. Cardinality(Ahead(i)) <= Cardinality(S \ {i}) /\ Cardinality(Ahead(i)) \in Nat
        BY <4>3, <4>4, FS_Subset, FS_CardinalityType
      <4>6. PageSize * reading.page \in Int
        BY <1>1 DEF Requested
      <4> QED BY <1>4, <4>1, <4>2, <4>4, <4>5, <4>6
    <3> QED BY <1>5, <1>6, <1>7, <1>8, <2>2, <3>1 DEF StillToCome
  <2> QED BY <1>1, <2>1, <2>2 DEF ListingInv
<1>10. ASSUME ~grown', NEW i \in seen' PROVE Passed(i)'
  BY <1>1, <1>7, <1>8, <1>10 DEF ListingInv, Passed
<1>11. ListingTypeOK' /\ NoPostIsMissed' /\ NoPostTwice'
  BY <1>1, <1>5, <1>6 DEF ListingInv, ListingTypeOK, NoPostIsMissed, NoPostTwice, SameSecond
<1> QED BY <1>5, <1>9, <1>10, <1>11 DEF ListingInv

LEMMA PageIsTurned ==
  ASSUME ListingInv, TurnPage
  PROVE  ListingInv'
<1>1. /\ reading \in Requested /\ reading.step = "list" /\ rows' = rows /\ seen' = seen
      /\ repeated' = repeated /\ present' = present /\ countFirst' = countFirst /\ grown' = grown
  BY DEF TurnPage, ListingInv
<1>2. reading.listed /\ reading.total # -1 /\ reading.page \in Nat \ {0} /\ reading.total \in Int
  BY <1>1 DEF TurnPage, Requested
<1>3. \A i \in present : SecondIsSeen(i) \/ StillToCome(i)
  BY <1>1 DEF ListingInv
<1>4. CASE NextPage(reading.page, reading.total) > reading.page
  <2>1. NextPage(reading.page, reading.total) = reading.page + 1
    BY <1>2, <1>4 DEF NextPage, PagesCount
  <2>2. reading' = [reading EXCEPT !.page = reading.page + 1, !.listed = FALSE, !.total = -1]
    BY <1>4, <2>1 DEF TurnPage
  <2>3. reading' \in Requested /\ reading'.step = "list" /\ ~reading'.listed
        /\ reading'.page = reading.page + 1
        /\ reading'.filters = reading.filters /\ reading'.sort = reading.sort
    <3> DEFINE next == reading.page + 1
    <3>1. next \in Nat \ {0} /\ -1 \in Int
      BY <1>2
    <3>2. reading' = [reading EXCEPT !.page = next, !.listed = FALSE, !.total = -1]
      BY <2>2
    <3> HIDE DEF next
    <3>3. reading' \in Requested /\ reading'.step = "list" /\ ~reading'.listed
          /\ reading'.page = next
          /\ reading'.filters = reading.filters /\ reading'.sort = reading.sort
      BY <1>1, <3>1, <3>2 DEF Requested
    <3> QED BY <3>3 DEF next
  <2>4. /\ Selected(reading.filters)' = Selected(reading.filters)
        /\ Counted(reading.filters)' = Counted(reading.filters)
    BY <1>1, <2>3 DEF Selected, Counted, WhereClauses, ByAuthor, HasTag, NotDeleted
  <2>5. \A i : Ahead(i)' = Ahead(i) /\ (AloneInSecond(i)' <=> AloneInSecond(i))
    BY <1>1, <2>3, <2>4 DEF Ahead, SortKey, AloneInSecond, SameSecond
  <2>6. PagesRead' = PagesRead
    BY <1>2, <2>3 DEF PagesRead
  <2>7. ASSUME NEW i \in present' PROVE SecondIsSeen(i)' \/ StillToCome(i)'
    <3>1. CASE SecondIsSeen(i)
      BY <1>1, <3>1 DEF SecondIsSeen, SameSecond
    <3>2. CASE StillToCome(i)
      BY <2>3, <2>4, <2>5, <2>6, <3>2 DEF StillToCome
    <3> QED BY <1>1, <1>3, <3>1, <3>2
  <2>8. ASSUME ~grown', NEW i \in seen' PROVE Passed(i)'
    BY <1>1, <2>5, <2>6, <2>8 DEF ListingInv, Passed
  <2>9. ListingTypeOK' /\ NoPostIsMissed' /\ NoPostTwice'
    BY <1>1, <2>3, <2>4 DEF ListingInv, ListingTypeOK, NoPostIsMissed, NoPostTwice, SameSecond
  <2> QED BY <2>3, <2>7, <2>8, <2>9 DEF ListingInv
<1>5. CASE ~(NextPage(reading.page, reading.total) > reading.page)
  <2>1. reading.page >= PagesCount(reading.total)
    BY <1>2, <1>5 DEF NextPage
  <2>2. reading' = [reading EXCEPT !.step = "done"]
    BY <1>5 DEF TurnPage
  <2>3. reading' \in Requested /\ reading'.step = "done" /\ reading'.filters = reading.filters
    BY <1>1, <2>2 DEF Requested
  <2>4. ASSUME ~countFirst, NEW i \in present, StillToCome(i) PROVE FALSE
    <3>1. reading.total > PageSize * reading.page
      BY <1>2, <2>4 DEF StillToCome
    <3>2. PageSize * reading.page \in Nat
      BY <1>2
    <3>3. reading.total \in Nat
      BY <1>2, <3>1, <3>2
    <3>4. reading.total <= PageSize * reading.page
      BY <1>2, <2>1, <3>3, PagesHoldTotal
    <3> QED BY <3>1, <3>2, <3>3, <3>4
  <2>5. NoPostIsMissed'
    BY <1>1, <1>3, <2>4 DEF NoPostIsMissed, SecondIsSeen, SameSecond
  <2>6. Counted(reading.filters)' = Counted(reading.filters)
    BY <1>1, <2>3 DEF Counted, WhereClauses, ByAuthor, HasTag
  <2>7. ListingTypeOK' /\ NoPostTwice'
    BY <1>1, <2>3, <2>6 DEF ListingInv, ListingTypeOK, NoPostTwice, SameSecond
  <2> QED BY <2>3, <2>5, <2>7 DEF ListingInv
<1> QED BY <1>4, <1>5

(***************************************************************************)
(* A new post takes no older one a place forward, wherever its second puts *)
(* it: nothing comes sooner by it.                                         *)
(***************************************************************************)
LEMMA PublishingPushesBack ==
  ASSUME ListingInv, NEW k \in PostKinds, NEW at \in Moments, PublishPost(k, at)
  PROVE  ListingInv'
<1> DEFINE row == [at |-> at, tags |-> k.tags, author |-> k.author, deleted |-> FALSE]
<1>1. rows' = Append(rows, row) /\ Len(rows) < MaxPosts /\ reading' = reading /\ seen' = seen
      /\ repeated' = repeated /\ present' = present /\ countFirst' = countFirst
      /\ grown' = (grown \/ reading.step = "list")
  BY DEF PublishPost
<1>2. rows \in Seq(ListRows) /\ Len(rows) \in Nat /\ DOMAIN rows = 1 .. Len(rows)
  BY LenProperties DEF ListingInv, ListingTypeOK, ListRows
<1>3. row \in ListRows
  BY DEF ListRows
<1> HIDE DEF row
<1>4. /\ rows' \in Seq(ListRows) /\ Len(rows') = Len(rows) + 1
      /\ \A i \in 1 .. Len(rows) : rows'[i] = rows[i]
  BY <1>1, <1>2, <1>3, AppendProperties
<1>5. DOMAIN rows' = 1 .. Len(rows) + 1
  BY <1>4, LenProperties
<1>6. Len(rows') <= MaxPosts
  BY <1>1, <1>2, <1>4
<1>7. ListingTypeOK'
  BY <1>1, <1>2, <1>4, <1>5, <1>6 DEF ListingInv, ListingTypeOK, ListRows
<1>8. DOMAIN rows \subseteq DOMAIN rows' /\ \A i \in DOMAIN rows : rows'[i] = rows[i]
  BY <1>2, <1>4, <1>5
<1>9. seen \subseteq DOMAIN rows /\ repeated \subseteq DOMAIN rows /\ present \subseteq DOMAIN rows
  BY DEF ListingInv, ListingTypeOK
<1>10. \A i, j \in DOMAIN rows : SameSecond(i, j)' <=> SameSecond(i, j)
  BY <1>8 DEF SameSecond
<1>11. Counted(reading.filters) \subseteq Counted(reading.filters)'
  BY <1>1, <1>8 DEF Counted, WhereClauses, ByAuthor, HasTag
<1>12. ASSUME reading.step = "list", NEW i \in present' PROVE SecondIsSeen(i)' \/ StillToCome(i)'
  <2>1. CASE SecondIsSeen(i)
    BY <1>1, <1>9, <1>10, <2>1 DEF SecondIsSeen
  <2>2. CASE StillToCome(i)
    <3>1. Selected(reading.filters) \subseteq Selected(reading.filters)'
      BY <1>1, <1>8 DEF Selected, WhereClauses, ByAuthor, HasTag, NotDeleted
    <3>2. i \in DOMAIN rows /\ \A j \in Selected(reading.filters) : j \in DOMAIN rows
      BY <1>1, <1>9 DEF Selected
    <3>3. Ahead(i) \subseteq Ahead(i)'
      BY <1>1, <1>8, <3>1, <3>2 DEF Ahead, SortKey
    <3>4. Ahead(i)' \subseteq 1 .. Len(rows) + 1
      BY <1>5 DEF Ahead, Selected
    <3> DEFINE later == Ahead(i)'
               earlier == Ahead(i)
    <3>5. IsFiniteSet(1 .. Len(rows) + 1)
      <4>1. 1 \in Int /\ Len(rows) + 1 \in Int
        BY <1>2
      <4> QED BY <4>1, FS_Interval
    <3>6. Cardinality(earlier) <= Cardinality(later) /\ Cardinality(earlier) \in Nat
          /\ Cardinality(later) \in Nat
      <4>1. earlier \subseteq later /\ later \subseteq 1 .. Len(rows) + 1
        BY <3>3, <3>4
      <4> HIDE DEF earlier, later
      <4>2. IsFiniteSet(later)
        BY <3>5, <4>1, FS_Subset
      <4> QED BY <4>1, <4>2, FS_Subset, FS_CardinalityType
    <3>7. PagesRead' = PagesRead /\ PageSize * PagesRead \in Int
      <4>1. reading.page \in Nat \ {0}
        BY <1>12 DEF ListingInv, Requested
      <4>2. PagesRead' = PagesRead /\ PagesRead \in Int
        BY <1>1, <4>1 DEF PagesRead
      <4> QED BY <4>2
    <3>8. i \in Selected(reading.filters)'
      BY <2>2, <3>1 DEF StillToCome
    <3>9. Cardinality(later) >= PageSize * PagesRead'
      <4>1. Cardinality(earlier) >= PageSize * PagesRead
        BY <2>2 DEF StillToCome
      <4> HIDE DEF earlier, later
      <4> QED BY <3>6, <3>7, <4>1
    <3>10. reading'.listed /\ reading'.total # -1 /\ ~countFirst'
           => reading'.total > PageSize * reading'.page
      BY <1>1, <2>2 DEF StillToCome
    <3>11. i \in Selected(reading.filters)' /\ reading' = reading
      BY <1>1, <3>8
    <3> QED BY <3>9, <3>10, <3>11 DEF StillToCome
  <2> QED BY <1>1, <1>12, <2>1, <2>2 DEF ListingInv
<1>13. NoPostIsMissed'
  BY <1>1, <1>9, <1>10 DEF NoPostIsMissed, ListingInv
<1>14. NoPostTwice'
  <2> SUFFICES ASSUME ~grown, NEW i \in repeated
               PROVE  \E j \in Counted(reading.filters)' \ {i} : SameSecond(i, j)'
    BY <1>1 DEF NoPostTwice
  <2>1. PICK j \in Counted(reading.filters) \ {i} : SameSecond(i, j)
    BY DEF ListingInv, NoPostTwice
  <2>2. i \in DOMAIN rows /\ j \in DOMAIN rows
    BY <1>9 DEF Counted
  <2> QED BY <1>10, <1>11, <2>1, <2>2
<1> QED BY <1>1, <1>7, <1>12, <1>13, <1>14 DEF ListingInv

(***************************************************************************)
(* A deletion takes nobody a place back.                                   *)
(***************************************************************************)
LEMMA DeletingDrawsNearer ==
  ASSUME ListingInv, NEW i \in DOMAIN rows, DeleteListed(i)
  PROVE  ListingInv'
<1>1. rows' = [rows EXCEPT ![i].deleted = TRUE]
      /\ reading' = reading /\ seen' = seen /\ repeated' = repeated /\ countFirst' = countFirst
      /\ grown' = grown /\ present' = IF reading.step = "list" THEN {} ELSE present
  BY DEF DeleteListed
<1>2. rows \in Seq(ListRows) /\ Len(rows) \in Nat /\ DOMAIN rows = 1 .. Len(rows)
  BY LenProperties DEF ListingInv, ListingTypeOK, ListRows
<1>3. rows[i] \in ListRows /\ [rows[i] EXCEPT !.deleted = TRUE] \in ListRows
  <2>1. rows[i] \in ListRows
    BY <1>2, ElementOfSeq
  <2> QED BY <2>1 DEF ListRows
<1>4. rows' = [rows EXCEPT ![i] = [rows[i] EXCEPT !.deleted = TRUE]]
  BY <1>1
<1>5. rows' \in Seq(ListRows) /\ Len(rows') = Len(rows) /\ DOMAIN rows' = DOMAIN rows
  BY <1>2, <1>3, <1>4, ExceptSeq, LenProperties
<1>6. ListingTypeOK'
  BY <1>1, <1>5 DEF ListingInv, ListingTypeOK, ListRows
<1>7. \A j \in DOMAIN rows : /\ rows'[j].at = rows[j].at /\ rows'[j].tags = rows[j].tags
                             /\ rows'[j].author = rows[j].author
                             /\ rows[j].deleted => rows'[j].deleted
  <2> SUFFICES ASSUME NEW j \in DOMAIN rows
               PROVE  /\ rows'[j].at = rows[j].at /\ rows'[j].tags = rows[j].tags
                      /\ rows'[j].author = rows[j].author /\ (rows[j].deleted => rows'[j].deleted)
    OBVIOUS
  <2>1. CASE j = i
    <3>1. rows'[j] = [rows[i] EXCEPT !.deleted = TRUE]
      BY <1>4, <2>1
    <3> QED BY <1>3, <2>1, <3>1 DEF ListRows
  <2>2. CASE j # i
    BY <1>4, <2>2
  <2> QED BY <2>1, <2>2
<1>8. Counted(reading.filters)' = Counted(reading.filters)
  BY <1>1, <1>5, <1>7 DEF Counted, WhereClauses, ByAuthor, HasTag
<1>9. Selected(reading.filters)' \subseteq Selected(reading.filters)
  BY <1>1, <1>5, <1>7 DEF Selected, WhereClauses, ByAuthor, HasTag, NotDeleted
<1>10. \A j, k \in DOMAIN rows : SameSecond(j, k)' <=> SameSecond(j, k)
  BY <1>7 DEF SameSecond
<1>11. seen \subseteq DOMAIN rows /\ repeated \subseteq DOMAIN rows /\ present \subseteq DOMAIN rows
       /\ Counted(reading.filters) \subseteq DOMAIN rows
  BY DEF ListingInv, ListingTypeOK, Counted
<1>12. ASSUME reading.step = "list", ~grown, NEW j \in seen PROVE Passed(j)'
  <2>1. AloneInSecond(j)' => AloneInSecond(j)
    BY <1>8, <1>10, <1>11 DEF AloneInSecond
  <2>2. Ahead(j)' \subseteq Ahead(j)
    BY <1>1, <1>7, <1>9, <1>11 DEF Ahead, SortKey, Selected
  <2> DEFINE later == Ahead(j)'
             earlier == Ahead(j)
  <2>3. IsFiniteSet(earlier)
    <3>1. reading.filters \in Filters
      BY <1>12 DEF ListingInv, Requested
    <3>2. IsFiniteSet(Selected(reading.filters)) /\ earlier \subseteq Selected(reading.filters)
      BY <1>2, <3>1, SelectedIsFinite DEF Ahead
    <3> HIDE DEF earlier
    <3> QED BY <3>2, FS_Subset
  <2>4. Cardinality(later) <= Cardinality(earlier) /\ Cardinality(later) \in Nat
        /\ Cardinality(earlier) \in Nat
    <3>1. later \subseteq earlier
      BY <2>2
    <3> HIDE DEF earlier, later
    <3> QED BY <2>3, <3>1, FS_Subset, FS_CardinalityType
  <2>5. PagesRead' = PagesRead /\ PageSize * PagesRead \in Int
    <3>1. reading.page \in Nat \ {0}
      BY <1>12 DEF ListingInv, Requested
    <3>2. PagesRead' = PagesRead /\ PagesRead \in Int
      BY <1>1, <3>1 DEF PagesRead
    <3> QED BY <3>2
  <2>6. AloneInSecond(j) => Cardinality(earlier) < PageSize * PagesRead
    BY <1>12 DEF ListingInv, Passed
  <2>7. AloneInSecond(j)' => Cardinality(later) < PageSize * PagesRead'
    <3> HIDE DEF earlier, later
    <3> QED BY <2>1, <2>4, <2>5, <2>6
  <2> QED BY <2>7 DEF Passed
<1>13. NoPostIsMissed'
  BY <1>1, <1>10, <1>11 DEF ListingInv, NoPostIsMissed
<1>14. NoPostTwice'
  <2> SUFFICES ASSUME ~grown, NEW j \in repeated
               PROVE  \E k \in Counted(reading.filters) \ {j} : SameSecond(j, k)'
    BY <1>1, <1>8 DEF NoPostTwice
  <2>1. PICK k \in Counted(reading.filters) \ {j} : SameSecond(j, k)
    BY DEF ListingInv, NoPostTwice
  <2> QED BY <1>10, <1>11, <2>1
<1> QED BY <1>1, <1>6, <1>12, <1>13, <1>14 DEF ListingInv

(***************************************************************************)
(* Whatever is published or deleted while the pages are turned, and        *)
(* wherever the pages break, a reader of any list misses only posts that   *)
(* tie with one it was shown, unless a total was counted before the rows   *)
(* it came with, and meets twice only posts that tie.                      *)
(***************************************************************************)
THEOREM ListingIsComplete == ListingSpec => []ListingInv
<1>1. ListingInit => ListingInv
  BY ListingInitInv
<1>2. ListingInv /\ [ListingNext]_listingVars => ListingInv'
  <2> SUFFICES ASSUME ListingInv, [ListingNext]_listingVars PROVE ListingInv'
    OBVIOUS
  <2>1. CASE \E f \in Filters, sort \in {"newest", "oldest"} : StartReading(f, sort)
    BY <2>1, ReadingStarts
  <2>2. CASE SelectRecords
    BY <2>2, SelectedIsShown
  <2>3. CASE CountRecords
    BY <2>3, CountIsTaken
  <2>4. CASE TurnPage
    BY <2>4, PageIsTurned
  <2>5. CASE \E k \in PostKinds, at \in Moments : PublishPost(k, at)
    BY <2>5, PublishingPushesBack
  <2>6. CASE \E i \in DOMAIN rows : DeleteListed(i)
    BY <2>6, DeletingDrawsNearer
  <2>7. CASE UNCHANGED listingVars
    <3>1. /\ rows' = rows /\ reading' = reading /\ seen' = seen /\ repeated' = repeated
          /\ present' = present /\ countFirst' = countFirst /\ grown' = grown
      BY <2>7 DEF listingVars
    <3>2. /\ Selected(reading.filters)' = Selected(reading.filters)
          /\ Counted(reading.filters)' = Counted(reading.filters)
      BY <3>1 DEF Selected, Counted, WhereClauses, ByAuthor, HasTag, NotDeleted
    <3>3. \A i : Ahead(i)' = Ahead(i) /\ (AloneInSecond(i)' <=> AloneInSecond(i))
      BY <3>1, <3>2 DEF Ahead, SortKey, AloneInSecond, SameSecond
    <3>4. PagesRead' = PagesRead
      BY <3>1 DEF PagesRead
    <3>5. \A i : /\ SecondIsSeen(i) => SecondIsSeen(i)'
                 /\ StillToCome(i) => StillToCome(i)'
                 /\ Passed(i) => Passed(i)'
      BY <3>1, <3>2, <3>3, <3>4 DEF SecondIsSeen, SameSecond, StillToCome, Passed
    <3>6. ListingTypeOK' /\ NoPostIsMissed' /\ NoPostTwice'
      BY <3>1, <3>2 DEF ListingInv, ListingTypeOK, NoPostIsMissed, NoPostTwice, SameSecond
    <3> QED BY <3>1, <3>5, <3>6 DEF ListingInv
  <2> QED BY <2>1, <2>2, <2>3, <2>4, <2>5, <2>6, <2>7 DEF ListingNext
<1> QED BY <1>1, <1>2, PTL DEF ListingSpec

(***************************************************************************)
(* Rows, the reader and what it has seen have their types.                 *)
(***************************************************************************)
THEOREM ListingTypes == ListingSpec => []ListingTypeOK
BY ListingIsComplete, PTL DEF ListingInv

(***************************************************************************)
(* Who has turned all the pages has seen every post that was there from    *)
(* the beginning, or one of its second, unless a total was counted before  *)
(* its rows.                                                               *)
(***************************************************************************)
THEOREM NoPostIsMissedHolds == ListingSpec => []NoPostIsMissed
BY ListingIsComplete, PTL DEF ListingInv

(***************************************************************************)
(* While nothing is published, only posts that share their second with     *)
(* another of the query come twice.                                        *)
(***************************************************************************)
THEOREM NoPostTwiceHolds == ListingSpec => []NoPostTwice
BY ListingIsComplete, PTL DEF ListingInv

HIDE ListingAssumption

-----------------------------------------------------------------------------
ViewRuns == [step : {"none", "allowed", "refused", "counted", "done", "lost"}, at : Int, met : BOOLEAN]

(***************************************************************************)
(* The inductive invariant.  A run that met no other is alone while it is  *)
(* under way; it counted last of all that have counted until it registers; *)
(* and once it has, the key protects it: who is allowed afterwards is      *)
(* allowed a cooldown later.                                               *)
(***************************************************************************)
ViewsTypes ==
    /\ tick \in Nat /\ views \in Nat
    /\ handler \in [Handlers -> ViewRuns]
    /\ action \in [at : Int, until : Int]

KeyLasts == action = NoAction \/ action.until >= action.at + Cooldown

CountedEarlier(h) ==
    handler[h].step \in {"counted", "done"} => 0 <= handler[h].at /\ handler[h].at <= tick

Alone(h) ==
    Underway(h) /\ ~handler[h].met => \A g \in Handlers : Underway(g) => g = h

CountedLast(h) ==
    handler[h].step = "counted" /\ ~handler[h].met =>
        \A g \in Handlers :
            handler[g].step \in {"counted", "done"} => handler[g].at <= handler[h].at

Protected(h) ==
    handler[h].step = "done" /\ ~handler[h].met =>
        /\ action.at >= handler[h].at
        /\ \A g \in Handlers :
              /\ handler[g].step = "allowed" => tick >= handler[h].at + Cooldown
              /\ handler[g].step = "counted" => handler[g].at >= handler[h].at + Cooldown
              /\ handler[g].step = "done" => \/ handler[g].at <= handler[h].at
                                             \/ handler[g].at >= handler[h].at + Cooldown

ViewsInv ==
    /\ ViewsTypes
    /\ KeyLasts
    /\ \A h \in Handlers : CountedEarlier(h) /\ Alone(h) /\ CountedLast(h) /\ Protected(h)

(***************************************************************************)
(* Rounding up to whole seconds never shortens the cooldown.               *)
(***************************************************************************)
LEMMA SecondsCover == Seconds(Cooldown) \in Int /\ Seconds(Cooldown) * TicksPerSecond >= Cooldown
<1> DEFINE x == Cooldown + TicksPerSecond - 1
           q == x \div TicksPerSecond
           r == x % TicksPerSecond
<1>1. x \in Nat /\ TicksPerSecond \in Nat /\ TicksPerSecond > 0
  BY CooldownAssumption
<1> HIDE DEF x
<1>2. q \in Int /\ r \in 0 .. (TicksPerSecond - 1) /\ x = TicksPerSecond * q + r
  BY <1>1, SMT
<1> HIDE DEF q, r
<1>3. q * TicksPerSecond = x - r
  BY <1>1, <1>2, SMT
<1>4. q * TicksPerSecond >= Cooldown
  BY <1>1, <1>2, <1>3, CooldownAssumption, SMT DEF x
<1> QED BY <1>2, <1>4 DEF Seconds, q, x

LEMMA ViewsInitInv == ViewsInit => ViewsInv
BY CooldownAssumption DEF ViewsInit, ViewsInv, ViewsTypes, ViewRuns, KeyLasts, NoAction,
   CountedEarlier, Alone, CountedLast, Protected, Underway

LEMMA NewRun ==
    ASSUME NEW met \in BOOLEAN, NEW run, run = [step |-> "allowed", at |-> -1, met |-> met]
    PROVE  run.step = "allowed" /\ run.met = met
OBVIOUS

LEMMA StepAllow ==
    ASSUME ViewsInv, NEW h \in Handlers, AllowView(h) PROVE ViewsInv'
<1> DEFINE met == \E k \in Handlers : Underway(k)
<1>0. met \in BOOLEAN
  OBVIOUS
<1> HIDE DEF met
<1>1. /\ handler[h].step = "none" /\ ~IsRateLimited
      /\ tick' = tick /\ action' = action /\ views' = views
      /\ \A g \in Handlers : handler'[g] =
            IF g = h THEN [step |-> "allowed", at |-> -1, met |-> met]
            ELSE IF Underway(g) THEN [handler[g] EXCEPT !.met = TRUE] ELSE handler[g]
  BY DEF AllowView, Meet, met
<1>1a. handler'[h] = [step |-> "allowed", at |-> -1, met |-> met]
  BY <1>1, Zenon
<1>1b. handler'[h].step = "allowed" /\ handler'[h].met = met
  BY <1>0, <1>1a, NewRun
<1>1c. handler'[h] \in ViewRuns
  BY <1>0, <1>1a DEF ViewRuns
<1>2. handler' \in [Handlers -> ViewRuns]
  <2>1. handler' = [g \in Handlers |-> handler'[g]]
    BY DEF AllowView, Meet
  <2>2. ASSUME NEW g \in Handlers PROVE handler'[g] \in ViewRuns
    <3>1. handler[g] \in ViewRuns
      BY DEF ViewsInv, ViewsTypes
    <3>2. CASE g = h
      BY <1>1c, <3>2
    <3>3. CASE g # h /\ Underway(g)
      BY <1>1, <3>1, <3>3 DEF ViewRuns
    <3>4. CASE g # h /\ ~Underway(g)
      BY <1>1, <3>1, <3>4
    <3> QED BY <3>2, <3>3, <3>4
  <2> QED BY <2>1, <2>2
<1>3. ASSUME NEW g \in Handlers, g # h
      PROVE  /\ handler'[g].step = handler[g].step /\ handler'[g].at = handler[g].at
             /\ handler'[g].met = (handler[g].met \/ Underway(g))
  BY <1>1, <1>3, ZenonT(60) DEF ViewsInv, ViewsTypes, ViewRuns
<1>4. /\ handler'[h].step = "allowed"
      /\ handler'[h].met = met
  BY <1>1b
<1>5. \A g \in Handlers : handler[g].met \in BOOLEAN
  BY DEF ViewsInv, ViewsTypes, ViewRuns
<1>6. ASSUME NEW g \in Handlers PROVE CountedEarlier(g)' /\ Alone(g)' /\ CountedLast(g)'
  <2>1. CountedEarlier(g)'
    BY <1>1, <1>3, <1>4 DEF ViewsInv, CountedEarlier
  <2>2. Alone(g)'
    BY <1>3, <1>4, <1>5 DEF Alone, Underway, met
  <2>3. CountedLast(g)'
    BY <1>3, <1>4, <1>5 DEF CountedLast, Underway
  <2> QED BY <2>1, <2>2, <2>3
<1>7. ASSUME NEW g \in Handlers, handler[g].step = "done", ~handler[g].met
      PROVE  tick >= handler[g].at + Cooldown
  <2>1. action.at >= handler[g].at /\ 0 <= handler[g].at /\ handler[g].at \in Int
    BY <1>7 DEF ViewsInv, Protected, CountedEarlier, ViewsTypes, ViewRuns
  <2>2. action # NoAction /\ action.at \in Int /\ action.until \in Int
    BY <2>1 DEF NoAction, ViewsInv, ViewsTypes
  <2> QED BY <1>1, <2>1, <2>2, CooldownAssumption, SMTT(60) DEF ViewsInv, KeyLasts, IsRateLimited, ViewsTypes
<1>8. ASSUME NEW g \in Handlers PROVE Protected(g)'
  <2>1. CASE g = h
    BY <1>4, <2>1 DEF Protected
  <2>2. CASE g # h
    BY <1>1, <1>3, <1>4, <1>5, <1>7, <2>2 DEF ViewsInv, Protected, Underway
  <2> QED BY <2>1, <2>2
<1> QED BY <1>1, <1>2, <1>6, <1>8 DEF ViewsInv, ViewsTypes, KeyLasts

(***************************************************************************)
(* ViewRuns other than h stay, and h keeps having met others or not.           *)
(***************************************************************************)
Becomes(h, step, at) ==
    /\ handler' \in [Handlers -> ViewRuns]
    /\ handler'[h].step = step /\ handler'[h].at = at /\ handler'[h].met = handler[h].met
    /\ \A g \in Handlers \ {h} : handler'[g] = handler[g]

LEMMA Changed ==
    ASSUME ViewsTypes, NEW h \in Handlers,
           NEW step \in {"none", "allowed", "refused", "counted", "done", "lost"},
           handler' = [handler EXCEPT ![h].step = step]
    PROVE  Becomes(h, step, handler[h].at)
BY DEF Becomes, ViewsTypes, ViewRuns

LEMMA StepIncrement ==
    ASSUME ViewsInv, NEW h \in Handlers, IncrementViews(h) PROVE ViewsInv'
<1>1. /\ handler[h].step = "allowed" /\ views' = views + 1 /\ tick' = tick /\ action' = action
      /\ handler' = [handler EXCEPT ![h].step = "counted", ![h].at = tick]
  BY DEF IncrementViews
<1>2. Becomes(h, "counted", tick)
  <2>1. handler'[h] = [step |-> "counted", at |-> tick, met |-> handler[h].met]
        /\ \A g \in Handlers \ {h} : handler'[g] = handler[g]
    BY <1>1 DEF ViewsInv, ViewsTypes, ViewRuns
  <2>2. handler' = [handler EXCEPT ![h] = handler'[h]]
    BY <1>1 DEF ViewsInv, ViewsTypes
  <2> QED BY <2>1, <2>2 DEF Becomes, ViewsInv, ViewsTypes, ViewRuns
<1>3. \A g \in Handlers : Underway(g)' <=> Underway(g)
  BY <1>1, <1>2 DEF Becomes, Underway
<1>4. ASSUME NEW g \in Handlers PROVE CountedEarlier(g)' /\ Alone(g)' /\ CountedLast(g)'
  <2>1. CountedEarlier(g)'
    BY <1>1, <1>2 DEF ViewsInv, ViewsTypes, CountedEarlier, Becomes
  <2>2. Alone(g)'
    BY <1>2, <1>3 DEF ViewsInv, Alone, Becomes
  <2>3. CountedLast(g)'
    <3>1. CASE g = h
      BY <1>1, <1>2, <3>1 DEF ViewsInv, ViewsTypes, CountedLast, CountedEarlier, Becomes
    <3>2. CASE g # h
      BY <1>1, <1>2, <3>2 DEF ViewsInv, Alone, CountedLast, Becomes, Underway
    <3> QED BY <3>1, <3>2
  <2> QED BY <2>1, <2>2, <2>3
<1>5. ASSUME NEW g \in Handlers PROVE Protected(g)'
  <2>1. CASE g = h
    BY <1>2, <2>1 DEF Protected, Becomes
  <2>2. CASE g # h
    BY <1>1, <1>2, <2>2 DEF ViewsInv, Protected, Becomes
  <2> QED BY <2>1, <2>2
<1> QED BY <1>1, <1>2, <1>4, <1>5 DEF ViewsInv, ViewsTypes, KeyLasts, Becomes

LEMMA StepRegister ==
    ASSUME ViewsInv, NEW h \in Handlers, RegisterAction(h) PROVE ViewsInv'
<1> DEFINE until == tick + Seconds(Cooldown) * TicksPerSecond
<1>1. /\ handler[h].step = "counted" /\ views' = views /\ tick' = tick
      /\ action' = [at |-> tick, until |-> until]
      /\ handler' = [handler EXCEPT ![h].step = "done"]
  BY DEF RegisterAction
<1>2. until \in Int /\ until >= tick + Cooldown
  BY SecondsCover, CooldownAssumption DEF ViewsInv, ViewsTypes
<1> HIDE DEF until
<1>3. Becomes(h, "done", handler[h].at)
  BY <1>1, Changed DEF ViewsInv
<1>4. \A g \in Handlers : handler[g] \in ViewRuns /\ CountedEarlier(g)
  BY DEF ViewsInv, ViewsTypes
<1>5. ASSUME NEW g \in Handlers PROVE CountedEarlier(g)' /\ Alone(g)' /\ CountedLast(g)'
  <2>1. CountedEarlier(g)'
    BY <1>1, <1>3, <1>4 DEF CountedEarlier, Becomes
  <2>2. Alone(g)'
    BY <1>1, <1>3 DEF ViewsInv, Alone, Becomes, Underway
  <2>3. CountedLast(g)'
    BY <1>1, <1>3 DEF ViewsInv, CountedLast, Becomes
  <2> QED BY <2>1, <2>2, <2>3
<1>6. ASSUME NEW g \in Handlers PROVE Protected(g)'
  <2>1. CASE g = h
    <3>1. handler[h].met \/ \A k \in Handlers \ {h} :
              /\ handler[k].step \notin {"allowed", "counted"}
              /\ handler[k].step = "done" => handler[k].at <= handler[h].at
      BY <1>1 DEF ViewsInv, Alone, CountedLast, Underway
    <3>2. handler[h].at <= tick
      BY <1>1, <1>4 DEF CountedEarlier
    <3> QED BY <1>1, <1>3, <1>4, <2>1, <3>1, <3>2 DEF Protected, Becomes, ViewRuns
  <2>2. CASE g # h
    BY <1>1, <1>3, <1>4, <2>2 DEF ViewsInv, Protected, CountedEarlier, Becomes
  <2> QED BY <2>1, <2>2
<1>7. KeyLasts'
  BY <1>1, <1>2 DEF KeyLasts
<1> QED BY <1>1, <1>2, <1>3, <1>5, <1>6, <1>7 DEF ViewsInv, ViewsTypes, Becomes

LEMMA StepRefuseOrLose ==
    ASSUME ViewsInv, NEW h \in Handlers, RefuseView(h) \/ LoseView(h) PROVE ViewsInv'
<1>1. PICK step \in {"refused", "lost"} : handler' = [handler EXCEPT ![h].step = step]
  BY DEF RefuseView, LoseView
<1>2. tick' = tick /\ action' = action /\ views' = views
  BY DEF RefuseView, LoseView
<1>3. Becomes(h, step, handler[h].at)
  BY <1>1, Changed DEF ViewsInv
<1> QED BY <1>2, <1>3, ZenonT(60) DEF ViewsInv, ViewsTypes, KeyLasts, CountedEarlier, Alone, CountedLast,
           Protected, Becomes, Underway

LEMMA StepTick ==
    ASSUME ViewsInv, ViewsTick PROVE ViewsInv'
<1>1. tick' = tick + 1 /\ action' = action /\ views' = views /\ handler' = handler
  BY DEF ViewsTick
<1>2. ViewsTypes' /\ KeyLasts'
  BY <1>1 DEF ViewsInv, ViewsTypes, KeyLasts
<1>3. ASSUME NEW h \in Handlers
      PROVE  CountedEarlier(h)' /\ Alone(h)' /\ CountedLast(h)' /\ Protected(h)'
  <2>1. handler[h].at \in Int
    BY DEF ViewsInv, ViewsTypes, ViewRuns
  <2> QED BY <1>1, <2>1, CooldownAssumption DEF ViewsInv, ViewsTypes, CountedEarlier, Alone,
             CountedLast, Protected, Underway
<1> QED BY <1>2, <1>3 DEF ViewsInv

(***************************************************************************)
(* The inductive invariant holds in every reachable state.                 *)
(***************************************************************************)
THEOREM ViewsInductive == ViewsSpec => []ViewsInv
<1>1. ASSUME ViewsInv, [ViewsNext]_viewVars PROVE ViewsInv'
  <2>1. CASE UNCHANGED viewVars
    BY <1>1, <2>1 DEF viewVars, ViewsInv, ViewsTypes, KeyLasts, CountedEarlier, Alone, CountedLast,
       Protected, Underway
  <2>2. CASE ViewsNext
    BY <1>1, <2>2, StepAllow, StepIncrement, StepRegister, StepRefuseOrLose, StepTick DEF ViewsNext
  <2> QED BY <1>1, <2>1, <2>2
<1> QED BY <1>1, ViewsInitInv, PTL DEF ViewsSpec

(***************************************************************************)
(* However the handlers of one viewer interleave, and whatever the ticks   *)
(* of a second are, a view that met no other is followed by none within    *)
(* the cooldown.                                                           *)
(***************************************************************************)
THEOREM ViewsAreApart == ViewsSpec => []CooldownHolds
<1>1. ViewsInv => CooldownHolds
  <2> SUFFICES ASSUME ViewsInv, NEW h \in Handlers, NEW g \in Handlers,
                      handler[h].step = "done", ~handler[h].met,
                      handler[g].step \in {"counted", "done"}, handler[h].at < handler[g].at
               PROVE  handler[g].at - handler[h].at >= Cooldown
    BY DEF CooldownHolds
  <2>1. handler[g].at \in Int /\ handler[h].at \in Int
    BY DEF ViewsInv, ViewsTypes, ViewRuns
  <2>2. handler[g].at >= handler[h].at + Cooldown
    BY <2>1 DEF ViewsInv, Protected
  <2> QED BY <2>1, <2>2, CooldownAssumption
<1> QED BY <1>1, ViewsInductive, PTL

(***************************************************************************)
(* The types of the views: the key lasts at most a second longer than the  *)
(* cooldown.                                                               *)
(***************************************************************************)
THEOREM ViewsTypesHold == ViewsSpec => []ViewsTypeOK
<1> DEFINE lasts == Seconds(Cooldown) * TicksPerSecond
           ViewSteps == [step : {"none", "allowed", "refused", "counted", "done", "lost"},
                         at : -1 .. LastTick, met : BOOLEAN]
<1>1. lasts \in Int /\ 0 <= lasts /\ lasts <= Cooldown + TicksPerSecond
  <2> DEFINE x == Cooldown + TicksPerSecond - 1
             q == x \div TicksPerSecond
             rest == x % TicksPerSecond
  <2>1. x \in Nat /\ TicksPerSecond \in Nat /\ TicksPerSecond > 0 /\ x <= Cooldown + TicksPerSecond
        /\ Cooldown \in Nat
    BY CooldownAssumption
  <2> HIDE DEF x
  <2>2. q \in Int /\ rest \in 0 .. (TicksPerSecond - 1) /\ x = TicksPerSecond * q + rest
    BY <2>1, SMT
  <2> HIDE DEF q, rest
  <2>3. q * TicksPerSecond = x - rest
    BY <2>1, <2>2, SMT
  <2>4. q * TicksPerSecond \in Int /\ q * TicksPerSecond <= Cooldown + TicksPerSecond
    BY <2>1, <2>2, <2>3, SMT
  <2>5. lasts >= Cooldown /\ lasts = q * TicksPerSecond
    BY SecondsCover DEF Seconds, q, x
  <2> HIDE DEF lasts
  <2> QED BY <2>1, <2>4, <2>5
<1> HIDE DEF lasts
<1>2. ViewsInit => ViewsTypeOK
  BY CooldownAssumption DEF ViewsInit, ViewsTypeOK, NoAction
<1>3. ASSUME ViewsTypeOK, [ViewsNext]_viewVars PROVE ViewsTypeOK'
  <2>1. /\ tick \in 0 .. LastTick /\ views \in Nat /\ handler \in [Handlers -> ViewSteps]
        /\ action \in [at : -1 .. LastTick, until : 0 .. LastTick + Cooldown + TicksPerSecond]
        /\ LastTick \in Nat /\ Cooldown \in Nat /\ TicksPerSecond \in Nat
    BY <1>3, CooldownAssumption DEF ViewsTypeOK
  <2>2. ASSUME NEW h \in Handlers, AllowView(h) PROVE handler' \in [Handlers -> ViewSteps]
    <3>1. \A g \in Handlers : handler[g] \in ViewSteps => [handler[g] EXCEPT !.met = TRUE] \in ViewSteps
      OBVIOUS
    <3>2. [step |-> "allowed", at |-> -1, met |-> \E k \in Handlers : Underway(k)] \in ViewSteps
      <4> DEFINE met == \E k \in Handlers : Underway(k)
      <4>1. met \in BOOLEAN /\ -1 \in -1 .. LastTick
        BY <2>1
      <4> HIDE DEF met
      <4>2. [step |-> "allowed", at |-> -1, met |-> met] \in ViewSteps
        BY <4>1
      <4> QED BY <4>2 DEF met
    <3> HIDE DEF ViewSteps
    <3> QED BY <2>1, <2>2, <3>1, <3>2, Zenon DEF AllowView, Meet
  <2>3. CASE \E h \in Handlers : AllowView(h)
    BY <2>1, <2>2, <2>3 DEF AllowView, ViewsTypeOK
  <2>4. ASSUME NEW h \in Handlers, NEW step \in {"refused", "lost", "done", "counted"},
               NEW at \in -1 .. LastTick
        PROVE  /\ [handler EXCEPT ![h].step = step] \in [Handlers -> ViewSteps]
               /\ [handler EXCEPT ![h].step = step, ![h].at = at] \in [Handlers -> ViewSteps]
    <3>1. handler[h] \in ViewSteps
      BY <2>1
    <3>2. /\ [handler[h] EXCEPT !.step = step] \in ViewSteps
          /\ [handler[h] EXCEPT !.step = step, !.at = at] \in ViewSteps
      BY <2>4, <3>1
    <3> HIDE DEF ViewSteps
    <3> QED BY <2>1, <3>2
  <2>5. CASE \E h \in Handlers : RefuseView(h) \/ LoseView(h) \/ IncrementViews(h)
    <3>1. tick' = tick /\ views' \in Nat /\ action' = action
      BY <2>1, <2>5 DEF RefuseView, LoseView, IncrementViews
    <3>2. handler' \in [Handlers -> ViewSteps]
      <4>1. tick \in -1 .. LastTick
        BY <2>1
      <4> HIDE DEF ViewSteps
      <4>2. PICK h \in Handlers : RefuseView(h) \/ LoseView(h) \/ IncrementViews(h)
        BY <2>5
      <4>3. /\ [handler EXCEPT ![h].step = "refused"] \in [Handlers -> ViewSteps]
            /\ [handler EXCEPT ![h].step = "lost"] \in [Handlers -> ViewSteps]
            /\ [handler EXCEPT ![h].step = "counted", ![h].at = tick] \in [Handlers -> ViewSteps]
        BY <2>4, <4>1
      <4> QED BY <4>2, <4>3, Zenon DEF RefuseView, LoseView, IncrementViews
    <3> QED BY <2>1, <3>1, <3>2 DEF ViewsTypeOK
  <2>6. CASE \E h \in Handlers : RegisterAction(h)
    <3>1. action' = [at |-> tick, until |-> tick + lasts] /\ tick' = tick /\ views' = views
      BY <2>6 DEF RegisterAction, lasts
    <3>2. handler' \in [Handlers -> ViewSteps]
      <4>1. tick \in -1 .. LastTick
        BY <2>1
      <4> HIDE DEF ViewSteps
      <4>2. PICK h \in Handlers : RegisterAction(h)
        BY <2>6
      <4>3. [handler EXCEPT ![h].step = "done"] \in [Handlers -> ViewSteps]
        BY <2>4, <4>1
      <4> QED BY <4>2, <4>3, Zenon DEF RegisterAction
    <3>3. tick \in -1 .. LastTick /\ tick + lasts \in 0 .. LastTick + Cooldown + TicksPerSecond
      BY <1>1, <2>1
    <3> QED BY <2>1, <3>1, <3>2, <3>3 DEF ViewsTypeOK
  <2>7. CASE ViewsTick
    BY <2>1, <2>7 DEF ViewsTick, ViewsTypeOK
  <2>8. CASE UNCHANGED viewVars
    BY <2>1, <2>8 DEF viewVars, ViewsTypeOK
  <2> QED BY <1>3, <2>3, <2>4, <2>5, <2>6, <2>7, <2>8 DEF ViewsNext
<1> QED BY <1>2, <1>3, PTL DEF ViewsSpec

-----------------------------------------------------------------------------
(***************************************************************************)
(* The reports.  What is known of a request that has been answered: what   *)
(* it was asked on, and that its answer is the one computed.               *)
(***************************************************************************)
AskedRain ==
    /\ report.read.docs \in RainCollections /\ report.read.now \in Long .. Long + Day - 1
    /\ report.answer = RainInsights(report.read.docs, report.read.now)

AskedSeries ==
    /\ report.read.readings \in SUBSET Readings /\ DistinctTimes(report.read.readings)
    /\ report.read.start \in Instants /\ report.read.middle \in Instants /\ report.read.end \in Instants
    /\ report.read.start < report.read.middle /\ report.read.middle < report.read.end
    /\ report.answer = Series(report.read.readings, report.read.start, report.read.end)

AskedFull ==
    /\ report.read.start \in Instants /\ report.read.span \in Spans
    /\ report.answer = Intervals(report.read.start, report.read.span)

AnsweredAsAsked ==
    /\ report.kind = "rain" => AskedRain
    /\ report.kind = "series" => AskedSeries
    /\ report.kind = "full" => AskedFull

LEMMA AnswerIsKept ==
  ASSUME NEW kind, NEW read, NEW answer, Answer(kind, read, answer)
  PROVE  report'.kind = kind /\ report'.read = read /\ report'.answer = answer
BY DEF Answer

LEMMA RequestIsAnswered ==
  ASSUME ReportsNext PROVE AnsweredAsAsked'
<1>1. CASE GetRainInsights
  <2>1. PICK docs \in RainCollections, now \in Long .. Long + Day - 1 :
          Answer("rain", [docs |-> docs, now |-> now], RainInsights(docs, now))
    BY <1>1 DEF GetRainInsights
  <2>2. /\ report'.kind = "rain" /\ report'.read = [docs |-> docs, now |-> now]
        /\ report'.answer = RainInsights(docs, now)
    BY <2>1, AnswerIsKept
  <2>3. AskedRain'
    BY <2>2 DEF AskedRain
  <2> QED BY <2>2, <2>3 DEF AnsweredAsAsked
<1>2. CASE FindMetricByStations
  <2>1. PICK readings \in {rs \in SUBSET Readings : DistinctTimes(rs)},
             start \in Instants, middle \in Instants, end \in Instants :
          /\ start < middle /\ middle < end
          /\ Answer("series", [readings |-> readings, start |-> start, middle |-> middle, end |-> end],
                    Series(readings, start, end))
    BY <1>2 DEF FindMetricByStations
  <2>2. /\ report'.kind = "series"
        /\ report'.read = [readings |-> readings, start |-> start, middle |-> middle, end |-> end]
        /\ report'.answer = Series(readings, start, end)
    BY <2>1, AnswerIsKept
  <2>3. AskedSeries'
    BY <2>1, <2>2 DEF AskedSeries
  <2> QED BY <2>2, <2>3 DEF AnsweredAsAsked
<1>3. CASE FindMetricsOfFullStation
  <2>1. PICK start \in Instants, span \in Spans :
          Answer("full", [start |-> start, span |-> span], Intervals(start, span))
    BY <1>3 DEF FindMetricsOfFullStation
  <2>2. /\ report'.kind = "full" /\ report'.read = [start |-> start, span |-> span]
        /\ report'.answer = Intervals(start, span)
    BY <2>1, AnswerIsKept
  <2>3. AskedFull'
    BY <2>2 DEF AskedFull
  <2> QED BY <2>2, <2>3 DEF AnsweredAsAsked
<1> QED BY <1>1, <1>2, <1>3 DEF ReportsNext

(***************************************************************************)
(* Every answer is the one computed on what was read.                      *)
(***************************************************************************)
LEMMA ReportsInductive == ReportsSpec => []AnsweredAsAsked
<1>1. ReportsInit => AnsweredAsAsked
  BY DEF ReportsInit, AnsweredAsAsked
<1>2. AnsweredAsAsked /\ UNCHANGED report => AnsweredAsAsked'
  BY DEF AnsweredAsAsked, AskedRain, AskedSeries, AskedFull
<1> QED BY <1>1, <1>2, RequestIsAnswered, PTL DEF ReportsSpec

(***************************************************************************)
(* The two roundings, to a neighbouring tenth and to the nearest.          *)
(***************************************************************************)
LEMMA FineIsPositive == Fine \in Nat \ {0} /\ 2 * Fine \in Nat \ {0}
BY CalendarAssumption

LEMMA ToFixedGrows ==
  ASSUME NEW a \in Nat, NEW b \in Nat, a <= b
  PROVE  ToFixed(a) \in Int /\ ToFixed(b) \in Int /\ ToFixed(a) <= ToFixed(b)
<1> DEFINE n == 2 * Fine
           x == 2 * a + Fine
           y == 2 * b + Fine
<1>1. n \in Nat \ {0} /\ x \in Int /\ y \in Int /\ x <= y
  BY FineIsPositive
<1> HIDE DEF n, x, y
<1>2. x \div n \in Int /\ x % n \in 0 .. n - 1 /\ x = n * (x \div n) + (x % n)
  BY <1>1, Remainders
<1>3. y \div n \in Int /\ y % n \in 0 .. n - 1 /\ y = n * (y \div n) + (y % n)
  BY <1>1, Remainders
<1>4. ASSUME y \div n < x \div n PROVE FALSE
  <2>1. n * (y \div n) + n <= n * (x \div n)
    BY <1>1, <1>2, <1>3, <1>4, ProductsAreApart
  <2>2. n * (y \div n) \in Int /\ n * (x \div n) \in Int
    BY <1>1, <1>2, <1>3
  <2> DEFINE r == x % n
             s == y % n
  <2>3. r \in 0 .. n - 1 /\ s \in 0 .. n - 1 /\ x = n * (x \div n) + r /\ y = n * (y \div n) + s
    BY <1>2, <1>3
  <2> HIDE DEF r, s
  <2> QED BY <1>1, <2>1, <2>2, <2>3
<1>5. x \div n <= y \div n
  BY <1>2, <1>3, <1>4
<1> QED BY <1>2, <1>3, <1>5 DEF ToFixed, x, y, n

LEMMA RoundedIsNear ==
  ASSUME NEW v \in Nat
  PROVE  /\ Rounded(v) \in Int /\ Near(Fine, Rounded(v), v, 1)
         /\ v % Fine = 0 => v = Fine * Rounded(v)
<1> DEFINE n == 2 * Fine
           x == 2 * v + Fine
           q == x \div n
           r == x % n
<1>1. Fine \in Nat \ {0} /\ n \in Nat \ {0} /\ x \in Int
  BY FineIsPositive
<1>2. q \in Int /\ r \in 0 .. n - 1 /\ x = n * q + r
  <2> HIDE DEF n, x
  <2> QED BY <1>1, Remainders
<1>3. n * q = Fine * (2 * q) /\ n * q \in Int
  <2> HIDE DEF q, r
  <2> QED BY <1>1, <1>2, SMT DEF n
<1>4. ToFixed(v) = q
  BY DEF ToFixed
<1>5. Near(Fine, q, v, 1)
  <2>1. 2 * v + Fine = Fine * (2 * q) + r /\ r \in 0 .. 2 * Fine - 1 /\ Fine * (2 * q) \in Int
    BY <1>2, <1>3
  <2> HIDE DEF q, r
  <2>2. Fine * (2 * q) <= 2 * v + Fine /\ 2 * v <= Fine * (2 * q) + Fine
    BY <1>1, <2>1
  <2> QED BY <1>1, <2>2 DEF Near
<1>6. CASE Rounded(v) = q
  <2>1. ASSUME v % Fine = 0 PROVE v = Fine * q
    <3> DEFINE k == v \div Fine
               z == v % Fine
    <3>1. k \in Int /\ v = Fine * k + z /\ z = 0
      BY <1>1, <2>1, Remainders
    <3> HIDE DEF k, z
    <3>2. v = Fine * k
      BY <1>1, <3>1
    <3>3. x = n * k + Fine /\ Fine \in 0 .. n - 1
      <4>1. n * k = 2 * (Fine * k)
        BY <1>1, <3>1, SMT
      <4> QED BY <1>1, <3>2, <4>1
    <3>4. q = k
      <4> HIDE DEF n, x
      <4> QED BY <1>1, <3>1, <3>3, DivisionIsUnique
    <3> QED BY <3>2, <3>4
  <2> QED BY <1>2, <1>5, <1>6, <2>1
<1>7. CASE Rounded(v) # q
  <2>1. Rounded(v) = q - 1 /\ (2 * v) % (2 * Fine) = Fine
    BY <1>4, <1>7 DEF Rounded
  <2> DEFINE w == 2 * v
             p == w \div n
             z == w % n
  <2>2. p \in Int /\ w = n * p + z /\ z = Fine
    <3>1. w \in Int /\ w % n = Fine
      BY <2>1
    <3> HIDE DEF w, n
    <3> QED BY <1>1, <3>1, Remainders
  <2> HIDE DEF p, z
  <2>3. x = n * (p + 1) + 0
    <3>1. n * (p + 1) = n * p + n /\ n * p \in Int
      BY <1>1, <2>2, SMT
    <3>2. 2 * v = n * p + Fine
      BY <2>2
    <3> QED BY <1>1, <3>1, <3>2
  <2>4. q = p + 1
    <3>1. p + 1 \in Int /\ 0 \in 0 .. n - 1
      BY <1>1, <2>2
    <3> HIDE DEF n, x
    <3> QED BY <1>1, <2>3, <3>1, DivisionIsUnique
  <2>5. Rounded(v) = p
    BY <2>1, <2>2, <2>4
  <2>6. 2 * v = Fine * (2 * p) + Fine /\ Fine * (2 * p) \in Int
    <3>1. n * p = Fine * (2 * p) /\ n * p \in Int
      BY <1>1, <2>2, SMT
    <3> QED BY <2>2, <3>1
  <2>7. Near(Fine, p, v, 1)
    BY <1>1, <2>6 DEF Near
  <2>8. v % Fine # 0
    <3>1. SUFFICES ASSUME v % Fine = 0 PROVE FALSE
      OBVIOUS
    <3> DEFINE k == v \div Fine
               u == v % Fine
    <3>2. k \in Int /\ v = Fine * k + u /\ u = 0
      BY <1>1, <3>1, Remainders
    <3> HIDE DEF k, u
    <3>3. 2 * v = n * k + 0 /\ 0 \in 0 .. n - 1
      <4>1. n * k = 2 * (Fine * k) /\ Fine * k \in Int
        BY <1>1, <3>2, SMT
      <4> QED BY <1>1, <3>2, <4>1
    <3>4. w % n = 0
      <4>1. w \in Int /\ w = n * k + 0 /\ 0 \in 0 .. n - 1
        BY <3>3
      <4> HIDE DEF n, w
      <4> QED BY <1>1, <3>2, <4>1, DivisionIsUnique
    <3> QED BY <1>1, <2>1, <3>4
  <2> QED BY <2>2, <2>5, <2>7, <2>8
<1> QED BY <1>6, <1>7

(***************************************************************************)
(* Intervals begin at whole hours.                                         *)
(***************************************************************************)
Units == {"hour", "day", "week", "month", "year"}

LEMMA LargestOfInts ==
  ASSUME NEW S \in SUBSET Int, IsFiniteSet(S), S # {}
  PROVE  Max(S) \in S /\ \A x \in S : x <= Max(S)
<1> DEFINE k == [x \in S |-> x]
<1>1. \A x \in S : k[x] \in Int
  OBVIOUS
<1>2. \E x \in S : \A y \in S : k[y] <= k[x]
  <2> HIDE DEF k
  <2> QED BY <1>1, LargestExists
<1>3. \E x \in S : \A y \in S : x >= y
  BY <1>2
<1>4. Max(S) \in S /\ \A y \in S : Max(S) >= y
  BY <1>3 DEF Max
<1> QED BY <1>4

LEMMA LastStart ==
  ASSUME NEW S \in SUBSET Int, IsFiniteSet(S), NEW t \in Int, \E s \in S : s <= t
  PROVE  /\ Max({s \in S : s <= t}) \in S /\ Max({s \in S : s <= t}) <= t
         /\ \A s \in S : s <= t => s <= Max({u \in S : u <= t})
<1> DEFINE B == {s \in S : s <= t}
<1>1. B \in SUBSET Int /\ B # {} /\ B \subseteq S
  OBVIOUS
<1>2. IsFiniteSet(B)
  BY FS_Subset
<1>3. Max(B) \in B /\ \A x \in B : x <= Max(B)
  <2> HIDE DEF B
  <2> QED BY <1>1, <1>2, LargestOfInts
<1> QED BY <1>3

LEMMA GranularityIsUnit == ASSUME NEW span \in Int PROVE Granularity(span) \in Units
BY DEF Granularity, Units

LEMMA IntervalStartIsInt ==
  ASSUME NEW unit \in Units, NEW t \in Instants
  PROVE  IntervalStart(unit, t) \in Int
<1>1. t \in Int /\ MonthStarts \in SUBSET Int /\ YearStarts \in SUBSET Int
      /\ IsFiniteSet(MonthStarts) /\ IsFiniteSet(YearStarts)
      /\ (\E s \in MonthStarts : s <= t) /\ (\E s \in YearStarts : s <= t)
  BY CalendarAssumption
<1>2. Max({s \in MonthStarts : s <= t}) \in Int
  BY <1>1, LastStart
<1>3. Max({s \in YearStarts : s <= t}) \in Int
  BY <1>1, LastStart
<1>4. t - (t % 24) \in Int /\ t - (t % (7 * 24)) \in Int
  BY <1>1
<1> QED BY <1>1, <1>2, <1>3, <1>4 DEF Units, IntervalStart

LEMMA ReadingsAreFinite ==
  ASSUME NEW rs \in SUBSET Readings, DistinctTimes(rs)
  PROVE  /\ IsFiniteSet(rs)
         /\ \A r \in rs : r.at \in Instants /\ r.at \in Int /\ Volume(r) \in Nat
<1> DEFINE key == [r \in rs |-> r.at]
<1>1. key \in [rs -> Instants] /\ \A x, y \in rs : key[x] = key[y] => x = y
  BY DEF Readings, DistinctTimes
<1>2. IsFiniteSet(Instants) /\ Instants \subseteq Int /\ Volumes \subseteq Nat
  BY CalendarAssumption
<1> HIDE DEF key
<1>3. IsFiniteSet(rs)
  BY <1>1, <1>2, FiniteByKeys
<1>4. ASSUME NEW r \in rs PROVE r.at \in Instants /\ r.at \in Int /\ Volume(r) \in Nat
  <2>1. r.at \in Instants /\ r.rain \in Volumes \union {Null}
    BY DEF Readings
  <2>2. r.rain # Null => r.rain \in Nat
    BY <1>2, <2>1
  <2> QED BY <1>2, <2>1, <2>2 DEF Volume
<1> QED BY <1>3, <1>4

(***************************************************************************)
(* The points of a series together: their rain is near that of all the     *)
(* readings in the window, and they count all of them, whatever the        *)
(* intervals.                                                              *)
(***************************************************************************)
RainOfPoints(points) == Sum([i \in DOMAIN points |-> points[i].rain], DOMAIN points)
CountOfPoints(points) == Sum([i \in DOMAIN points |-> points[i].count], DOMAIN points)

RainOfWindow(readings, start, end) ==
    Sum([r \in readings |-> Volume(r)], MatchStage(readings, start, end))

WholeTenths(readings) == \A r \in readings : Volume(r) % Fine = 0

LEMMA WholeTenthsAddUp ==
  ASSUME NEW readings \in SUBSET Readings, DistinctTimes(readings), WholeTenths(readings),
         NEW g \in SUBSET readings
  PROVE  Sum([r \in readings |-> Volume(r)], g) % Fine = 0
<1> DEFINE volume == [r \in readings |-> Volume(r)]
           tenths == [r \in readings |-> Volume(r) \div Fine]
<1>1. IsFiniteSet(g)
  BY ReadingsAreFinite, FS_Subset
<1>2. ASSUME NEW r \in readings PROVE tenths[r] \in Int /\ volume[r] = Fine * tenths[r]
  <2> DEFINE v == Volume(r)
             k == v \div Fine
             z == v % Fine
  <2>1. v \in Int /\ z = 0
    BY ReadingsAreFinite DEF WholeTenths
  <2> HIDE DEF v
  <2>2. k \in Int /\ v = Fine * k + z
    BY <2>1, FineIsPositive, Remainders
  <2> HIDE DEF k, z
  <2>3. v = Fine * k
    BY <2>1, <2>2, FineIsPositive
  <2> QED BY <2>2, <2>3 DEF v, k
<1>3. \A r \in g : tenths[r] \in Int /\ volume[r] = Fine * tenths[r]
  <2> HIDE DEF volume, tenths
  <2> QED BY <1>2
<1> HIDE DEF volume, tenths
<1>4. SumFunctionOnSet(volume, g) = Fine * SumFunctionOnSet(tenths, g)
  BY <1>1, <1>3, FineIsPositive, SumsOfMultiples
<1>5. SumFunctionOnSet(tenths, g) \in Int
  BY <1>1, <1>3, SumIsInt
<1> DEFINE x == SumFunctionOnSet(volume, g)
<1>6. x \in Int /\ x = Fine * SumFunctionOnSet(tenths, g) + 0 /\ 0 \in 0 .. Fine - 1
  BY <1>4, <1>5, FineIsPositive
<1> HIDE DEF x
<1>7. x % Fine = 0
  BY <1>5, <1>6, FineIsPositive, DivisionIsUnique
<1> QED BY <1>7 DEF x, Sum, volume

LEMMA SeriesTotals ==
  ASSUME NEW readings \in SUBSET Readings, DistinctTimes(readings), NEW start \in Int, NEW end \in Int
  PROVE  LET points == Series(readings, start, end)
             rain == RainOfWindow(readings, start, end)
         IN  /\ RainOfPoints(points) \in Int /\ Len(points) \in Nat /\ rain \in Nat
             /\ CountOfPoints(points) = Cardinality(MatchStage(readings, start, end))
             /\ Near(Fine, RainOfPoints(points), rain, Len(points))
             /\ WholeTenths(readings) => rain = Fine * RainOfPoints(points)
<1> DEFINE unit == Granularity(end - start)
           rs == MatchStage(readings, start, end)
           key == [r \in rs |-> IntervalStart(unit, r.at)]
           keys == KeysInOrder(rs, key)
           G(i) == GroupOf(rs, key, keys[i])
           points == Series(readings, start, end)
           rain == [r \in readings |-> Volume(r)]
           one == [r \in readings |-> 1]
<1>1. rs \subseteq readings
  BY DEF MatchStage
<1>2. IsFiniteSet(rs)
  BY <1>1, ReadingsAreFinite, FS_Subset
<1>3. unit \in Units
  BY GranularityIsUnit
<1>4. \A r \in rs : key[r] \in Int
  <2> HIDE DEF unit, rs
  <2>1. \A r \in rs : r.at \in Instants
    BY <1>1, ReadingsAreFinite
  <2> QED BY <1>3, <2>1, IntervalStartIsInt
<1>5. \A r \in rs : rain[r] \in Nat /\ one[r] \in Nat
  <2>1. \A r \in readings : Volume(r) \in Nat
    BY ReadingsAreFinite
  <2> HIDE DEF rs
  <2> QED BY <1>1, <2>1
<1>6. points = [i \in DOMAIN keys |-> Point(keys[i], G(i))]
  <2>1. {key[r] : r \in rs} = {IntervalStart(unit, r.at) : r \in rs}
    OBVIOUS
  <2>2. keys = Ascending({IntervalStart(unit, r.at) : r \in rs})
    BY <2>1 DEF KeysInOrder
  <2>3. points = [i \in DOMAIN keys |->
                    Point(keys[i], {r \in rs : IntervalStart(unit, r.at) = keys[i]})]
    BY <2>2 DEF Series
  <2>4. \A i \in DOMAIN keys : G(i) = {r \in rs : IntervalStart(unit, r.at) = keys[i]}
    BY DEF GroupOf
  <2> HIDE DEF keys, points, G, rs, unit, key
  <2> QED BY <2>3, <2>4
<1>7. ASSUME NEW i \in DOMAIN keys
      PROVE  /\ points[i].rain = Rounded(Sum(rain, G(i))) /\ points[i].count = Sum(one, G(i))
             /\ Sum(rain, G(i)) \in Nat
             /\ WholeTenths(readings) => Sum(rain, G(i)) % Fine = 0
  <2>1. G(i) \subseteq rs
    BY DEF GroupOf
  <2>2. IsFiniteSet(G(i))
    BY <1>2, <2>1, FS_Subset
  <2> DEFINE g == G(i)
             ofGroup == [r \in g |-> Volume(r)]
             ones == [r \in g |-> 1]
  <2>3. g \subseteq readings /\ IsFiniteSet(g) /\ \A r \in g : rain[r] \in Nat /\ one[r] \in Nat
    BY <1>1, <1>5, <2>1, <2>2
  <2>4. points[i].rain = Rounded(Sum(ofGroup, g)) /\ points[i].count = Cardinality(g)
    BY <1>6 DEF Point
  <2>5. WholeTenths(readings) => Sum(rain, g) % Fine = 0
    <3> HIDE DEF g
    <3> QED BY <2>3, WholeTenthsAddUp
  <2> HIDE DEF g, G, points
  <2>6. \A r \in g : rain[r] = ofGroup[r] /\ one[r] = ones[r]
    BY <2>3
  <2> HIDE DEF ofGroup, rain, one
  <2>7. SumFunctionOnSet(rain, g) = SumFunctionOnSet(ofGroup, g) /\ SumFunctionOnSet(rain, g) \in Nat
    BY <2>3, <2>6, SumAgrees, SumIsNat
  <2>8. SumFunctionOnSet(one, g) = SumFunctionOnSet(ones, g)
    <3> HIDE DEF ones
    <3> QED BY <2>3, <2>6, SumAgrees
  <2>9. SumFunctionOnSet(ones, g) = Cardinality(g)
    BY <2>3, SumOfOnes
  <2> QED BY <2>4, <2>5, <2>7, <2>8, <2>9 DEF Sum, g
<1>8. DOMAIN points = DOMAIN keys
  <2> HIDE DEF keys, points, G
  <2> QED BY <1>6
<1>9. ASSUME NEW f, \A r \in rs : f[r] \in Int
      PROVE  SumFunctionOnSet([i \in DOMAIN keys |-> SumFunctionOnSet(f, G(i))], DOMAIN keys)
             = SumFunctionOnSet(f, rs)
  <2> HIDE DEF rs, key
  <2> QED BY <1>2, <1>4, <1>9, GroupsAddUp
<1>10. DOMAIN keys = 1 .. Len(points) /\ Len(points) \in Nat
       /\ IsFiniteSet(DOMAIN keys) /\ Cardinality(DOMAIN keys) = Len(points)
  <2> DEFINE K == {key[r] : r \in rs}
  <2>1. DOMAIN keys = 1 .. Cardinality(K)
    BY DEF KeysInOrder, Ascending, InOrder
  <2>2. Cardinality(K) \in Nat
    <3> HIDE DEF key, rs
    <3>1. IsFiniteSet(K)
      BY <1>2, KeysAreFinite
    <3> QED BY <3>1, FS_CardinalityType
  <2> HIDE DEF K, keys, points, G
  <2>3. points \in Seq({points[i] : i \in DOMAIN keys})
    BY <1>6, <1>8, <2>1, <2>2, SeqDef
  <2>4. Len(points) = Cardinality(K)
    BY <1>8, <2>1, <2>2, <2>3, LenProperties
  <2>5. IsFiniteSet(1 .. Len(points)) /\ Cardinality(1 .. Len(points)) = Len(points)
    BY <2>2, <2>4, FS_Interval
  <2> QED BY <2>1, <2>2, <2>4, <2>5
<1> DEFINE exact == [i \in DOMAIN keys |-> SumFunctionOnSet(rain, G(i))]
           round == [i \in DOMAIN points |-> points[i].rain]
<1>11. SumFunctionOnSet(exact, DOMAIN keys) = RainOfWindow(readings, start, end)
       /\ RainOfWindow(readings, start, end) \in Nat
  <2>1. RainOfWindow(readings, start, end) = SumFunctionOnSet(rain, rs)
    BY DEF RainOfWindow, Sum
  <2> HIDE DEF keys, G, rain, rs
  <2>2. \A r \in rs : rain[r] \in Int /\ rain[r] \in Nat
    BY <1>5
  <2>3. SumFunctionOnSet(rain, rs) \in Nat
    BY <1>2, <2>2, SumIsNat
  <2> QED BY <1>9, <2>1, <2>2, <2>3
<1>12. ASSUME NEW i \in DOMAIN keys
       PROVE  /\ round[i] \in Int /\ exact[i] \in Int /\ Near(Fine, round[i], exact[i], 1)
              /\ WholeTenths(readings) => exact[i] = Fine * round[i]
  <2> DEFINE v == Sum(rain, G(i))
  <2>1. round[i] = Rounded(v) /\ exact[i] = v /\ v \in Nat
        /\ (WholeTenths(readings) => v % Fine = 0)
    <3>1. i \in DOMAIN points
      BY <1>8
    <3> HIDE DEF keys, points, G, rain
    <3> QED BY <1>7, <3>1 DEF Sum
  <2> HIDE DEF v, round, exact
  <2> QED BY <2>1, RoundedIsNear
<1>13. RainOfPoints(points) = SumFunctionOnSet(round, DOMAIN keys)
  BY <1>8 DEF RainOfPoints, Sum
<1>14. RainOfPoints(points) \in Int
       /\ Near(Fine, RainOfPoints(points), RainOfWindow(readings, start, end), Len(points))
  <2> HIDE DEF keys, points, exact, round
  <2>1. SumFunctionOnSet(round, DOMAIN keys) \in Int
    BY <1>10, <1>12, SumIsInt
  <2>2. Near(Fine, SumFunctionOnSet(round, DOMAIN keys), SumFunctionOnSet(exact, DOMAIN keys),
             Cardinality(DOMAIN keys))
    BY <1>10, <1>12, FineIsPositive, SumsStayNear
  <2> QED BY <1>10, <1>11, <1>13, <2>1, <2>2
<1>15. ASSUME WholeTenths(readings)
       PROVE  RainOfWindow(readings, start, end) = Fine * RainOfPoints(points)
  <2> HIDE DEF keys, points, exact, round
  <2>1. \A i \in DOMAIN keys : round[i] \in Int /\ exact[i] = Fine * round[i]
    BY <1>12, <1>15
  <2>2. IsFiniteSet(DOMAIN keys) /\ Fine \in Nat
    BY <1>10, FineIsPositive
  <2>3. SumFunctionOnSet(exact, DOMAIN keys) = Fine * SumFunctionOnSet(round, DOMAIN keys)
    BY ONLY <2>1, <2>2, SumsOfMultiples
  <2> QED BY <1>11, <1>13, <2>3
<1>16. CountOfPoints(points) = Sum(one, rs)
  <2>1. [i \in DOMAIN points |-> points[i].count] = [i \in DOMAIN keys |-> SumFunctionOnSet(one, G(i))]
    <3> HIDE DEF keys, points, G, one
    <3> QED BY <1>7, <1>8 DEF Sum
  <2>2. SumFunctionOnSet([i \in DOMAIN keys |-> SumFunctionOnSet(one, G(i))], DOMAIN keys)
        = SumFunctionOnSet(one, rs)
    <3> HIDE DEF keys, G, one, rain, rs, unit, key, points
    <3>1. \A r \in rs : one[r] \in Int
      BY <1>5
    <3> QED BY <1>9, <3>1
  <2> HIDE DEF keys, points, G, one, rs
  <2> QED BY <1>8, <2>1, <2>2 DEF CountOfPoints, Sum
<1>17. Sum(one, rs) = Cardinality(rs)
  <2> DEFINE ones == [r \in rs |-> 1]
  <2>1. \A r \in rs : one[r] \in Int /\ ones[r] = one[r]
    BY <1>1
  <2>2. SumFunctionOnSet(ones, rs) = Cardinality(rs)
    <3> HIDE DEF rs
    <3> QED BY <1>2, SumOfOnes
  <2> HIDE DEF ones, one, rs
  <2>3. SumFunctionOnSet(one, rs) = SumFunctionOnSet(ones, rs)
    BY <1>2, <2>1, SumAgrees
  <2> QED BY <2>2, <2>3 DEF Sum
<1> QED BY <1>10, <1>11, <1>14, <1>15, <1>16, <1>17

LEMMA NearAreApart ==
  ASSUME NEW a \in Int, NEW n \in Int, NEW e \in Int, Near(Fine, a, e, n),
         NEW b \in Int, NEW m \in Int, Near(Fine, b, e, m)
  PROVE  Apart(a, b, n + m)
<1> DEFINE x == 2 * a
           y == 2 * b
           k == n + m
<1>1. /\ Fine * x <= 2 * e + Fine * n /\ 2 * e <= Fine * x + Fine * n
      /\ Fine * y <= 2 * e + Fine * m /\ 2 * e <= Fine * y + Fine * m
  BY DEF Near
<1>2. x \in Int /\ y \in Int /\ k \in Int /\ Fine \in Nat \ {0}
  BY FineIsPositive
<1>3. /\ Fine * (x + k) = Fine * x + (Fine * n + Fine * m)
      /\ Fine * (y + k) = Fine * y + (Fine * n + Fine * m)
  <2> HIDE DEF x, y
  <2> QED BY <1>2, SMT
<1>4. /\ Fine * x \in Int /\ Fine * y \in Int /\ Fine * n \in Int /\ Fine * m \in Int
      /\ x + k \in Int /\ y + k \in Int
  BY <1>2
<1> HIDE DEF x, y, k
<1>5. Fine * x <= Fine * (y + k) /\ Fine * y <= Fine * (x + k)
  BY <1>1, <1>3, <1>4
<1>6. ASSUME y + k < x PROVE FALSE
  <2>1. Fine * (y + k) + Fine <= Fine * x
    BY <1>2, <1>4, <1>6, ProductsAreApart
  <2> QED BY <1>2, <1>3, <1>4, <1>5, <2>1
<1>7. ASSUME x + k < y PROVE FALSE
  <2>1. Fine * (x + k) + Fine <= Fine * y
    BY <1>2, <1>4, <1>7, ProductsAreApart
  <2> QED BY <1>2, <1>3, <1>4, <1>5, <2>1
<1>8. x <= y + k /\ y <= x + k
  BY <1>2, <1>4, <1>6, <1>7
<1> QED BY <1>2, <1>8 DEF Apart, x, y, k

(***************************************************************************)
(* Windows that meet, cut into whatever intervals, count the readings of   *)
(* the window they make, and their rain, its own points' and the aggregate *)
(* are apart by no more than their roundings.                              *)
(***************************************************************************)
THEOREM WindowsAddUp == ReportsSpec => []SeriesAddUp
<1>1. ASSUME AnsweredAsAsked PROVE SeriesAddUp
  <2> SUFFICES ASSUME report.kind = "series" PROVE SeriesAddUp
    BY DEF SeriesAddUp
  <2> DEFINE readings == report.read.readings
             start == report.read.start
             middle == report.read.middle
             end == report.read.end
             volume == [r \in readings |-> Volume(r)]
             L == MatchStage(readings, start, middle)
             R == MatchStage(readings, middle, end)
             W == MatchStage(readings, start, end)
             left == Series(readings, start, middle)
             right == Series(readings, middle, end)
             all == Series(readings, start, end)
             rain == AggregatedRain(readings, start, end)
             exactL == RainOfWindow(readings, start, middle)
             exactR == RainOfWindow(readings, middle, end)
             exact == RainOfWindow(readings, start, end)
  <2>1. /\ readings \in SUBSET Readings /\ DistinctTimes(readings)
        /\ start \in Int /\ middle \in Int /\ end \in Int /\ start < middle /\ middle < end
        /\ report.answer = all
    BY <1>1, CalendarAssumption DEF AnsweredAsAsked, AskedSeries
  <2> HIDE DEF readings, start, middle, end
  <2>2. IsFiniteSet(readings) /\ \A r \in readings : r.at \in Int /\ Volume(r) \in Int
    BY <2>1, ReadingsAreFinite
  <2>3. L \union R = W /\ L \intersect R = {} /\ L \in SUBSET readings /\ R \in SUBSET readings
    BY <2>1, <2>2 DEF MatchStage
  <2>4. IsFiniteSet(L) /\ IsFiniteSet(R)
    BY <2>2, <2>3, FS_Subset
  <2>5. exact = exactL + exactR
    <3>1. \A r \in readings : volume[r] \in Int
      BY <2>2
    <3>2. exactL = SumFunctionOnSet(volume, L) /\ exactR = SumFunctionOnSet(volume, R)
          /\ exact = SumFunctionOnSet(volume, W)
      BY DEF RainOfWindow, Sum
    <3> HIDE DEF L, R, W, volume, exact, exactL, exactR
    <3>3. SumFunctionOnSet(volume, L \union R)
          = SumFunctionOnSet(volume, L) + SumFunctionOnSet(volume, R)
      BY ONLY <2>2, <2>3, <3>1, SumOfUnion
    <3> QED BY <2>3, <3>2, <3>3
  <2>6. Cardinality(W) = Cardinality(L) + Cardinality(R)
    <3> HIDE DEF L, R, W
    <3>1. Cardinality(L \union R) = Cardinality(L) + Cardinality(R) - Cardinality(L \intersect R)
      BY <2>4, FS_Union
    <3>2. Cardinality(L \intersect R) = 0 /\ Cardinality(L) \in Nat /\ Cardinality(R) \in Nat
      BY <2>3, <2>4, FS_EmptySet, FS_CardinalityType
    <3>3. Cardinality(W) = Cardinality(L \union R)
      BY <2>3
    <3> QED BY <3>1, <3>2, <3>3
  <2>7. /\ RainOfPoints(all) \in Int /\ Len(all) \in Nat /\ exact \in Nat
        /\ CountOfPoints(all) = Cardinality(W) /\ Near(Fine, RainOfPoints(all), exact, Len(all))
        /\ WholeTenths(readings) => exact = Fine * RainOfPoints(all)
    BY <2>1, SeriesTotals
  <2>8. /\ RainOfPoints(left) \in Int /\ Len(left) \in Nat /\ exactL \in Nat
        /\ CountOfPoints(left) = Cardinality(L) /\ Near(Fine, RainOfPoints(left), exactL, Len(left))
        /\ WholeTenths(readings) => exactL = Fine * RainOfPoints(left)
    BY <2>1, SeriesTotals
  <2>9. /\ RainOfPoints(right) \in Int /\ Len(right) \in Nat /\ exactR \in Nat
        /\ CountOfPoints(right) = Cardinality(R) /\ Near(Fine, RainOfPoints(right), exactR, Len(right))
        /\ WholeTenths(readings) => exactR = Fine * RainOfPoints(right)
    BY <2>1, SeriesTotals
  <2>10. /\ rain \in Int /\ Near(Fine, rain, exact, 1)
         /\ WholeTenths(readings) => exact = Fine * rain
    <3>1. rain = Rounded(exact)
      BY DEF AggregatedRain, RainOfWindow
    <3>2. WholeTenths(readings) => exact % Fine = 0
      <4>1. W \in SUBSET readings
        BY <2>3
      <4> HIDE DEF W
      <4>2. WholeTenths(readings) => Sum(volume, W) % Fine = 0
        BY <2>1, <4>1, WholeTenthsAddUp
      <4> QED BY <4>2 DEF RainOfWindow, W
    <3> HIDE DEF rain, exact
    <3> QED BY <2>7, <3>1, <3>2, RoundedIsNear
  <2> HIDE DEF L, R, W, volume, left, right, all, rain, exact, exactL, exactR
  <2> DEFINE a == RainOfPoints(all)
             b == RainOfPoints(left)
             c == RainOfPoints(right)
  <2>11. a \in Int /\ b \in Int /\ c \in Int
    BY <2>7, <2>8, <2>9
  <2>12. CountOfPoints(all) = CountOfPoints(left) + CountOfPoints(right)
    BY <2>6, <2>7, <2>8, <2>9
  <2>13. Near(Fine, b + c, exact, Len(left) + Len(right))
    <3>1. Fine \in Nat /\ Len(left) \in Int /\ Len(right) \in Int /\ exactL \in Int /\ exactR \in Int
      BY <2>8, <2>9, FineIsPositive
    <3>2. Near(Fine, b, exactL, Len(left)) /\ Near(Fine, c, exactR, Len(right))
      BY <2>8, <2>9
    <3> HIDE DEF a, b, c
    <3> QED BY <2>5, <2>11, <3>1, <3>2, NearAdds
  <2>14. Apart(a, b + c, Len(all) + Len(left) + Len(right))
    <3>1. Near(Fine, a, exact, Len(all))
      BY <2>7
    <3> HIDE DEF a, b, c
    <3>2. /\ Len(all) \in Int /\ Len(left) + Len(right) \in Int /\ exact \in Int /\ b + c \in Int
          /\ Len(all) + (Len(left) + Len(right)) = Len(all) + Len(left) + Len(right)
      BY <2>7, <2>8, <2>9, <2>11
    <3>3. Apart(a, b + c, Len(all) + (Len(left) + Len(right)))
      BY <2>11, <2>13, <3>1, <3>2, NearAreApart
    <3> QED BY <3>2, <3>3
  <2>15. Apart(a, rain, Len(all) + 1)
    <3>1. Near(Fine, a, exact, Len(all)) /\ Len(all) \in Int /\ exact \in Int /\ 1 \in Int
      BY <2>7
    <3>2. Near(Fine, rain, exact, 1) /\ rain \in Int /\ a \in Int
      BY <2>10, <2>11
    <3> HIDE DEF a
    <3> QED BY ONLY <3>1, <3>2, NearAreApart
  <2>16. ASSUME WholeTenths(readings) PROVE a = b + c /\ a = rain
    <3>1. exact = Fine * a /\ exactL = Fine * b /\ exactR = Fine * c /\ exact = Fine * rain
      BY <2>7, <2>8, <2>9, <2>10, <2>16
    <3> HIDE DEF a, b, c
    <3>2. Fine * (b + c) = Fine * b + Fine * c
      BY <2>11, FineIsPositive, SMT
    <3>3. exact = Fine * (b + c)
      BY <2>5, <3>1, <3>2
    <3>4. ASSUME NEW u \in Int, NEW v \in Int, Fine * u = Fine * v PROVE u = v
      <4>1. ASSUME NEW d \in Int, NEW h \in Int, d < h, Fine * d = Fine * h PROVE FALSE
        <5>1. Fine * d + Fine <= Fine * h /\ Fine * d \in Int /\ Fine * h \in Int
          BY <4>1, FineIsPositive, ProductsAreApart
        <5> QED BY <4>1, <5>1, FineIsPositive
      <4>2. ~(u < v) /\ ~(v < u)
        BY <3>4, <4>1
      <4> QED BY <4>2
    <3>5. b + c \in Int
      BY <2>11
    <3> QED BY <2>10, <2>11, <3>1, <3>3, <3>4, <3>5
  <2> QED BY <2>1, <2>12, <2>14, <2>15, <2>16
          DEF SeriesAddUp, RainOfPoints, CountOfPoints, WholeTenths, readings, start, middle, end,
              left, right, all, rain
<1> QED BY <1>1, ReportsInductive, PTL

-----------------------------------------------------------------------------
(***************************************************************************)
(* The rain of a station.  The hour of a moment and the day it is in, and  *)
(* which documents, each with the sum of its hours, a cutoff cuts.         *)
(***************************************************************************)
RainRecords ==
    {doc \in [day : Int, perHour : [Hours -> Volumes], acc : Int] :
        doc.acc # Null /\ doc.acc = RainFrom(doc, 0)}

LEMMA RainOfRecord ==
  ASSUME NEW doc \in RainRecords
  PROVE  doc.day \in Int /\ doc.perHour \in [Hours -> Volumes] /\ RainOf(doc) = RainFrom(doc, 0)
BY DEF RainRecords, RainOf

LEMMA HoursOfDays ==
  ASSUME NEW t \in Int
  PROVE  /\ DayOf(t) \in Int /\ HourOf(t) \in Hours
         /\ t \div HalfHours = HoursPerDay * DayOf(t) + HourOf(t)
         /\ Day * DayOf(t) <= t /\ t < Day * DayOf(t) + Day
         /\ t = Day * DayOf(t) => HourOf(t) = 0
<1> DEFINE q == DayOf(t)
           r == t % Day
           e == r \div 2
<1>1. HoursPerDay \in Nat \ {0} /\ Day \in Nat \ {0} /\ Day = HoursPerDay * 2
  BY CalendarAssumption DEF Day, HalfHours
<1>2. q \in Int /\ r \in 0 .. Day - 1 /\ t = Day * q + r
  BY <1>1, Remainders DEF DayOf
<1> HIDE DEF q, r
<1>3. e \in 0 .. HoursPerDay - 1 /\ (r = 0 => e = 0)
  BY <1>1, <1>2
<1>4. HoursPerDay * q \in Int /\ Day * q = 2 * (HoursPerDay * q)
  BY <1>1, <1>2
<1>5. t \div 2 = HoursPerDay * q + e
  <2> DEFINE hq == HoursPerDay * q
  <2>1. t = 2 * hq + r /\ hq \in Int /\ r \in Int
    BY <1>1, <1>2, <1>4
  <2> HIDE DEF hq
  <2>2. t \div 2 = hq + e
    BY <2>1
  <2> QED BY <2>2 DEF hq
<1> HIDE DEF e
<1>6. (t \div 2) \div HoursPerDay = q /\ (t \div 2) % HoursPerDay = e
  <2> DEFINE x == t \div 2
  <2>1. x \in Int /\ x = HoursPerDay * q + e /\ q \in Int /\ e \in 0 .. HoursPerDay - 1
    BY <1>2, <1>3, <1>5
  <2> HIDE DEF x
  <2>2. x \div HoursPerDay = q /\ x % HoursPerDay = e
    BY <1>1, <2>1, DivisionIsUnique
  <2> QED BY <2>2 DEF x
<1>7. HourOf(t) = e
  BY <1>6 DEF HourOf, HalfHours
<1>8. Day * q \in Int
  BY <1>1, <1>2
<1>9. Day * q <= t /\ t < Day * q + Day /\ (t = Day * q => r = 0)
  BY <1>1, <1>2, <1>8
<1> QED BY <1>2, <1>3, <1>5, <1>7, <1>9 DEF q, Hours, HalfHours

LEMMA DaysAgo ==
  ASSUME NEW t \in Int, NEW k \in Nat
  PROVE  DayOf(t - k * Day) = DayOf(t) - k /\ HourOf(t - k * Day) = HourOf(t)
<1> DEFINE u == t - k * Day
           q == DayOf(t)
           h == HourOf(t)
<1>1. HoursPerDay \in Nat \ {0} /\ Day \in Nat \ {0} /\ Day = HoursPerDay * 2
  BY CalendarAssumption DEF Day, HalfHours
<1>2. /\ q \in Int /\ h \in 0 .. HoursPerDay - 1 /\ t \div 2 = HoursPerDay * q + h
      /\ Day * q <= t /\ t < Day * q + Day
  BY HoursOfDays DEF Hours, HalfHours
<1> HIDE DEF q, h
<1>3. u \in Int /\ k * Day \in Int /\ Day * (q - k) = Day * q - k * Day /\ Day * q \in Int
  BY <1>1, <1>2
<1>4. DayOf(u) = q - k
  <2> DEFINE r == u - Day * (q - k)
  <2>1. Day * (q - k) \in Int
    BY <1>1, <1>2
  <2>2. r \in 0 .. Day - 1 /\ u = Day * (q - k) + r
    BY <1>1, <1>2, <1>3, <2>1
  <2> HIDE DEF r, u
  <2>3. q - k \in Int
    BY <1>2
  <2> QED BY <1>1, <1>3, <2>2, <2>3, DivisionIsUnique DEF DayOf
<1>5. HourOf(u) = h
  <2>1. u \div 2 = HoursPerDay * (q - k) + h
    <3> DEFINE m == k * HoursPerDay
               hq == HoursPerDay * q
    <3>1. k * Day = 2 * m /\ m \in Int /\ HoursPerDay * (q - k) = hq - m /\ hq \in Int
      BY <1>1, <1>2
    <3> HIDE DEF m, hq
    <3>2. (t - 2 * m) \div 2 = (t \div 2) - m
      BY <3>1
    <3>3. t \div 2 = hq + h /\ h \in Int
      BY <1>2 DEF hq
    <3> QED BY <3>1, <3>2, <3>3
  <2> HIDE DEF u
  <2>2. q - k \in Int /\ u \div 2 \in Int
    BY <1>2, <1>3
  <2>3. (u \div 2) % HoursPerDay = h
    BY <1>1, <1>2, <2>1, <2>2, DivisionIsUnique, ZenonT(60)
  <2> QED BY <2>3 DEF HourOf, HalfHours
<1> QED BY <1>4, <1>5 DEF u, q, h

LEMMA RainOfHours ==
  ASSUME NEW doc \in RainRecords, NEW S \in SUBSET Hours
  PROVE  /\ Sum(doc.perHour, S) \in Nat /\ RainOf(doc) \in Nat
         /\ Sum(doc.perHour, S) <= RainOf(doc)
         /\ \A h \in Hours : doc.perHour[h] \in Nat /\ doc.perHour[h] <= RainOf(doc)
<1> DEFINE f == doc.perHour
<1>1. IsFiniteSet(Hours)
  BY CalendarAssumption, FS_Interval DEF Hours
<1>2. \A h \in Hours : f[h] \in Nat
  BY CalendarAssumption, RainOfRecord
<1>3. RainOf(doc) = SumFunctionOnSet(f, Hours)
  <2>1. {k \in Hours : k >= 0} = Hours
    BY CalendarAssumption DEF Hours
  <2> QED BY <2>1, RainOfRecord DEF RainFrom, Sum
<1> HIDE DEF f
<1>4. IsFiniteSet(S) /\ \A h \in S : f[h] \in Nat
  BY <1>1, <1>2, FS_Subset
<1>5. SumFunctionOnSet(f, S) \in Nat /\ SumFunctionOnSet(f, Hours) \in Nat
  BY <1>1, <1>2, <1>4, SumIsNat
<1>6. SumFunctionOnSet(f, S) <= SumFunctionOnSet(f, Hours)
  BY <1>1, <1>2, SumOfPart
<1>7. ASSUME NEW h \in Hours PROVE f[h] <= SumFunctionOnSet(f, Hours)
  <2>1. SumFunctionOnSet(f, Hours) = f[h] + SumFunctionOnSet(f, Hours \ {h})
    <3>1. \A y \in Hours : f[y] \in Int
      BY <1>2
    <3> QED BY <1>1, <3>1, SumTakes
  <2>2. SumFunctionOnSet(f, Hours \ {h}) \in Nat
    <3>1. IsFiniteSet(Hours \ {h}) /\ \A y \in Hours \ {h} : f[y] \in Nat
      BY <1>1, <1>2, FS_RemoveElement
    <3> QED BY <3>1, SumIsNat
  <2>3. f[h] \in Nat
    BY <1>2
  <2> QED BY <2>1, <2>2, <2>3
<1> QED BY <1>2, <1>3, <1>5, <1>6, <1>7 DEF Sum, f

(***************************************************************************)
(* The rain of a document since a moment: none of an earlier day's, all of *)
(* a later day's, and the hours from its own on of the moment's day.       *)
(***************************************************************************)
RainOfDocSince(doc, t) ==
    Sum(doc.perHour, {h \in Hours : doc.day * HoursPerDay + h >= t \div HalfHours})

LEMMA RainSinceOfDays ==
  ASSUME NEW doc \in RainRecords, NEW t \in Int
  PROVE  /\ doc.day < DayOf(t) => RainOfDocSince(doc, t) = 0 /\ DocDate(doc) < t
         /\ doc.day = DayOf(t) => /\ RainOfDocSince(doc, t) = RainFrom(doc, HourOf(t))
                                  /\ DocDate(doc) >= t => RainOfDocSince(doc, t) = RainOf(doc)
         /\ doc.day > DayOf(t) => RainOfDocSince(doc, t) = RainOf(doc) /\ DocDate(doc) >= t
<1> DEFINE H == HoursPerDay
           d == doc.day
           q == DayOf(t)
           e == HourOf(t)
           c == t \div HalfHours
           Since == {h \in Hours : d * H + h >= c}
<1>1. H \in Nat \ {0} /\ Day \in Nat \ {0} /\ Day = H * 2 /\ d \in Int
  BY CalendarAssumption, RainOfRecord DEF Day, HalfHours
<1>2. /\ q \in Int /\ e \in 0 .. H - 1 /\ c = H * q + e
      /\ Day * q <= t /\ t < Day * q + Day /\ (t = Day * q => e = 0)
  BY HoursOfDays DEF Hours
<1>3. Hours = 0 .. H - 1
  BY DEF Hours
<1>4. DocDate(doc) = d * Day /\ RainOfDocSince(doc, t) = Sum(doc.perHour, Since)
  BY DEF DocDate, RainOfDocSince
<1>5. H * q \in Int /\ H * d \in Int /\ d * H = H * d /\ Day * q \in Int /\ Day * d \in Int
      /\ d * Day = Day * d
  <2> HIDE DEF q, e, c, H, d
  <2>1. H \in Int /\ d \in Int /\ q \in Int /\ Day \in Int
    BY <1>1, <1>2
  <2>2. H * q \in Int /\ H * d \in Int /\ Day * q \in Int /\ Day * d \in Int
    BY <2>1
  <2>3. d * H = H * d /\ d * Day = Day * d
    BY <2>1
  <2> QED BY <2>2, <2>3
<1> HIDE DEF q, e, c, H, d
<1>6. CASE d < q
  <2>1. H * d + H <= H * q /\ Day * d + Day <= Day * q
    BY <1>1, <1>2, <1>6, ProductsAreApart
  <2>2. Since = {}
    BY <1>1, <1>2, <1>3, <1>5, <2>1
  <2>3. Sum(doc.perHour, Since) = 0
    BY <2>2, SumEmpty DEF Sum
  <2>4. DocDate(doc) < t
    BY <1>1, <1>2, <1>4, <1>5, <2>1
  <2> QED BY <1>1, <1>2, <1>4, <1>6, <2>3, <2>4 DEF q, d
<1>7. CASE d = q
  <2>1. Since = {h \in Hours : h >= e}
    BY <1>1, <1>2, <1>3, <1>5, <1>7
  <2>2. RainOfDocSince(doc, t) = RainFrom(doc, e)
    BY <1>4, <2>1 DEF RainFrom
  <2>3. DocDate(doc) >= t => e = 0
    BY <1>2, <1>4, <1>5, <1>7
  <2>4. e = 0 => RainFrom(doc, e) = RainOf(doc)
    BY RainOfRecord
  <2>5. ~(d < q) /\ ~(d > q)
    BY <1>1, <1>2, <1>7
  <2>6. DocDate(doc) >= t => RainOfDocSince(doc, t) = RainOf(doc)
    BY <2>2, <2>3, <2>4
  <2> QED BY <1>7, <2>2, <2>5, <2>6 DEF q, d, e
<1>8. CASE d > q
  <2>1. H * q + H <= H * d /\ Day * q + Day <= Day * d
    BY <1>1, <1>2, <1>8, ProductsAreApart
  <2>2. Since = {h \in Hours : h >= 0}
    BY <1>1, <1>2, <1>3, <1>5, <2>1
  <2>3. Sum(doc.perHour, Since) = RainOf(doc)
    BY <2>2, RainOfRecord DEF RainFrom
  <2>4. DocDate(doc) >= t
    BY ONLY t \in Int, <1>1, <1>2, <1>4, <1>5, <2>1
  <2> QED BY <1>1, <1>2, <1>4, <1>8, <2>3, <2>4 DEF q, d
<1> QED BY <1>1, <1>2, <1>6, <1>7, <1>8

(***************************************************************************)
(* The documents that match a request, and what each adds to the sums.     *)
(***************************************************************************)
MatchedPlaces(docs, now) == {i \in DOMAIN docs : docs[i].day >= DayOf(now - Long)}

HourParts(records, now) ==
    [i \in DOMAIN records |->
        IF records[i].day = DayOf(now) THEN records[i].perHour[HourOf(now)] ELSE 0]

DayParts(records, now) ==
    [i \in DOMAIN records |->
        IF SecondToLast(records, i) /\ DocDate(records[i]) < now - Day
        THEN RainFrom(records[i], HourOf(now - Day))
        ELSE IF DocDate(records[i]) >= now - Day THEN RainOf(records[i]) ELSE 0]

DaysParts(records, now) ==
    [i \in DOMAIN records |->
        IF i = 1 /\ DocDate(records[i]) < now - Long
        THEN RainFrom(records[i], HourOf(now - Long))
        ELSE RainOf(records[i])]

LEMMA CollectionsAreRecords ==
  ASSUME NEW docs \in RainCollections, Accumulated(docs)
  PROVE  \E n \in Nat : docs \in [1 .. n -> RainRecords] /\ \A i \in 1 .. n : docs[i].day \in RainDays
<1> DEFINE Doc(day, hours, silent) ==
             [day |-> day, perHour |-> hours, acc |-> IF silent THEN Null ELSE Sum(hours, Hours)]
           List(D, order, rain, silent) ==
             [i \in 1 .. Cardinality(D) |-> Doc(order[i], rain[order[i]], order[i] \in silent)]
           OfDays(D) ==
             {List(D, order, rain, silent) :
                order \in SetToSeqs(D), rain \in [D -> [Hours -> Volumes]], silent \in SUBSET D}
<1>0. RainCollections = UNION {OfDays(D) : D \in SUBSET RainDays \ {{}}}
  BY DEF RainCollections
<1>1. PICK D \in SUBSET RainDays \ {{}} : docs \in OfDays(D)
  <2> HIDE DEF OfDays
  <2> QED BY <1>0
<1> HIDE DEF Doc
<1>2. PICK order \in SetToSeqs(D), rain \in [D -> [Hours -> Volumes]], silent \in SUBSET D :
        docs = [i \in 1 .. Cardinality(D) |-> Doc(order[i], rain[order[i]], order[i] \in silent)]
  <2> HIDE DEF List
  <2>1. PICK order \in SetToSeqs(D), rain \in [D -> [Hours -> Volumes]], silent \in SUBSET D :
          docs = List(D, order, rain, silent)
    BY ONLY <1>1
  <2>2. docs = [i \in 1 .. Cardinality(D) |-> Doc(order[i], rain[order[i]], order[i] \in silent)]
    BY ONLY <2>1 DEF List
  <2> QED BY ONLY <2>2, order \in SetToSeqs(D), rain \in [D -> [Hours -> Volumes]], silent \in SUBSET D
<1>3. LongDays \in Nat /\ RainDays = 0 .. LongDays /\ D \subseteq RainDays
  BY CalendarAssumption DEF RainDays
<1>4. IsFiniteSet(D) /\ Cardinality(D) \in Nat
  <2>1. IsFiniteSet(0 .. LongDays) /\ D \in SUBSET (0 .. LongDays)
    BY ONLY <1>3, FS_Interval
  <2> QED BY ONLY <2>1, FS_Subset, FS_CardinalityType
<1>5. \A i \in 1 .. Cardinality(D) : order[i] \in D
  BY ONLY order \in SetToSeqs(D) DEF SetToSeqs
<1>6. DOMAIN docs = 1 .. Cardinality(D)
  BY ONLY <1>2
<1>7. \A i \in 1 .. Cardinality(D) : docs[i] \in RainRecords /\ docs[i].day \in RainDays
  <2> SUFFICES ASSUME NEW i \in 1 .. Cardinality(D)
               PROVE  docs[i] \in RainRecords /\ docs[i].day \in RainDays
    OBVIOUS
  <2> DEFINE d == order[i]
             r == rain[order[i]]
             k == order[i] \in silent
  <2>1. docs[i] = Doc(d, r, k)
    BY ONLY <1>2, i \in 1 .. Cardinality(D)
  <2>2. d \in D /\ r \in [Hours -> Volumes]
    BY ONLY <1>5, i \in 1 .. Cardinality(D), rain \in [D -> [Hours -> Volumes]]
  <2>3. d \in RainDays
    BY ONLY <1>3, <2>2, Zenon
  <2>4. \A day \in RainDays : day \in Int
    BY ONLY <1>3
  <2>5. docs[i].acc # Null /\ docs[i].acc = RainFrom(docs[i], 0)
    BY <1>6 DEF Accumulated
  <2> HIDE DEF d, r, k
  <2>6. docs[i].day = d /\ docs[i].perHour = r
    BY ONLY <2>1 DEF Doc
  <2>7. docs[i].acc \in Int
    <3>1. RainFrom(docs[i], 0) = SumFunctionOnSet(r, {h \in Hours : h >= 0})
      BY ONLY <2>6 DEF RainFrom, Sum
    <3>2. IsFiniteSet({h \in Hours : h >= 0}) /\ \A h \in Hours : r[h] \in Int
      <4>1. IsFiniteSet(Hours) /\ {h \in Hours : h >= 0} \in SUBSET Hours
        BY CalendarAssumption, FS_Interval DEF Hours
      <4>2. \A h \in Hours : r[h] \in Int
        <5>1. Volumes \subseteq Int
          BY CalendarAssumption
        <5> QED BY ONLY <2>2, <5>1
      <4> QED BY <4>1, <4>2, FS_Subset
    <3>3. SumFunctionOnSet(r, {h \in Hours : h >= 0}) \in Int
      BY <3>2, SumIsInt
    <3> QED BY <2>5, <3>1, <3>3
  <2>8. docs[i] = [day |-> d, perHour |-> r, acc |-> docs[i].acc]
    BY ONLY <2>1 DEF Doc
  <2>9. d \in Int
    BY <2>3, <2>4
  <2>10. docs[i] \in [day : Int, perHour : [Hours -> Volumes], acc : Int]
    BY ONLY <2>2, <2>7, <2>8, <2>9
  <2> QED BY <2>3, <2>5, <2>6, <2>10 DEF RainRecords
<1>8. docs \in [1 .. Cardinality(D) -> RainRecords]
  <2>1. docs = [i \in 1 .. Cardinality(D) |-> docs[i]]
    BY ONLY <1>2
  <2> QED BY ONLY <1>7, <2>1
<1> QED BY <1>4, <1>7, <1>8

LEMMA MatchedRecords ==
  ASSUME NEW n \in Nat, NEW docs \in [1 .. n -> RainRecords], NEW now \in Int
  PROVE  LET P == MatchedPlaces(docs, now)
             records == Matched(docs, now)
             m == Cardinality(P)
         IN  /\ P \in SUBSET Int /\ IsFiniteSet(P) /\ m \in Nat /\ P \subseteq 1 .. n
             /\ Lists(Ascending(P), P)
             /\ \A i, j \in 1 .. m : i < j => Ascending(P)[i] < Ascending(P)[j]
             /\ records \in [1 .. m -> RainRecords] /\ DOMAIN records = 1 .. m /\ Len(records) = m
             /\ \A j \in 1 .. m : records[j] = docs[Ascending(P)[j]] /\ Ascending(P)[j] \in P
<1> DEFINE P == MatchedPlaces(docs, now)
           records == Matched(docs, now)
           m == Cardinality(P)
           places == Ascending(P)
<1>1. P \in SUBSET Int /\ P \subseteq 1 .. n
  BY DEF MatchedPlaces
<1>2. IsFiniteSet(P) /\ m \in Nat
  <2>1. IsFiniteSet(1 .. n) /\ P \in SUBSET (1 .. n)
    BY <1>1, FS_Interval
  <2> HIDE DEF P
  <2> QED BY <2>1, FS_Subset, FS_CardinalityType
<1>3. Lists(places, P) /\ \A i, j \in 1 .. m : i < j => places[i] < places[j]
  <2> HIDE DEF P
  <2> QED BY <1>1, <1>2, AscendingLists
<1>4. DOMAIN places = 1 .. m /\ \A j \in 1 .. m : places[j] \in P
  <2> HIDE DEF P, places
  <2> QED BY <1>3 DEF Lists
<1>5. records = [j \in 1 .. m |-> docs[places[j]]]
  <2>1. records = [j \in DOMAIN places |-> docs[places[j]]]
    BY DEF Matched, MatchedPlaces
  <2> HIDE DEF P, places, records
  <2> QED BY <1>4, <2>1
<1>6. \A j \in 1 .. m : records[j] = docs[places[j]] /\ records[j] \in RainRecords
  <2> HIDE DEF P, places, records
  <2> QED BY <1>1, <1>4, <1>5
<1>7. records \in [1 .. m -> RainRecords] /\ DOMAIN records = 1 .. m
  <2> HIDE DEF P, places, records
  <2> QED BY <1>5, <1>6
<1>8. Len(records) = m
  <2> HIDE DEF P, places, records
  <2>1. records \in Seq(RainRecords)
    BY <1>2, <1>7, SeqDef
  <2>2. DOMAIN records = 1 .. Len(records) /\ Len(records) \in Nat
    BY <2>1, LenProperties
  <2> QED BY <1>2, <1>7, <2>2
<1> QED BY <1>1, <1>2, <1>3, <1>4, <1>6, <1>7, <1>8

(***************************************************************************)
(* Documents of the same moment: the parts of the windows, one by one.     *)
(***************************************************************************)
LEMMA CutoffsAreDays ==
  ASSUME NEW now \in Int
  PROVE  /\ now - Day \in Int /\ now - Long \in Int
         /\ DayOf(now) \in Int /\ HourOf(now) \in Hours
         /\ DayOf(now - Day) = DayOf(now) - 1 /\ HourOf(now - Day) = HourOf(now)
         /\ DayOf(now - Long) = DayOf(now) - LongDays /\ HourOf(now - Long) = HourOf(now)
<1>1. HoursPerDay \in Nat \ {0} /\ Day = HoursPerDay * 2 /\ LongDays \in Nat \ {0} /\ Long = LongDays * Day
  BY CalendarAssumption DEF Day, HalfHours, Long
<1>2. Day \in Int /\ Long \in Int
  BY <1>1
<1>3. DayOf(now - 1 * Day) = DayOf(now) - 1 /\ HourOf(now - 1 * Day) = HourOf(now)
  BY DaysAgo
<1>4. 1 * Day = Day
  BY <1>2
<1>5. DayOf(now - LongDays * Day) = DayOf(now) - LongDays /\ HourOf(now - LongDays * Day) = HourOf(now)
  <2>1. LongDays \in Nat
    BY <1>1
  <2> QED BY <2>1, DaysAgo
<1>6. DayOf(now) \in Int /\ HourOf(now) \in Hours
  BY HoursOfDays
<1> QED BY <1>1, <1>2, <1>3, <1>4, <1>5, <1>6

LEMMA PartsNest ==
  ASSUME NEW m \in Nat, NEW records \in [1 .. m -> RainRecords], NEW now \in Int, NEW i \in 1 .. m
  PROVE  /\ HourParts(records, now)[i] \in Nat /\ DayParts(records, now)[i] \in Nat
         /\ DaysParts(records, now)[i] \in Nat
         /\ HourParts(records, now)[i] <= DayParts(records, now)[i]
         /\ DayParts(records, now)[i] <= DaysParts(records, now)[i]
<1> DEFINE doc == records[i]
           yesterday == now - Day
           cutoff == now - Long
           e == HourOf(now)
<1>1. doc \in RainRecords /\ doc.day \in Int
  BY RainOfRecord
<1>2. /\ yesterday \in Int /\ cutoff \in Int /\ DayOf(now) \in Int /\ e \in Hours
      /\ DayOf(yesterday) = DayOf(now) - 1 /\ HourOf(yesterday) = e
      /\ DayOf(cutoff) = DayOf(now) - LongDays /\ HourOf(cutoff) = e
      /\ LongDays \in Nat \ {0}
  <2>1. LongDays \in Nat \ {0}
    BY CalendarAssumption
  <2> QED BY ONLY now \in Int, <2>1, CutoffsAreDays
<1>3. /\ RainOf(doc) \in Nat /\ RainFrom(doc, e) \in Nat /\ RainFrom(doc, e) <= RainOf(doc)
      /\ doc.perHour[e] \in Nat /\ doc.perHour[e] <= RainOf(doc)
  <2>1. {k \in Hours : k >= e} \in SUBSET Hours
    OBVIOUS
  <2> QED BY <1>1, <1>2, <2>1, RainOfHours DEF RainFrom
<1>4. /\ doc.day < DayOf(yesterday) => DocDate(doc) < yesterday
      /\ doc.day > DayOf(yesterday) => DocDate(doc) >= yesterday
      /\ doc.day < DayOf(cutoff) => DocDate(doc) < cutoff
      /\ doc.day > DayOf(cutoff) => DocDate(doc) >= cutoff
  BY <1>1, <1>2, RainSinceOfDays
<1>5. DOMAIN records = 1 .. m
  OBVIOUS
<1>6. HourParts(records, now)[i] = IF doc.day = DayOf(now) THEN doc.perHour[e] ELSE 0
  BY <1>5 DEF HourParts
<1>7. DayParts(records, now)[i] =
        IF SecondToLast(records, i) /\ DocDate(doc) < yesterday THEN RainFrom(doc, e)
        ELSE IF DocDate(doc) >= yesterday THEN RainOf(doc) ELSE 0
  BY <1>2, <1>5 DEF DayParts
<1>8. DaysParts(records, now)[i] = IF i = 1 /\ DocDate(doc) < cutoff THEN RainFrom(doc, e) ELSE RainOf(doc)
  BY <1>2, <1>5 DEF DaysParts
<1>9. DocDate(doc) \in Int /\ cutoff <= yesterday
  <2>1. HoursPerDay \in Nat \ {0} /\ Day = HoursPerDay * 2 /\ Long = LongDays * Day
    BY CalendarAssumption DEF Day, HalfHours, Long
  <2>2. Day \in Nat /\ Long >= Day /\ Long \in Int
    <3>1. LongDays \in Nat \ {0} /\ Day \in Nat
      BY <1>2, <2>1
    <3>2. LongDays * Day >= Day /\ LongDays * Day \in Int
      BY ONLY <3>1
    <3> QED BY ONLY <2>1, <3>1, <3>2
  <2>3. doc.day * Day \in Int
    BY <1>1, <2>2
  <2> QED BY <2>2, <2>3 DEF DocDate
<1> HIDE DEF doc, yesterday, cutoff, e
<1>10. HourParts(records, now)[i] <= DayParts(records, now)[i]
  <2>1. CASE doc.day = DayOf(now)
    <3>1. DocDate(doc) >= yesterday
      BY <1>1, <1>2, <1>4, <2>1
    <3>2. DayParts(records, now)[i] = RainOf(doc)
      BY <1>2, <1>7, <1>9, <3>1
    <3> QED BY <1>3, <1>6, <2>1, <3>2
  <2>2. CASE doc.day # DayOf(now)
    BY <1>3, <1>6, <1>7, <2>2
  <2> QED BY <2>1, <2>2
<1>11. DayParts(records, now)[i] <= DaysParts(records, now)[i]
  <2>1. CASE i = 1 /\ DocDate(doc) < cutoff
    <3>1. ~(DocDate(doc) >= yesterday)
      BY <1>2, <1>9, <2>1
    <3> QED BY <1>3, <1>7, <1>8, <2>1, <3>1
  <2>2. CASE ~(i = 1 /\ DocDate(doc) < cutoff)
    BY <1>3, <1>7, <1>8, <2>2
  <2> QED BY <2>1, <2>2
<1> QED BY <1>3, <1>6, <1>7, <1>8, <1>10, <1>11

(***************************************************************************)
(* The rain of the last hour is part of the day's, and the day's of that   *)
(* of the long window, of whatever days and in whatever order, when each   *)
(* document holds the sum of its hours.                                    *)
(***************************************************************************)
THEOREM RainNests == ReportsSpec => []RainWindowsNest
<1>1. ASSUME AnsweredAsAsked PROVE RainWindowsNest
  <2> SUFFICES ASSUME report.kind = "rain", Accumulated(report.read.docs) PROVE RainWindowsNest
    BY DEF RainWindowsNest
  <2> DEFINE docs == report.read.docs
             now == report.read.now
             records == Matched(docs, now)
             m == Cardinality(MatchedPlaces(docs, now))
  <2>1. docs \in RainCollections /\ now \in Int /\ report.answer = RainInsights(docs, now)
    <3>1. AskedRain
      BY <1>1 DEF AnsweredAsAsked
    <3> QED BY <3>1 DEF AskedRain
  <2>2. PICK n \in Nat : docs \in [1 .. n -> RainRecords]
    BY <2>1, CollectionsAreRecords
  <2> HIDE DEF docs, now
  <2>3. m \in Nat /\ records \in [1 .. m -> RainRecords] /\ DOMAIN records = 1 .. m
    BY <2>1, <2>2, MatchedRecords
  <2>4. /\ report.answer.last96h = ToFixed(Sum(DaysParts(records, now), 1 .. m))
        /\ report.answer.last24h = ToFixed(Sum(DayParts(records, now), 1 .. m))
        /\ report.answer.last1h = ToFixed(Sum(HourParts(records, now), 1 .. m))
    <3>1. /\ report.answer.last96h = ToFixed(LastDays(records, now))
          /\ report.answer.last24h = ToFixed(LastDay(records, now))
          /\ report.answer.last1h = ToFixed(LastHour(records, now))
      BY <2>1 DEF RainInsights
    <3> HIDE DEF records, m
    <3> QED BY <2>3, <3>1 DEF LastDays, LastDay, LastHour, DaysParts, DayParts, HourParts
  <2> HIDE DEF records, m
  <2>5. IsFiniteSet(1 .. m)
    BY <2>3, FS_Interval
  <2>6. \A i \in 1 .. m :
           /\ HourParts(records, now)[i] \in Nat /\ DayParts(records, now)[i] \in Nat
           /\ DaysParts(records, now)[i] \in Nat
           /\ HourParts(records, now)[i] <= DayParts(records, now)[i]
           /\ DayParts(records, now)[i] <= DaysParts(records, now)[i]
    <3>1. SUFFICES ASSUME NEW i \in 1 .. m
                   PROVE  /\ HourParts(records, now)[i] \in Nat /\ DayParts(records, now)[i] \in Nat
                          /\ DaysParts(records, now)[i] \in Nat
                          /\ HourParts(records, now)[i] <= DayParts(records, now)[i]
                          /\ DayParts(records, now)[i] <= DaysParts(records, now)[i]
      OBVIOUS
    <3> QED BY <2>1, <2>3, PartsNest
  <2>7. Sum(HourParts(records, now), 1 .. m) <= Sum(DayParts(records, now), 1 .. m)
    <3>1. \A i \in 1 .. m : /\ HourParts(records, now)[i] \in Int /\ DayParts(records, now)[i] \in Int
                            /\ HourParts(records, now)[i] <= DayParts(records, now)[i]
      BY <2>6
    <3> QED BY <2>5, <3>1, SumGrows DEF Sum
  <2>8. Sum(DayParts(records, now), 1 .. m) <= Sum(DaysParts(records, now), 1 .. m)
    <3>1. \A i \in 1 .. m : /\ DayParts(records, now)[i] \in Int /\ DaysParts(records, now)[i] \in Int
                            /\ DayParts(records, now)[i] <= DaysParts(records, now)[i]
      BY <2>6
    <3> QED BY <2>5, <3>1, SumGrows DEF Sum
  <2>9. /\ Sum(HourParts(records, now), 1 .. m) \in Nat /\ Sum(DayParts(records, now), 1 .. m) \in Nat
        /\ Sum(DaysParts(records, now), 1 .. m) \in Nat
    BY <2>5, <2>6, SumIsNat DEF Sum
  <2>10. /\ report.answer.last1h <= report.answer.last24h
         /\ report.answer.last24h <= report.answer.last96h
    BY <2>4, <2>7, <2>8, <2>9, ToFixedGrows
  <2> QED BY <2>10 DEF RainWindowsNest
<1> QED BY <1>1, ReportsInductive, PTL

(***************************************************************************)
(* The rain since a moment that is not before the day of the long cutoff   *)
(* is that of the documents that match.                                    *)
(***************************************************************************)
SinceParts(records, t) == [i \in DOMAIN records |-> RainOfDocSince(records[i], t)]

LEMMA SinceIsOfMatched ==
  ASSUME NEW n \in Nat, NEW docs \in [1 .. n -> RainRecords], NEW now \in Int, NEW t \in Int,
         DayOf(t) >= DayOf(now - Long)
  PROVE  RainSince(docs, t) = Sum(SinceParts(Matched(docs, now), t), DOMAIN Matched(docs, now))
<1> DEFINE P == MatchedPlaces(docs, now)
           records == Matched(docs, now)
           m == Cardinality(P)
           places == Ascending(P)
           f == SinceParts(docs, t)
           g == SinceParts(records, t)
<1>1. DOMAIN docs = 1 .. n /\ IsFiniteSet(1 .. n)
  BY FS_Interval
<1>2. RainSince(docs, t) = Sum(f, 1 .. n)
  BY <1>1 DEF RainSince, SinceParts, RainOfDocSince
<1>3. /\ P \in SUBSET (1 .. n) /\ IsFiniteSet(P) /\ m \in Nat
      /\ Lists(places, P)
      /\ DOMAIN records = 1 .. m
      /\ \A j \in 1 .. m : records[j] = docs[places[j]] /\ places[j] \in P
  BY MatchedRecords
<1>4. \A i \in 1 .. n : f[i] = RainOfDocSince(docs[i], t) /\ f[i] \in Int
  <2>1. \A i \in 1 .. n : f[i] = RainOfDocSince(docs[i], t)
    BY <1>1 DEF SinceParts
  <2>2. ASSUME NEW i \in 1 .. n PROVE RainOfDocSince(docs[i], t) \in Nat
    <3>1. {h \in Hours : docs[i].day * HoursPerDay + h >= t \div HalfHours} \in SUBSET Hours
      OBVIOUS
    <3>2. docs[i] \in RainRecords
      OBVIOUS
    <3> QED BY <3>1, <3>2, RainOfHours DEF RainOfDocSince
  <2> HIDE DEF f
  <2> QED BY <2>1, <2>2
<1>5. \A i \in (1 .. n) \ P : f[i] = 0
  <2>1. SUFFICES ASSUME NEW i \in (1 .. n) \ P PROVE f[i] = 0
    OBVIOUS
  <2>2. ~(docs[i].day >= DayOf(now - Long)) /\ docs[i] \in RainRecords
    BY <1>1 DEF MatchedPlaces
  <2>3. docs[i].day \in Int /\ DayOf(t) \in Int /\ DayOf(now - Long) \in Int
    BY <2>2, HoursOfDays, CutoffsAreDays, CalendarAssumption DEF RainRecords
  <2>4. docs[i].day < DayOf(t)
    BY <2>2, <2>3
  <2>5. RainOfDocSince(docs[i], t) = 0
    BY <2>2, <2>4, RainSinceOfDays
  <2> HIDE DEF P, f
  <2> QED BY <1>4, <2>5
<1>6. SumFunctionOnSet(f, 1 .. n) = SumFunctionOnSet(f, P)
  <2> HIDE DEF P, f
  <2> QED BY <1>1, <1>3, <1>4, <1>5, SumWithoutZeros
<1>7. SumFunctionOnSet([j \in 1 .. m |-> f[places[j]]], 1 .. m) = SumFunctionOnSet(f, P)
  <2> HIDE DEF P, f, places
  <2>1. \A i \in P : f[i] \in Int
    BY <1>3, <1>4
  <2> QED BY <1>3, <2>1, SumOfList
<1>8. g = [j \in 1 .. m |-> f[places[j]]]
  <2>1. g = [j \in 1 .. m |-> RainOfDocSince(records[j], t)]
    BY <1>3 DEF SinceParts
  <2> HIDE DEF P, f, places, records, g, m
  <2>2. \A j \in 1 .. m : f[places[j]] = RainOfDocSince(records[j], t)
    BY <1>3, <1>4
  <2> QED BY <2>1, <2>2
<1> HIDE DEF P, f, places, records, g, m
<1>9. RainSince(docs, t) = SumFunctionOnSet(g, 1 .. m)
  BY <1>2, <1>6, <1>7, <1>8 DEF Sum
<1> QED BY <1>3, <1>9 DEF Sum, g, records

(***************************************************************************)
(* What is counted of each document, when they come in the order of days,  *)
(* is the rain since the cutoff.                                           *)
(***************************************************************************)
InOrderOfDays(docs) == \A i, j \in DOMAIN docs : i < j => docs[i].day < docs[j].day

LEMMA DaysPartsAreExact ==
  ASSUME NEW m \in Nat, NEW records \in [1 .. m -> RainRecords], NEW now \in Int,
         InOrderOfDays(records), \A i \in 1 .. m : records[i].day >= DayOf(now - Long), NEW i \in 1 .. m
  PROVE  DaysParts(records, now)[i] = RainOfDocSince(records[i], now - Long)
<1> DEFINE doc == records[i]
           cutoff == now - Long
<1>1. doc \in RainRecords /\ doc.day \in Int /\ records[1].day \in Int /\ DOMAIN records = 1 .. m
  BY DEF RainRecords
<1>2. cutoff \in Int /\ DayOf(cutoff) \in Int
  <2>1. cutoff \in Int
    BY CutoffsAreDays
  <2> QED BY <2>1, HoursOfDays
<1>3. /\ doc.day = DayOf(cutoff) => /\ RainOfDocSince(doc, cutoff) = RainFrom(doc, HourOf(cutoff))
                                    /\ DocDate(doc) >= cutoff => RainOfDocSince(doc, cutoff) = RainOf(doc)
      /\ doc.day > DayOf(cutoff) => RainOfDocSince(doc, cutoff) = RainOf(doc) /\ DocDate(doc) >= cutoff
  BY <1>1, <1>2, RainSinceOfDays
<1>4. DocDate(doc) \in Int
  <2>1. Day \in Int
    BY CalendarAssumption DEF Day, HalfHours
  <2>2. doc.day * Day \in Int
    BY <1>1, <2>1
  <2> QED BY <2>2 DEF DocDate
<1>5. DaysParts(records, now)[i] = IF i = 1 /\ DocDate(doc) < cutoff THEN RainFrom(doc, HourOf(cutoff))
                                   ELSE RainOf(doc)
  BY <1>1 DEF DaysParts
<1>6. doc.day >= DayOf(cutoff) /\ (i # 1 => doc.day > DayOf(cutoff))
  <2>1. 1 \in 1 .. m /\ records[1].day >= DayOf(cutoff)
    OBVIOUS
  <2>2. i # 1 => records[1].day < doc.day
    BY <1>1, <2>1 DEF InOrderOfDays
  <2> QED BY <1>1, <1>2, <2>1, <2>2
<1> HIDE DEF doc, cutoff
<1>7. CASE i = 1 /\ DocDate(doc) < cutoff
  <2>1. ~(doc.day > DayOf(cutoff))
    BY <1>2, <1>3, <1>4, <1>7
  <2>2. doc.day = DayOf(cutoff)
    BY <1>1, <1>2, <1>6, <2>1 DEF doc
  <2> QED BY <1>3, <1>5, <1>7, <2>2 DEF doc, cutoff
<1>8. CASE ~(i = 1 /\ DocDate(doc) < cutoff)
  <2>1. DaysParts(records, now)[i] = RainOf(doc)
    BY <1>5, <1>8
  <2>2. CASE doc.day > DayOf(cutoff)
    BY <1>3, <2>1, <2>2 DEF doc, cutoff
  <2>3. CASE doc.day = DayOf(cutoff)
    <3>1. i = 1
      BY <1>1, <1>2, <1>6, <2>3
    <3>2. DocDate(doc) >= cutoff
      BY <1>2, <1>4, <1>8, <3>1
    <3> QED BY <1>3, <2>1, <2>3, <3>2 DEF doc, cutoff
  <2> QED BY <1>1, <1>2, <1>6, <2>2, <2>3
<1> QED BY <1>7, <1>8

LEMMA DayPartsAreExact ==
  ASSUME NEW m \in Nat, NEW records \in [1 .. m -> RainRecords], NEW now \in Int,
         InOrderOfDays(records), \A i \in 1 .. m : records[i].day <= DayOf(now), Len(records) = m,
         NEW a \in 1 .. m, records[a].day = DayOf(now) - 1,
         NEW b \in 1 .. m, records[b].day = DayOf(now), NEW i \in 1 .. m
  PROVE  DayParts(records, now)[i] = RainOfDocSince(records[i], now - Day)
<1> DEFINE doc == records[i]
           yesterday == now - Day
<1>1. doc \in RainRecords /\ DOMAIN records = 1 .. m /\ \A j \in 1 .. m : records[j].day \in Int
  BY DEF RainRecords
<1>2. yesterday \in Int /\ DayOf(now) \in Int /\ DayOf(yesterday) = DayOf(now) - 1
  BY CutoffsAreDays
<1>3. /\ doc.day < DayOf(yesterday) => RainOfDocSince(doc, yesterday) = 0 /\ DocDate(doc) < yesterday
      /\ doc.day = DayOf(yesterday) =>
            /\ RainOfDocSince(doc, yesterday) = RainFrom(doc, HourOf(yesterday))
            /\ DocDate(doc) >= yesterday => RainOfDocSince(doc, yesterday) = RainOf(doc)
      /\ doc.day > DayOf(yesterday) => RainOfDocSince(doc, yesterday) = RainOf(doc)
                                       /\ DocDate(doc) >= yesterday
  BY <1>1, <1>2, RainSinceOfDays
<1>4. DocDate(doc) \in Int
  <2>1. Day \in Int
    BY CalendarAssumption DEF Day, HalfHours
  <2>2. doc.day * Day \in Int
    BY <1>1, <2>1
  <2> QED BY <2>2 DEF DocDate
<1>5. DayParts(records, now)[i] =
        IF i = m - 1 /\ DocDate(doc) < yesterday THEN RainFrom(doc, HourOf(yesterday))
        ELSE IF DocDate(doc) >= yesterday THEN RainOf(doc) ELSE 0
  BY <1>1 DEF DayParts, SecondToLast
<1>6. \A j, k \in 1 .. m : j < k => records[j].day < records[k].day
  BY <1>1 DEF InOrderOfDays
<1>7. b = m /\ a = m - 1
  <2>1. ~(b < m)
    <3>1. m \in 1 .. m
      OBVIOUS
    <3>2. b < m => records[b].day < records[m].day
      BY <1>6, <3>1
    <3> QED BY <1>1, <1>2, <3>1, <3>2
  <2>2. a < b
    <3>1. a = b \/ b < a \/ a < b
      OBVIOUS
    <3>2. b < a => records[b].day < records[a].day
      BY <1>6
    <3> QED BY <1>2, <3>1, <3>2
  <2>3. ~(a < m - 1)
    <3>1. SUFFICES ASSUME a < m - 1 PROVE FALSE
      OBVIOUS
    <3>2. m - 1 \in 1 .. m /\ m - 1 < b
      BY <2>1, <3>1
    <3>3. records[a].day < records[m - 1].day /\ records[m - 1].day < records[b].day
      BY <1>6, <3>1, <3>2
    <3> QED BY <1>1, <1>2, <3>2, <3>3
  <2> QED BY <2>1, <2>2, <2>3
<1>8. CASE i = m
  <2>1. doc.day > DayOf(yesterday)
    BY <1>2, <1>7, <1>8
  <2> HIDE DEF doc, yesterday
  <2>2. DocDate(doc) >= yesterday /\ RainOfDocSince(doc, yesterday) = RainOf(doc)
    BY <1>3, <2>1
  <2>3. DayParts(records, now)[i] = RainOf(doc)
    BY <1>2, <1>4, <1>5, <2>2
  <2> QED BY <2>2, <2>3 DEF doc, yesterday
<1>9. CASE i = m - 1
  <2>1. doc.day = DayOf(yesterday)
    BY <1>2, <1>7, <1>9
  <2> HIDE DEF doc, yesterday
  <2>2. CASE DocDate(doc) < yesterday
    BY <1>3, <1>5, <1>9, <2>1, <2>2 DEF doc, yesterday
  <2>3. CASE ~(DocDate(doc) < yesterday)
    <3>1. DocDate(doc) >= yesterday
      BY <1>2, <1>4, <2>3
    <3> QED BY <1>3, <1>5, <2>1, <2>3, <3>1 DEF doc, yesterday
  <2> QED BY <2>2, <2>3
<1>10. CASE i < m - 1
  <2>1. doc.day < DayOf(yesterday)
    <3>1. doc.day < records[a].day
      BY <1>6, <1>7, <1>10
    <3> QED BY <1>2, <3>1
  <2> HIDE DEF doc, yesterday
  <2>2. RainOfDocSince(doc, yesterday) = 0 /\ DocDate(doc) < yesterday
    BY <1>3, <2>1
  <2>3. DayParts(records, now)[i] = 0
    BY <1>2, <1>4, <1>5, <1>10, <2>2
  <2> QED BY <2>2, <2>3 DEF doc, yesterday
<1> QED BY <1>8, <1>9, <1>10

LEMMA InsightsAreExact ==
  ASSUME NEW n \in Nat, NEW docs \in [1 .. n -> RainRecords], NEW now \in Int, InOrderOfDays(docs)
  PROVE  /\ RainInsights(docs, now).last96h = ToFixed(RainSince(docs, now - Long))
         /\ /\ \A i \in 1 .. n : docs[i].day <= DayOf(now)
            /\ \E i \in 1 .. n : docs[i].day = DayOf(now)
            /\ \E i \in 1 .. n : docs[i].day = DayOf(now) - 1
            => RainInsights(docs, now).last24h = ToFixed(RainSince(docs, now - Day))
<1> DEFINE P == MatchedPlaces(docs, now)
           records == Matched(docs, now)
           m == Cardinality(P)
           places == Ascending(P)
<1>1. /\ P \in SUBSET (1 .. n) /\ m \in Nat /\ Lists(places, P)
      /\ \A i, j \in 1 .. m : i < j => places[i] < places[j]
      /\ records \in [1 .. m -> RainRecords] /\ DOMAIN records = 1 .. m /\ Len(records) = m
      /\ \A j \in 1 .. m : records[j] = docs[places[j]] /\ places[j] \in P
  BY MatchedRecords
<1>2. \A i \in P : docs[i].day >= DayOf(now - Long)
  BY DEF MatchedPlaces
<1>3. /\ now - Day \in Int /\ now - Long \in Int /\ DayOf(now) \in Int
      /\ DayOf(now - Day) = DayOf(now) - 1 /\ DayOf(now - Long) = DayOf(now) - LongDays
      /\ LongDays \in Nat \ {0}
  BY CutoffsAreDays, CalendarAssumption
<1>4. \A i \in 1 .. n : i \notin P => ~(docs[i].day >= DayOf(now - Long))
  BY DEF MatchedPlaces
<1>5. /\ RainInsights(docs, now).last96h = ToFixed(LastDays(records, now))
      /\ RainInsights(docs, now).last24h = ToFixed(LastDay(records, now))
  BY DEF RainInsights
<1>6. /\ RainSince(docs, now - Long) = Sum(SinceParts(records, now - Long), DOMAIN records)
      /\ RainSince(docs, now - Day) = Sum(SinceParts(records, now - Day), DOMAIN records)
  <2>1. DayOf(now - Long) >= DayOf(now - Long) /\ DayOf(now - Day) >= DayOf(now - Long)
    BY <1>3
  <2> QED BY <1>3, <2>1, SinceIsOfMatched
<1> HIDE DEF P, places, records, m
<1>7. InOrderOfDays(records) /\ \A j \in 1 .. m : records[j].day >= DayOf(now - Long)
  <2>1. \A j \in 1 .. m : places[j] \in 1 .. n
    BY <1>1
  <2>2. \A i, j \in 1 .. m : i < j => docs[places[i]].day < docs[places[j]].day
    BY <1>1, <2>1 DEF InOrderOfDays
  <2>3. \A j \in 1 .. m : records[j].day = docs[places[j]].day /\ places[j] \in P
    BY <1>1
  <2>4. \A j \in 1 .. m : records[j].day >= DayOf(now - Long)
    BY <1>2, <2>3
  <2>5. \A i, j \in 1 .. m : i < j => records[i].day < records[j].day
    BY <2>2, <2>3
  <2> QED BY <1>1, <2>4, <2>5 DEF InOrderOfDays
<1>8. LastDays(records, now) = RainSince(docs, now - Long)
  <2>1. \A i \in 1 .. m : DaysParts(records, now)[i] = RainOfDocSince(records[i], now - Long)
    BY <1>1, <1>7, DaysPartsAreExact
  <2>2. DaysParts(records, now) = SinceParts(records, now - Long)
    BY <1>1, <2>1 DEF DaysParts, SinceParts
  <2>3. LastDays(records, now) = Sum(DaysParts(records, now), DOMAIN records)
    BY DEF LastDays, DaysParts
  <2> QED BY <1>6, <2>2, <2>3
<1>9. ASSUME \A i \in 1 .. n : docs[i].day <= DayOf(now),
             \E i \in 1 .. n : docs[i].day = DayOf(now),
             \E i \in 1 .. n : docs[i].day = DayOf(now) - 1
      PROVE  LastDay(records, now) = RainSince(docs, now - Day)
  <2>1. \A i \in 1 .. m : records[i].day <= DayOf(now)
    BY <1>1, <1>9
  <2>2. ASSUME NEW day \in {DayOf(now) - 1, DayOf(now)}, \E i \in 1 .. n : docs[i].day = day
        PROVE  \E j \in 1 .. m : records[j].day = day
    <3>1. PICK i \in 1 .. n : docs[i].day = day
      BY <2>2
    <3>2. i \in P
      BY <1>3, <1>4, <3>1
    <3>3. PICK j \in 1 .. m : places[j] = i
      BY <1>1, <3>2 DEF Lists, m
    <3> QED BY <1>1, <3>1, <3>3
  <2>3. PICK a \in 1 .. m : records[a].day = DayOf(now) - 1
    BY <1>9, <2>2
  <2>4. PICK b \in 1 .. m : records[b].day = DayOf(now)
    BY <1>9, <2>2
  <2>5. \A i \in 1 .. m : DayParts(records, now)[i] = RainOfDocSince(records[i], now - Day)
    BY <1>1, <1>7, <2>1, <2>3, <2>4, DayPartsAreExact, ZenonT(60)
  <2>6. DayParts(records, now) = SinceParts(records, now - Day)
    BY <1>1, <2>5 DEF DayParts, SinceParts
  <2>7. LastDay(records, now) = Sum(DayParts(records, now), DOMAIN records)
    BY DEF LastDay, DayParts
  <2> QED BY <1>6, <2>6, <2>7
<1> QED BY <1>5, <1>8, <1>9

(***************************************************************************)
(* The rain of four days is that of the hours since the cutoff's, rounded  *)
(* once, and that of a day too when there is a document of yesterday and   *)
(* one of today, when they hold the sum of their hours and come in the     *)
(* order of days.                                                          *)
(***************************************************************************)
THEOREM RainExactly == ReportsSpec => []RainIsExact
<1>1. ASSUME AnsweredAsAsked PROVE RainIsExact
  <2> DEFINE docs == report.read.docs
             now == report.read.now
             Has(day) == \E i \in DOMAIN docs : docs[i].day = day
  <2> SUFFICES ASSUME report.kind = "rain", Accumulated(docs), InOrderOfDays(docs)
               PROVE  /\ report.answer.last96h = ToFixed(RainSince(docs, now - Long))
                      /\ Has(DayOf(now)) /\ Has(DayOf(now) - 1) =>
                            report.answer.last24h = ToFixed(RainSince(docs, now - Day))
    BY DEF RainIsExact, InOrderOfDays
  <2>1. docs \in RainCollections /\ now \in Long .. Long + Day - 1
        /\ report.answer = RainInsights(docs, now)
    <3>1. AskedRain
      BY <1>1 DEF AnsweredAsAsked
    <3> QED BY <3>1 DEF AskedRain
  <2>2. PICK n \in Nat : docs \in [1 .. n -> RainRecords] /\ \A i \in 1 .. n : docs[i].day \in RainDays
    BY <2>1, CollectionsAreRecords
  <2> HIDE DEF docs, now
  <2>3. now \in Int /\ DayOf(now) = LongDays
    <3>1. Day \in Nat \ {0} /\ LongDays \in Nat /\ Long = LongDays * Day
      BY CalendarAssumption DEF Day, HalfHours, Long
    <3>2. Long = Day * LongDays /\ Long \in Int
      BY <3>1
    <3>3. now \in Int /\ now - Long \in 0 .. Day - 1 /\ now = Day * LongDays + (now - Long)
      BY <2>1, <3>1, <3>2
    <3> QED BY <3>1, <3>3, DivisionIsUnique DEF DayOf
  <2>4. DOMAIN docs = 1 .. n /\ \A i \in 1 .. n : docs[i].day <= DayOf(now)
    BY <2>2, <2>3, CalendarAssumption DEF RainDays
  <2> QED BY <2>1, <2>2, <2>3, <2>4, InsightsAreExact, ZenonT(60)
<1> QED BY <1>1, ReportsInductive, PTL

-----------------------------------------------------------------------------
(***************************************************************************)
(* How many points a station with a reading every hour is answered with.   *)
(* Integers that lie d apart, within d * k of each other, are k + 1 at most.*)
(***************************************************************************)
SpacedBy(d, S) == \A x, y \in S : x < y => y - x >= d

LEMMA SpacedAreFew ==
  ASSUME NEW d \in Nat \ {0}, NEW k \in Nat, NEW a \in Int, NEW S \in SUBSET (a .. a + d * k),
         SpacedBy(d, S)
  PROVE  IsFiniteSet(S) /\ Cardinality(S) <= k + 1
<1> DEFINE place == [x \in S |-> (x - a) \div d]
<1>1. d * k \in Nat
  OBVIOUS
<1>2. \A x \in S : x \in Int /\ x - a \in 0 .. d * k
  BY <1>1
<1>3. ASSUME NEW x \in S
      PROVE  /\ place[x] \in Int /\ (x - a) % d \in 0 .. d - 1
             /\ x - a = d * place[x] + ((x - a) % d)
  <2> DEFINE z == x - a
  <2>1. z \in Int
    BY <1>2
  <2> HIDE DEF z
  <2>2. z \div d \in Int /\ z % d \in 0 .. d - 1 /\ z = d * (z \div d) + (z % d)
    BY <2>1, Remainders
  <2> QED BY <2>2 DEF z
<1>4. ASSUME NEW x \in S PROVE place[x] \in 0 .. k
  <2> DEFINE q == place[x]
             r == (x - a) % d
  <2>1. q \in Int /\ r \in 0 .. d - 1 /\ x - a = d * q + r /\ x - a \in 0 .. d * k
    BY <1>2, <1>3
  <2> HIDE DEF q, r
  <2>2. d * q \in Int /\ d * 0 = 0
    BY <2>1
  <2>3. ~(q < 0)
    <3> SUFFICES ASSUME q < 0 PROVE FALSE
      OBVIOUS
    <3>1. d * q + d <= d * 0
      BY <2>1, ProductsAreApart
    <3> QED BY <2>1, <2>2, <3>1
  <2>4. ~(k < q)
    <3> SUFFICES ASSUME k < q PROVE FALSE
      OBVIOUS
    <3>1. d * k + d <= d * q
      BY <2>1, ProductsAreApart
    <3> QED BY <1>1, <2>1, <2>2, <3>1
  <2>5. q \in 0 .. k
    BY <2>1, <2>3, <2>4
  <2> QED BY <2>5 DEF q
<1>5. ASSUME NEW x \in S, NEW y \in S, x < y PROVE place[x] # place[y]
  <2>1. y - x >= d /\ x \in Int /\ y \in Int
    BY <1>2, <1>5 DEF SpacedBy
  <2> DEFINE q == place[x]
             r == (x - a) % d
             u == (y - a) % d
  <2> SUFFICES ASSUME place[y] = q PROVE FALSE
    OBVIOUS
  <2>2. q \in Int /\ r \in 0 .. d - 1 /\ u \in 0 .. d - 1 /\ x - a = d * q + r
    BY <1>3
  <2>3. y - a = d * q + u
    BY <1>3
  <2> HIDE DEF q, r, u
  <2>4. d * q \in Int
    BY <2>2
  <2> QED BY <2>1, <2>2, <2>3, <2>4
<1>6. \A x, y \in S : place[x] = place[y] => x = y
  <2>1. \A x, y \in S : x < y \/ y < x \/ x = y
    BY <1>2
  <2> HIDE DEF place
  <2> QED BY <1>5, <2>1
<1>7. place \in [S -> 0 .. k]
  BY <1>4
<1>8. IsFiniteSet(0 .. k) /\ Cardinality(0 .. k) = k + 1
  BY FS_Interval
<1>9. IsFiniteSet(S) /\ Cardinality(S) <= Cardinality(0 .. k)
  <2> HIDE DEF place
  <2> QED BY <1>6, <1>7, <1>8, FiniteByKeys
<1> QED BY <1>8, <1>9

(***************************************************************************)
(* Days and weeks begin at multiples of their length.                      *)
(***************************************************************************)
StartsEvery(d, a, b) == {t - (t % d) : t \in a .. b}

LEMMA MultiplesAreFew ==
  ASSUME NEW d \in Nat \ {0}, NEW k \in Nat, NEW a \in Int, NEW b \in Int, b <= a - d + d * k
  PROVE  IsFiniteSet(StartsEvery(d, a, b)) /\ Cardinality(StartsEvery(d, a, b)) <= k + 1
<1> DEFINE S == StartsEvery(d, a, b)
<1>1. ASSUME NEW x \in S
      PROVE  \E t \in a .. b, q \in Int, r \in 0 .. d - 1 : x = d * q /\ t = x + r
  <2>1. PICK t \in a .. b : x = t - (t % d)
    BY DEF StartsEvery
  <2> DEFINE q == t \div d
             r == t % d
  <2>2. t \in Int /\ q \in Int /\ r \in 0 .. d - 1 /\ t = d * q + r /\ x = t - r
    <3>1. t \in Int /\ x = t - r
      BY <2>1
    <3>2. t \div d \in Int /\ t % d \in 0 .. d - 1 /\ t = d * (t \div d) + (t % d)
      BY ONLY <3>1, d \in Nat \ {0}, Remainders
    <3> QED BY <3>1, <3>2
  <2> HIDE DEF q, r
  <2>3. d * q \in Int
    BY <2>2
  <2>4. x = d * q /\ t = x + r
    BY <2>2, <2>3
  <2> QED BY <2>2, <2>4
<1> HIDE DEF S
<1>2. d * k \in Int
  OBVIOUS
<1>3. S \in SUBSET ((a - d) .. (a - d) + d * k)
  <2> SUFFICES ASSUME NEW x \in S PROVE x \in (a - d) .. (a - d) + d * k
    OBVIOUS
  <2>1. PICK t \in a .. b, q \in Int, r \in 0 .. d - 1 : x = d * q /\ t = x + r
    BY <1>1
  <2>2. d * q \in Int
    BY <2>1
  <2> QED BY <1>2, <2>1, <2>2
<1>4. SpacedBy(d, S)
  <2> SUFFICES ASSUME NEW x \in S, NEW y \in S, x < y PROVE y - x >= d
    BY DEF SpacedBy
  <2>1. PICK p \in Int : x = d * p
    BY <1>1
  <2>2. PICK q \in Int : y = d * q
    BY <1>1
  <2>3. d * p \in Int /\ d * q \in Int
    BY <2>1, <2>2
  <2>4. p < q
    <3> SUFFICES ASSUME ~(p < q) PROVE FALSE
      OBVIOUS
    <3>1. CASE p = q
      BY <2>1, <2>2, <2>3, <3>1
    <3>2. CASE q < p
      <4>1. d * q + d <= d * p
        BY <2>1, <2>2, <3>2, ProductsAreApart
      <4> QED BY <2>1, <2>2, <2>3, <4>1
    <3> QED BY <2>1, <2>2, <3>1, <3>2
  <2>5. d * p + d <= d * q
    BY <2>1, <2>2, <2>4, ProductsAreApart
  <2> QED BY <2>1, <2>2, <2>3, <2>5
<1>5. a - d \in Int
  OBVIOUS
<1>6. IsFiniteSet(S) /\ Cardinality(S) <= k + 1
  BY <1>3, <1>4, <1>5, SpacedAreFew
<1> QED BY <1>6 DEF S

(***************************************************************************)
(* Months and years: the one the window begins in, and those that begin    *)
(* within it.                                                              *)
(***************************************************************************)
LastStarts(M, a, b) == {Max({s \in M : s <= t}) : t \in a .. b}

LEMMA StartsAreFew ==
  ASSUME NEW M \in SUBSET Int, IsFiniteSet(M), NEW d \in Nat \ {0}, SpacedBy(d, M),
         NEW k \in Nat, NEW a \in Int, \E s \in M : s <= a, NEW b \in Int, b <= a + d * k
  PROVE  IsFiniteSet(LastStarts(M, a, b)) /\ Cardinality(LastStarts(M, a, b)) <= k + 2
<1> DEFINE S == LastStarts(M, a, b)
           first == Max({s \in M : s <= a})
           later == S \ {first}
<1>1. /\ first \in M /\ first <= a
      /\ \A s \in M : s <= a => s <= first
  BY LastStart
<1> HIDE DEF first
<1>2. d * k \in Int
  OBVIOUS
<1>3. ASSUME NEW x \in later PROVE x \in M /\ x \in a .. a + d * k
  <2>1. PICK t \in a .. b : x = Max({s \in M : s <= t})
    BY DEF LastStarts
  <2>2. t \in Int /\ \E s \in M : s <= t
    BY <1>1, <2>1
  <2>3. x \in M /\ x <= t /\ \A s \in M : s <= t => s <= x
    BY <2>1, <2>2, LastStart
  <2>4. first <= x
    BY <1>1, <2>1, <2>3
  <2>5. ~(x <= a)
    <3> SUFFICES ASSUME x <= a PROVE FALSE
      OBVIOUS
    <3>1. x <= first /\ x \in Int /\ first \in Int
      BY <1>1, <2>3
    <3> QED BY <2>4, <3>1
  <2> QED BY <1>2, <2>1, <2>3, <2>5
<1> HIDE DEF S, later
<1>4. SpacedBy(d, later)
  BY <1>3 DEF SpacedBy
<1>5. later \in SUBSET (a .. a + d * k)
  BY <1>3
<1>6. IsFiniteSet(later) /\ Cardinality(later) <= k + 1
  BY <1>4, <1>5, SpacedAreFew
<1>7. Cardinality(later) \in Nat
  BY <1>6, FS_CardinalityType
<1>8. /\ IsFiniteSet(later \union {first})
      /\ Cardinality(later \union {first}) <= k + 2
  <2>1. /\ IsFiniteSet(later \union {first})
        /\ Cardinality(later \union {first})
           = IF first \in later THEN Cardinality(later) ELSE Cardinality(later) + 1
    BY <1>6, FS_AddElement
  <2> QED BY <1>6, <1>7, <2>1
<1>9. S \in SUBSET (later \union {first})
  BY DEF later
<1>10. IsFiniteSet(S) /\ Cardinality(S) <= Cardinality(later \union {first})
  BY <1>8, <1>9, FS_Subset
<1>11. Cardinality(S) <= k + 2
  <2>1. Cardinality(S) \in Nat /\ Cardinality(later \union {first}) \in Nat
    BY <1>8, <1>10, FS_CardinalityType
  <2> QED BY <1>8, <1>10, <2>1
<1> QED BY <1>10, <1>11 DEF S

LEMMA IntervalsAreFew ==
  ASSUME NEW start \in Instants, NEW span \in Nat, span <= 365 * 24 + 1
  PROVE  Cardinality(Intervals(start, span)) <= 7 * 24 + 1
<1> DEFINE last == start + span - 1
<1>1. start \in Int /\ last \in Int /\ last <= start + span - 1
  BY CalendarAssumption
<1>2. CASE span <= 7 * 24
  <2>1. Intervals(start, span) = start .. last
    <3>1. Granularity(span) = "hour"
      BY <1>2 DEF Granularity
    <3>2. \A t : IntervalStart("hour", t) = t
      BY DEF IntervalStart
    <3> QED BY <3>1, <3>2 DEF Intervals
  <2>2. Cardinality(start .. last) = IF start > last THEN 0 ELSE last - start + 1
    BY <1>1, FS_Interval
  <2> QED BY <1>1, <1>2, <2>1, <2>2
<1>3. CASE span > 7 * 24 /\ span <= 30 * 24
  <2>1. Granularity(span) = "day"
    BY <1>3 DEF Granularity
  <2>2. \A t : IntervalStart("day", t) = t - (t % 24)
    BY DEF IntervalStart
  <2>3. Intervals(start, span) = StartsEvery(24, start, last)
    BY <2>1, <2>2 DEF Intervals, StartsEvery
  <2>4. 24 \in Nat \ {0} /\ 31 \in Nat /\ last <= start - 24 + 24 * 31
    BY <1>1, <1>3
  <2> HIDE DEF last
  <2>5. IsFiniteSet(StartsEvery(24, start, last)) /\ Cardinality(StartsEvery(24, start, last)) <= 31 + 1
    BY <1>1, <2>4, MultiplesAreFew
  <2>6. Cardinality(StartsEvery(24, start, last)) \in Nat
    BY <2>5, FS_CardinalityType
  <2> QED BY <2>3, <2>5, <2>6
<1>4. CASE span > 30 * 24 /\ span <= 90 * 24
  <2>1. Granularity(span) = "week"
    BY <1>4 DEF Granularity
  <2>2. \A t : IntervalStart("week", t) = t - (t % (7 * 24))
    BY DEF IntervalStart
  <2>3. Intervals(start, span) = StartsEvery(7 * 24, start, last)
    BY <2>1, <2>2 DEF Intervals, StartsEvery
  <2>4. 7 * 24 \in Nat \ {0} /\ 14 \in Nat /\ last <= start - 7 * 24 + (7 * 24) * 14
    BY <1>1, <1>4
  <2> HIDE DEF last
  <2>5. /\ IsFiniteSet(StartsEvery(7 * 24, start, last))
        /\ Cardinality(StartsEvery(7 * 24, start, last)) <= 14 + 1
    BY <1>1, <2>4, MultiplesAreFew
  <2>6. Cardinality(StartsEvery(7 * 24, start, last)) \in Nat
    BY <2>5, FS_CardinalityType
  <2> QED BY <2>3, <2>5, <2>6
<1>5. CASE span > 90 * 24 /\ span <= 365 * 24
  <2>1. Granularity(span) = "month"
    BY <1>5 DEF Granularity
  <2>2. \A t : IntervalStart("month", t) = Max({s \in MonthStarts : s <= t})
    BY DEF IntervalStart
  <2>3. Intervals(start, span) = LastStarts(MonthStarts, start, last)
    BY <2>1, <2>2 DEF Intervals, LastStarts
  <2>4. 28 * 24 \in Nat \ {0} /\ 14 \in Nat /\ last <= start + (28 * 24) * 14
    BY <1>1, <1>5
  <2>5. /\ MonthStarts \in SUBSET Int /\ IsFiniteSet(MonthStarts) /\ SpacedBy(28 * 24, MonthStarts)
        /\ \E s \in MonthStarts : s <= start
    BY CalendarAssumption DEF SpacedBy
  <2> HIDE DEF last
  <2>6. /\ IsFiniteSet(LastStarts(MonthStarts, start, last))
        /\ Cardinality(LastStarts(MonthStarts, start, last)) <= 14 + 2
    BY <1>1, <2>4, <2>5, StartsAreFew
  <2>7. Cardinality(LastStarts(MonthStarts, start, last)) \in Nat
    BY <2>6, FS_CardinalityType
  <2> QED BY <2>3, <2>6, <2>7
<1>6. CASE span > 365 * 24
  <2>1. Granularity(span) = "year"
    BY <1>6 DEF Granularity
  <2>2. \A t : IntervalStart("year", t) = Max({s \in YearStarts : s <= t})
    BY DEF IntervalStart
  <2>3. Intervals(start, span) = LastStarts(YearStarts, start, last)
    BY <2>1, <2>2 DEF Intervals, LastStarts
  <2>4. 365 * 24 \in Nat \ {0} /\ 1 \in Nat /\ last <= start + (365 * 24) * 1
    BY <1>1, <1>6
  <2>5. /\ YearStarts \in SUBSET Int /\ IsFiniteSet(YearStarts) /\ SpacedBy(365 * 24, YearStarts)
        /\ \E s \in YearStarts : s <= start
    BY CalendarAssumption DEF SpacedBy
  <2> HIDE DEF last
  <2>6. /\ IsFiniteSet(LastStarts(YearStarts, start, last))
        /\ Cardinality(LastStarts(YearStarts, start, last)) <= 1 + 2
    BY <1>1, <2>4, <2>5, StartsAreFew
  <2>7. Cardinality(LastStarts(YearStarts, start, last)) \in Nat
    BY <2>6, FS_CardinalityType
  <2> QED BY <2>3, <2>6, <2>7
<1> QED BY <1>2, <1>3, <1>4, <1>5, <1>6

(***************************************************************************)
(* A window of up to a year and an hour is answered with no more points    *)
(* than a week of hours has.                                               *)
(***************************************************************************)
THEOREM PointsStayBounded == ReportsSpec => []PointsAreBounded
<1>1. AnsweredAsAsked => PointsAreBounded
  <2> SUFFICES ASSUME AskedFull, report.read.span <= 365 * 24 + 1
               PROVE  Cardinality(report.answer) <= 7 * 24 + 1
    BY DEF AnsweredAsAsked, PointsAreBounded
  <2>1. report.read.start \in Instants /\ report.read.span \in Nat
        /\ report.answer = Intervals(report.read.start, report.read.span)
    BY CalendarAssumption DEF AskedFull
  <2> QED BY <2>1, IntervalsAreFew
<1> QED BY <1>1, ReportsInductive, PTL
=============================================================================
