------------------------------- MODULE History --------------------------------
(***************************************************************************)
(* GET /api/user/history and the list a dashboard builds from it.  The     *)
(* route reads its tables one beside the other, merges their rows and cuts *)
(* out a page; the dashboard asks for page after page, and for all of them *)
(* again every ten seconds.  Between any two of these reads rows are       *)
(* added, and one that took long to commit is not the newest then.         *)
(***************************************************************************)
EXTENDS Naturals, FiniteSets, SequencesExt

CONSTANTS
  MaxItems, \* bound: entries, numbered in the order of their created_at
  TableOf,    \* the table each is in
  PageSize    \* PAGE_SIZE

Items == 1..MaxItems
Tables == Range(TableOf)

ASSUME HistoryAssumption ==
  MaxItems \in Nat /\ DOMAIN TableOf = Items /\ PageSize \in Nat \ {0}

VARIABLES
  recorded, \* the rows there are
  query,  \* what the dashboard asks for: the page, how many it wants, those it has got
  read,   \* the tables the route has read for it
  data,   \* the pages on the screen
  known   \* the rows that were there when the first of them was asked for

historyVars == <<recorded, query, read, data, known>>

NoQuery == [page |-> 0, want |-> 0, got |-> <<>>, began |-> {}]
Unread == [t \in {} |-> {}]

InitHistory ==
  /\ recorded = {}
  /\ query = NoQuery
  /\ read = Unread
  /\ data = <<>>
  /\ known = {}

\* A deposit, a withdrawal, a transfer; the time it bears is the one at which its
\* transaction began.
Record(e) ==
  /\ e \notin recorded
  /\ recorded' = recorded \cup {e}
  /\ UNCHANGED <<query, read, data, known>>
-----------------------------------------------------------------------------
(***************************************************************************)
(* The route                                                               *)
(***************************************************************************)
ReadTable(t) ==
  /\ query # NoQuery /\ t \notin DOMAIN read
  /\ read' = [u \in DOMAIN read \cup {t} |->
                IF u = t THEN {e \in recorded : TableOf[e] = t} ELSE read[u]]
  /\ UNCHANGED <<recorded, query, data, known>>

\* The newest first.
Merged ==
  LET rows == UNION Range(read)
  IN [k \in 1..Cardinality(rows) |->
        CHOOSE e \in rows : Cardinality({f \in rows : f > e}) = k - 1]

TotalPages(all) == IF all = <<>> THEN 1 ELSE (Len(all) + PageSize - 1) \div PageSize

\* Mutant of Start: it counts from the page itself.
StartLate(page) == (page - 1) * PageSize + page - 1

Start(page) == (page - 1) * PageSize

PageOf(all, asked) ==
  LET total == TotalPages(all)
      page == IF asked < total THEN asked ELSE total
      last == Start(page) + PageSize
  IN [page |-> page, totalPages |-> total,
      entries |-> SubSeq(all, Start(page) + 1, IF last < Len(all) THEN last ELSE Len(all))]
-----------------------------------------------------------------------------
(***************************************************************************)
(* useInfiniteQuery, as the dashboard uses it                              *)
(***************************************************************************)
HasNext(pages) == pages # <<>> /\ Last(pages).page < Last(pages).totalPages

\* Opening the dashboard, every ten seconds, and after a transfer: as many pages as
\* there are, from the first; what was on its way is dropped.
Refetch ==
  /\ query' = [page |-> 1, want |-> IF data = <<>> THEN 1 ELSE Len(data),
               got |-> <<>>, began |-> recorded]
  /\ read' = Unread
  /\ UNCHANGED <<recorded, data, known>>

\* "Load more".
FetchNextPage ==
  /\ HasNext(data)
  /\ query' = [page |-> Last(data).page + 1, want |-> Len(data) + 1,
               got |-> data, began |-> known]
  /\ read' = Unread
  /\ UNCHANGED <<recorded, data, known>>

PageAnswered ==
  /\ query # NoQuery /\ DOMAIN read = Tables
  /\ LET got == Append(query.got, PageOf(Merged, query.page))
     IN IF Len(got) < query.want /\ HasNext(got)
          THEN /\ query' = [query EXCEPT !.page = Last(got).page + 1, !.got = got]
               /\ UNCHANGED <<data, known>>
          ELSE /\ query' = NoQuery
               /\ data' = got
               /\ known' = query.began
  /\ read' = Unread
  /\ UNCHANGED recorded

\* The pages on the screen stay.
FetchFails ==
  /\ query # NoQuery
  /\ query' = NoQuery
  /\ read' = Unread
  /\ UNCHANGED <<recorded, data, known>>

HistoryStep ==
  \/ \E e \in Items : Record(e)
  \/ \E t \in Tables : ReadTable(t)
  \/ Refetch \/ FetchNextPage \/ PageAnswered \/ FetchFails

HistorySpec == InitHistory /\ [][HistoryStep]_historyVars
-----------------------------------------------------------------------------
Listed == UNION {Range(data[k].entries) : k \in 1..Len(data)}

HistoryTypeOK ==
  /\ recorded \subseteq Items /\ known \subseteq recorded
  /\ query.page \in Nat /\ query.want \in Nat /\ query.began \subseteq recorded
  /\ DOMAIN read \subseteq Tables /\ \A t \in DOMAIN read : read[t] \subseteq recorded
  /\ Listed \subseteq recorded

(***************************************************************************)
(* However rows are added between the reads of the tables and of the       *)
(* pages: what was there when the list was asked for is in it, down to the *)
(* oldest it shows, and all of it when there is no more to load.  (Twice,  *)
(* it may be.)                                                             *)
(* (user.ts, GET /history; use-dashboard-data.ts.)                         *)
(***************************************************************************)
NoneSkipped ==
  \A e \in known :
    (~HasNext(data) \/ \E older \in Listed : older <= e) => e \in Listed
=============================================================================
