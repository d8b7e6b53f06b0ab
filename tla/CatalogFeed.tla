------------------------------ MODULE CatalogFeed ------------------------------
(***************************************************************************)
(* The paged listings of the catalog, the OPDS acquisition feeds           *)
(* (opds/service.py) and the web's list of recent books                    *)
(* (services/catalog.py), and a client that follows their "next" links     *)
(* from the first page to the last while scans and reviews go on changing  *)
(* the catalog.                                                            *)
(*                                                                         *)
(* Each page is a request of its own, and a request is two queries that    *)
(* see the catalog at two moments: the number of books listed, from which  *)
(* the links are made, and the slice of the page.  The queries that load   *)
(* the authors, series and files of the slice are taken with it.           *)
(*                                                                         *)
(* A book is its title, whether it is one of the books asked for (of the   *)
(* series or author, or matching the words searched), and whether it has a *)
(* present EPUB file.  Ids are given in the order in which books are added,*)
(* and no book is ever deleted.                                            *)
(***************************************************************************)
EXTENDS Integers, FiniteSets

CONSTANTS
  MaxBooks,     \* bound on the books
  Titles,       \* numbers, in the order of titles
  PageSizes,    \* what a client may ask for: 1 <= limit <= 100
  OpdsPageSize, \* what a feed has if it does not (OPDS_PAGE_SIZE)
  WebPageSize,  \* _BOOKS_PER_PAGE
  MaxMoves      \* bound: changes of the catalog during a crawl

ASSUME FeedAssumption ==
  /\ MaxBooks \in Nat /\ MaxMoves \in Nat
  /\ Titles \subseteq Nat /\ PageSizes \subseteq Nat \ {0}
  /\ {OpdsPageSize, WebPageSize} \subseteq PageSizes

VARIABLES
  books,        \* the books table, by id
  crawl         \* the client and its request

feedVars == <<books, crawl>>

Feeds == {"books", "group", "x4", "x4group", "recent", "search", "x4search"}
BookId == 1..MaxBooks
Book == [title : Titles, asked : BOOLEAN, epub : BOOLEAN]
NoBooks == [b \in {} |-> 0]

Crawl == [at : {"idle", "count", "slice"}, feed : Feeds, size : PageSizes \cup {0},
          plain : BOOLEAN,              \* no limit was asked for
          page : 0..(MaxBooks + 1), total : 0..MaxBooks,
          first : SUBSET BookId,        \* the books listed when it began
          seen : SUBSET BookId, twice : BOOLEAN,
          moves : 0..MaxMoves,          \* the changes since it began
          grown : BOOLEAN,              \* all of them additions between requests
          rank : [BookId -> BookId]]    \* the order of relevance of its words
NoCrawl == [at |-> "idle", feed |-> "books", size |-> 0, plain |-> TRUE, page |-> 0, total |-> 0,
            first |-> {}, seen |-> {}, twice |-> FALSE, moves |-> 0, grown |-> TRUE,
            rank |-> [b \in BookId |-> b]]

FeedTypeOK ==
  /\ \E n \in 0..MaxBooks : books \in [1..n -> Book]
  /\ crawl \in Crawl

FeedInit ==
  /\ books = NoBooks
  /\ crawl = NoCrawl

-----------------------------------------------------------------------------
(* The listings.                                                           *)

X4Ready(b) == books[b].epub

AllBooks == DOMAIN books
GroupBooks == {b \in AllBooks : books[b].asked}
X4Books == {b \in AllBooks : X4Ready(b)}
X4GroupBooks == {b \in X4Books : books[b].asked}
Matches == {b \in AllBooks : books[b].asked}

\* The books a feed pages through.
Paged(feed) ==
  CASE feed \in {"books", "recent"} -> AllBooks
    [] feed = "group" -> GroupBooks
    [] feed = "x4" -> X4Books
    [] feed = "x4group" -> X4GroupBooks
    [] feed \in {"search", "x4search"} -> Matches

\* Titles in order, books of one title by id; the newest first; or by
\* relevance.
ByTitle(b, c) == books[b].title < books[c].title \/ (books[b].title = books[c].title /\ b < c)
ByAge(b, c) == b > c
ByRank(b, c) == crawl.rank[b] < crawl.rank[c]

Before(feed, b, c) ==
  CASE feed = "recent" -> ByAge(b, c)
    [] feed \in {"search", "x4search"} -> ByRank(b, c)
    [] OTHER -> ByTitle(b, c)

Position(feed, b) == Cardinality({c \in Paged(feed) : Before(feed, c, b)})

OffsetByPage(page, size) == page * size     \* mutant of Offset: pages counted from 0
Offset(page, size) == (page - 1) * size

\* LIMIT and OFFSET of the slice.
Slice(feed, page, size) ==
  {b \in Paged(feed) : /\ Offset(page, size) <= Position(feed, b)
                       /\ Position(feed, b) < Offset(page, size) + size}

\* The entries of a page: the X4 search leaves out of its slice the books
\* that are not ready, after they have been counted and paged.
Entries(feed, page, size) ==
  IF feed = "x4search" THEN {b \in Slice(feed, page, size) : X4Ready(b)}
  ELSE Slice(feed, page, size)

TotalPagesFloor(total, size) == total \div size   \* mutant of TotalPages
TotalPages(total, size) ==
  IF total = 0 THEN 1 ELSE (total + size - 1) \div size

-----------------------------------------------------------------------------
(* The client.                                                             *)

Listed(feed) == IF feed = "x4search" THEN {b \in Matches : X4Ready(b)} ELSE Paged(feed)

\* Relevance depends on the whole index: any change of it gives another order.
Ranks(feed) ==
  IF feed \in {"search", "x4search"}
  THEN {r \in [BookId -> BookId] : \A b, c \in BookId : r[b] = r[c] => b = c}
  ELSE {NoCrawl.rank}

UsualSize(feed) == IF feed = "recent" THEN WebPageSize ELSE OpdsPageSize

\* The first page, of a size that the client chooses, unless on the web.
Begin(feed, size) ==
  /\ crawl.at = "idle"
  /\ feed = "recent" => size = WebPageSize
  /\ \E rank \in Ranks(feed) :
       crawl' = [NoCrawl EXCEPT !.at = "count", !.feed = feed, !.size = size,
                                !.plain = (size = UsualSize(feed)), !.page = 1,
                                !.first = Listed(feed), !.rank = rank]
  /\ UNCHANGED books

CountBooks ==
  /\ crawl.at = "count"
  /\ crawl' = [crawl EXCEPT !.at = "slice", !.total = Cardinality(Paged(crawl.feed))]
  /\ UNCHANGED books

Page == Entries(crawl.feed, crawl.page, crawl.size)
LastPage == crawl.page >= TotalPages(crawl.total, crawl.size)

\* The page is answered, and the client asks for the next one by the link it
\* is given, which does not repeat the limit,
NextPage ==
  /\ crawl.at = "slice"
  /\ ~LastPage
  /\ crawl' = [crawl EXCEPT !.at = "count", !.page = @ + 1,
                            !.size = UsualSize(crawl.feed), !.seen = @ \cup Page,
                            !.twice = @ \/ Page \cap crawl.seen # {}]
  /\ UNCHANGED books

\* or there is no "next" link.
FinishCrawl ==
  /\ crawl.at = "slice"
  /\ LastPage
  /\ crawl' = NoCrawl
  /\ UNCHANGED books

-----------------------------------------------------------------------------
(* Changes of the catalog.  While a client crawls they are bounded.        *)

Moved(addition) ==
  IF crawl.at = "idle" THEN UNCHANGED crawl
  ELSE /\ crawl.moves < MaxMoves
       /\ \E rank \in Ranks(crawl.feed) :
            crawl' = [crawl EXCEPT !.moves = @ + 1, !.rank = rank,
                                   !.grown = @ /\ addition /\ crawl.at = "count"]

\* A scan has found a book.
AddBook(book) ==
  /\ Cardinality(AllBooks) < MaxBooks
  /\ books' = [b \in 1..(Cardinality(AllBooks) + 1) |-> IF b \in AllBooks THEN books[b] ELSE book]
  /\ Moved(TRUE)

\* A book changes while a client crawls.
ChangeBook(b, book) ==
  /\ crawl.at # "idle"
  /\ books' = [books EXCEPT ![b] = book]
  /\ Moved(FALSE)

\* A review gives it another title, or another series,
Retitle(b, title) ==
  /\ books[b].title # title
  /\ ChangeBook(b, [books[b] EXCEPT !.title = title])

Regroup(b) == ChangeBook(b, [books[b] EXCEPT !.asked = ~@])

\* or a scan finds its EPUB missing, or back.
MarkFile(b) == ChangeBook(b, [books[b] EXCEPT !.epub = ~@])

FeedNext ==
  \/ \E feed \in Feeds, size \in PageSizes : Begin(feed, size)
  \/ CountBooks \/ NextPage \/ FinishCrawl
  \/ \E book \in Book : AddBook(book)
  \/ \E b \in AllBooks :
       Regroup(b) \/ MarkFile(b) \/ \E title \in Titles : Retitle(b, title)

FeedSpec == FeedInit /\ [][FeedNext]_feedVars

-----------------------------------------------------------------------------
(* Properties.                                                             *)

CrawledAll ==
  /\ crawl.seen \cup Page = Listed(crawl.feed)
  /\ ~crawl.twice /\ crawl.seen \cap Page = {}

\* A crawl by pages of the usual size, during which nothing changes, lists
\* every book of the feed, once, and no other.
QuietCrawlExact ==
  [][FinishCrawl /\ crawl.moves = 0 /\ crawl.plain => CrawledAll]_feedVars

\* A crawl by pages of the usual size that books are added to, none of them
\* within a request, misses no book that was there when it began, though it
\* may list one twice.  (Search feeds promise less: every addition may change
\* the order.)
GrowingCrawlComplete ==
  [][FinishCrawl /\ crawl.grown /\ crawl.plain /\ crawl.feed \notin {"search", "x4search"} =>
       crawl.first \subseteq crawl.seen \cup Page]_feedVars

\* The links of a feed lead through all its books ("paginate via RFC 5005
\* first/previous/next/last"), whatever limit its first page was asked with.
LimitedCrawlExact ==
  [][FinishCrawl /\ crawl.moves = 0 => CrawledAll]_feedVars
=============================================================================
