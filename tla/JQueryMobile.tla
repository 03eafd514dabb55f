----------------------------- MODULE JQueryMobile ----------------------------
(* Navigation of lib/jquery.mobile.js: changePage with its lock and queue,   *)
(* loadPage, transitions, urlHistory, and the browser's history and hash,    *)
(* whose changes come later as events.  pushState is off.                    *)
(*                                                                           *)
(* A url is the page it names and how many dialogs were opened on it; the    *)
(* empty hash is the first page's.                                           *)
EXTENDS Integers, Sequences, FiniteSets, SequencesExt

CONSTANTS
    Pages,          \* the pages of the document, "first" among them
    Dialogs,        \* those of them that are dialogs
    Loadable,       \* the pages that are loaded
    MaxMoves        \* what the user does

VARIABLE mobile

First == "first"
Empty == [page |-> First, dialogs |-> -1]
Url(page) == [page |-> page, dialogs |-> 0]
DialogOf(url) == [url EXCEPT !.dialogs = @ + 1]
None == 0

\* An element of the document that is a page; it may be there no more
Elem(page) == [page |-> page, there |-> TRUE, seen |-> FALSE]

Find(m, page) == {e \in DOMAIN m.elems : m.elems[e].page = page /\ m.elems[e].there}

IsDialog(m, e) == m.elems[e].page \in Dialogs

\* A request of changePage: by url or, once it is loaded, by element
Request(page, how) ==
    [page |-> page, elem |-> None, dup |-> None, reload |-> how = "submit", changeHash |-> how # "hash",
     fromHash |-> how = "hash", refused |-> "no"]

-----------------------------------------------------------------------------
(* urlHistory                                                                *)

Active(m) == m.stack[m.active]

\* addNew, which wipes what is ahead
AddNew(m, url, pageUrl) ==
    LET kept == SubSeq(m.stack, 1, m.active)
    IN  [m EXCEPT !.stack = Append(kept, [url |-> url, pageUrl |-> pageUrl]), !.active = Len(kept) + 1]

\* directHashChange: the last entry with the url is taken for the one meant
Matches(m, url) == {i \in DOMAIN m.stack : m.stack[i].url = url}
Newest(s) == CHOOSE i \in s : \A j \in s : j <= i
Direct(m, url) == IF Matches(m, url) = {} THEN m ELSE [m EXCEPT !.active = Newest(Matches(m, url))]
Direction(m, url) ==
    IF Matches(m, url) = {} THEN 0 ELSE IF Newest(Matches(m, url)) < m.active THEN -1 ELSE 1

-----------------------------------------------------------------------------
(* The browser                                                               *)

Hash(m) == m.hist[m.pos]

\* history.back and forward: the hash is another one, which is told later
Go(m, by) ==
    IF m.pos + by \notin DOMAIN m.hist THEN m
    ELSE [m EXCEPT !.pos = @ + by, !.told = @ + (IF m.hist[m.pos + by] = m.hist[m.pos] THEN 0 ELSE 1)]

\* path.set: no event when the hash is that one already
SetHash(m, url) ==
    IF Hash(m) = url THEN [m EXCEPT !.ignore = TRUE, !.deaf = TRUE]
    ELSE [m EXCEPT !.ignore = TRUE, !.crossed = @ \/ m.told > 0, !.hist = Append(SubSeq(@, 1, m.pos), url), !.pos = @ + 1, !.told = @ + 1]

-----------------------------------------------------------------------------
(* changePage and what it calls                                              *)

RECURSIVE ChangePage(_, _), Release(_), ToElement(_, _), Shown(_)

\* releasePageTransitionLock: the oldest of the requests that wait
Release(m) ==
    IF m.queue = <<>> THEN [m EXCEPT !.busy = FALSE]
    ELSE ChangePage([m EXCEPT !.busy = FALSE, !.queue = Tail(@)], Head(m.queue))

\* The transition is over: the page left is hidden, and removed if it was
\* loaded, and so is the one that the new page takes the place of
Shown(m) ==
    LET t == CHOOSE t \in m.shows : TRUE
        goes(e) == e # None /\ (e = t.dup \/ (e = t.from /\ m.elems[e].page \in Loadable))
    IN  Release([m EXCEPT !.shows = {},
                          !.elems = [e \in DOMAIN @ |-> IF goes(e) THEN [@[e] EXCEPT !.there = FALSE] ELSE @[e]]])

\* changePage of an element.  A request for the page that is shown ends here,
\* and those that wait go on waiting
ToElement(m, r) ==
    LET from  == m.activePage
        page  == m.elems[r.elem].page
        dir   == IF r.fromHash THEN Direction(m, Url(page)) ELSE 0
        moved == IF r.fromHash THEN Direct(m, Url(page)) ELSE m
        url   == IF IsDialog(m, r.elem) /\ m.stack # <<>> THEN DialogOf(Active(m).url) ELSE Url(page)
        set   == IF r.changeHash THEN SetHash(moved, url) ELSE moved
        added == IF dir = 0 THEN AddNew(set, url, page) ELSE set
        going == [added EXCEPT !.activePage = r.elem, !.elems[r.elem].seen = TRUE, !.shows = {[to |-> r.elem, from |-> from, dup |-> r.dup]},
                               !.busy = TRUE, !.loader = FALSE]
    IN  IF r.refused = "page" THEN [m EXCEPT !.stuck = @ \/ m.queue # <<>>]
        ELSE IF from = r.elem THEN [m EXCEPT !.busy = FALSE, !.stuck = @ \/ m.queue # <<>>]
        ELSE IF ~m.css \/ m.stack = <<>> THEN Shown(going) ELSE going

\* loadPage: a page that is there, or a request to the server; another domain
\* is refused at once, with the timer of the loading message left to go off
ChangePage(m, r) ==
    LET found == Find(m, r.page)
        begun == [m EXCEPT !.busy = TRUE]
    IN  CASE m.busy -> [m EXCEPT !.queue = Append(@, r)]
          [] ~m.busy /\ r.elem # None -> ToElement(m, r)
          [] ~m.busy /\ r.elem = None /\ r.refused = "url" -> [m EXCEPT !.stuck = @ \/ m.queue # <<>>]
          [] OTHER ->
                IF found # {} /\ ~r.reload
                THEN ChangePage(m, [r EXCEPT !.elem = CHOOSE e \in found : \A f \in found : e <= f])
                ELSE IF r.page \in Loadable
                THEN [begun EXCEPT !.loads = {[r EXCEPT !.dup = IF found = {} THEN None ELSE CHOOSE e \in found : TRUE]},
                                   !.timer = TRUE]
                ELSE Release([begun EXCEPT !.left = TRUE, !.loader = TRUE])

\* Mutant of HandleHash: a change that the page made itself is handled too.
HandleHash_Own(m) ==
    LET to == Hash(m)
        page(url) == ChangePage(m, Request(url.page, "hash"))
    IN  page(to)

\* _handleHashChange
HandleHash(m) ==
    LET to == Hash(m)
        page(n, url) == ChangePage(n, Request(url, "hash"))
    IN  IF m.ignore THEN [m EXCEPT !.ignore = FALSE]
        ELSE IF Len(m.stack) > 1 /\ to.dialogs > 0
        THEN IF ~IsDialog(m, m.activePage)
             THEN Go(Direct(m, to), Direction(m, to))
             ELSE page(Direct(m, to),
                       IF Matches(m, to) = {} THEN to.page ELSE m.stack[Newest(Matches(m, to))].pageUrl)
        ELSE page(m, to.page)

-----------------------------------------------------------------------------
(* Steps                                                                     *)

\* A link or a form of the page
Navigate(page, how, refused) ==
    /\ mobile.moves < MaxMoves
    /\ how = "submit" => page \in Loadable /\ refused = "no"
    /\ mobile' = ChangePage([mobile EXCEPT !.moves = @ + 1], [Request(page, how) EXCEPT !.refused = refused])

\* The user's back and forward buttons, and the close button of a dialog
Button(by) ==
    /\ mobile.pos + by \in DOMAIN mobile.hist
    /\ mobile.moves < MaxMoves
    /\ mobile' = Go([mobile EXCEPT !.moves = @ + 1], by)

HashChange ==
    /\ mobile.told > 0
    /\ mobile' = HandleHash([mobile EXCEPT !.told = @ - 1, !.crossed = @ \/ (mobile.busy /\ ~mobile.ignore)])

\* The answer to loadPage
Loaded ==
    LET e == Len(mobile.elems) + 1
    IN  \E r \in mobile.loads :
           mobile' = ChangePage([mobile EXCEPT !.loads = {}, !.busy = FALSE, !.timer = FALSE, !.loader = FALSE,
                                               !.elems = Append(@, Elem(r.page))],
                                [r EXCEPT !.elem = e])

LoadFails ==
    \E r \in mobile.loads :
       mobile' = Release([mobile EXCEPT !.loads = {}, !.timer = FALSE, !.loader = FALSE,
                                        !.missed = @ \/ r.fromHash])

\* 50 ms after loadPage
LoadMessage == mobile.timer /\ mobile' = [mobile EXCEPT !.timer = FALSE, !.loader = TRUE]

TransitionOver == mobile.shows # {} /\ mobile' = Shown(mobile)

Others == SetToSeq(Pages \ {First})

Begun(css, hash) ==
    [css |-> css, stack |-> <<>>, active |-> 0, ignore |-> FALSE, busy |-> FALSE, queue |-> <<>>,
     activePage |-> None, elems |-> [i \in 1..Cardinality(Pages) |-> Elem((<<First>> \o Others)[i])],
     loads |-> {}, shows |-> {}, timer |-> FALSE, loader |-> TRUE,
     hist |-> <<hash>>, pos |-> 1, told |-> 0, moves |-> 0,
     deaf |-> FALSE, stuck |-> FALSE, left |-> FALSE, crossed |-> FALSE, missed |-> FALSE]

\* initializePage
Init ==
    \E css \in BOOLEAN : \E hash \in {Empty} \cup {Url(page) : page \in Loadable} :
       LET m == Begun(css, hash)
       IN  mobile = IF hash = Empty THEN ChangePage(m, [Request(First, "hash") EXCEPT !.elem = 1]) ELSE HandleHash(m)

Next ==
    \/ \E page \in Pages \cup Loadable \cup {"elsewhere"} : \E how \in {"link", "submit"} : \E refused \in {"no", "url", "page"} :
          Navigate(page, how, refused)
    \/ Button(-1) \/ Button(1)
    \/ HashChange \/ Loaded \/ LoadFails \/ LoadMessage \/ TransitionOver

Spec == Init /\ [][Next]_mobile

-----------------------------------------------------------------------------
(* Properties                                                                *)

Still(m) == m.loads = {} /\ m.shows = {} /\ m.told = 0

\* Navigation is locked while a page is loaded or shown and never longer, one
\* at a time; what waits is served then
Locked ==
    LET m == mobile
    IN  /\ m.busy <=> m.loads # {} \/ m.shows # {}
        /\ m.loads = {} \/ m.shows = {}
        /\ m.queue # <<>> /\ ~m.stuck => m.busy
        /\ m.timer => m.loads # {}
        /\ m.loader /\ ~m.left => m.loads # {}

\* The page shown is in the document, and loaded pages go when they are hidden
PagesThere ==
    LET m == mobile
    IN  /\ m.activePage # None => m.elems[m.activePage].there
        /\ \A e \in DOMAIN m.elems :
              m.elems[e].page \in Loadable /\ m.elems[e].there /\ m.elems[e].seen /\ m.shows = {} => e = m.activePage

\* When all is still the hash names the page shown, and the next change of it
\* will be heard
HashAgrees ==
    LET m == mobile
    IN  Still(m) /\ ~m.deaf /\ ~m.crossed /\ ~m.missed /\ ~m.stuck =>
            /\ ~m.ignore
            /\ m.activePage # None
            /\ IF Hash(m).dialogs > 0 THEN IsDialog(m, m.activePage) \/ m.pos = Len(m.hist)
               ELSE m.elems[m.activePage].page = Hash(m).page

=============================================================================
