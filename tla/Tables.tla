--------------------------------- MODULE Tables ---------------------------------
(***************************************************************************)
(* A table whose sorting, search, column filters and page are kept in the  *)
(* search parameters of the address.  The table reads them when it is      *)
(* rendered; a change is made to the copy of that rendering and navigates  *)
(* to it.  Until the address gets there more changes may follow, the       *)
(* search box may be typed in, and the table may be rendered again (new    *)
(* rows, the state of a dialog) with the parameters it had: with a new     *)
(* copy of them, which knows nothing of the changes under way.             *)
(*                                                                         *)
(* A parameter with its default value is left out of the address and       *)
(* missing parameters have their default, so the model writes the values.  *)
(***************************************************************************)
EXTENDS Naturals

CONSTANTS
  PageSizes,   \* choices; the least is the default
  Texts,       \* what may be searched for; "" is no search
  FilterSets,  \* what the columns may be filtered by
  MaxRows      \* bound on rows

ASSUME TableConstantsOK ==
  PageSizes \subseteq Nat \ {0} /\ PageSizes # {} /\ "" \in Texts /\ MaxRows \in Nat

VARIABLES
  url,    \* the search parameters of the address
  shown,  \* those of the last rendering,
  draft,  \* and its copy of them, which changes are made to
  count,  \* rows that pass the search and the filters
  box,    \* text of the search box, and whether its timer runs
  wanted, \* what the changes should lead to, and
  outrun  \* whose last change a rendering of the old parameters came after
          \* (the last two are kept to state the properties)

tableVars == <<url, shown, draft, count, box, wanted, outrun>>

Sorts == {"none", "asc", "desc"}
Params(indices) ==
  [sort : Sorts, search : Texts, filters : FilterSets \cup {"none"},
   pagination : [size : PageSizes, index : indices]]
TableParams == {"sort", "search", "filters", "pagination"}
DefaultSize == CHOOSE s \in PageSizes : \A t \in PageSizes : s <= t
Defaults == [sort |-> "none", search |-> "", filters |-> "none",
             pagination |-> [size |-> DefaultSize, index |-> 0]]

TableTypeOK ==
  /\ {url, shown, draft, wanted} \subseteq Params(Nat)
  /\ count \in 0 .. MaxRows
  /\ box \in [text : Texts, due : BOOLEAN]
  /\ outrun \subseteq TableParams

TableInit ==
  /\ url = Defaults /\ shown = Defaults /\ draft = Defaults /\ wanted = Defaults
  /\ count = 0
  /\ box = [text |-> "", due |-> TRUE]
  /\ outrun = {}

PageCount(rows, size) == (rows + size - 1) \div size

-----------------------------------------------------------------------------
(* Changes.                                                                 *)

\* Faulty variant: every change copies the parameters of the rendering.
Changed_Fresh(kind, value) == [shown EXCEPT ![kind] = value]
\* set...Param: the copy of the rendering is changed in place, so that it has
\* all changes since.
Changed(kind, value) == [draft EXCEPT ![kind] = value]

\* setSearchParams: no navigation to what the rendering has.
SetSearchParams(kind, value) ==
  /\ draft' = Changed(kind, value)
  /\ url' = IF draft' = shown THEN url ELSE draft'
  /\ wanted' = [wanted EXCEPT ![kind] = value]
  /\ outrun' = outrun \ {kind}
  /\ UNCHANGED <<shown, count>>

\* A click on a column's header; the table works out changes from what it shows.
ToggleSorting ==
  /\ SetSearchParams("sort",
       [none |-> "asc", asc |-> "desc", desc |-> "none"][shown.sort])
  /\ UNCHANGED box

SetColumnFilters(filters) == SetSearchParams("filters", filters) /\ UNCHANGED box

\* First, previous, next, last.
SetPageIndex ==
  LET p == shown.pagination
      last == PageCount(count, p.size) - 1
  IN  /\ \E i \in 0 .. MaxRows :
           /\ \/ p.index > 0 /\ i \in {0, p.index - 1}
              \/ p.index < last /\ i \in {p.index + 1, last}
           /\ SetSearchParams("pagination", [p EXCEPT !.index = i])
      /\ UNCHANGED box

\* The page with the row that is at the top.
SetPageSize(size) ==
  LET p == shown.pagination
  IN  /\ SetSearchParams("pagination", [size |-> size, index |-> (p.index * p.size) \div size])
      /\ UNCHANGED box

\* The search box waits until nothing has been typed for a while.
Type(text) ==
  /\ text # box.text
  /\ box' = [text |-> text, due |-> TRUE]
  /\ UNCHANGED <<url, shown, draft, count, wanted, outrun>>
SearchTimer ==
  /\ box.due
  /\ SetSearchParams("search", box.text)
  /\ box' = [box EXCEPT !.due = FALSE]
ClearSearch == shown.search # "" /\ SetSearchParams("search", "") /\ UNCHANGED box

-----------------------------------------------------------------------------

\* Faulty variant: a page after the last one stays.
Clamped_No(params, rows) == params
\* Faulty variant: without rows the page before the first one is taken.
Clamped_Last(params, rows) ==
  LET pages == PageCount(rows, params.pagination.size)
  IN  IF params.pagination.index >= pages
      THEN [params EXCEPT !.pagination.index = pages - 1] ELSE params
\* The effect of a rendering.
Clamped(params, rows) ==
  LET pages == PageCount(rows, params.pagination.size)
  IN  IF params.pagination.index >= pages
      THEN [params EXCEPT !.pagination.index = IF pages = 0 THEN 0 ELSE pages - 1]
      ELSE params

\* A rendering of parameters and rows.  The search box takes over a search
\* that has changed, and then its timer starts.
Rendered(params, rows) ==
  LET new == Clamped(params, rows)
  IN  /\ shown' = params /\ count' = rows
      /\ draft' = new /\ url' = new
      /\ box' = IF params.search # shown.search /\ params.search # box.text
                THEN [text |-> params.search, due |-> TRUE] ELSE box

\* The address, the rows or both have changed; or back, forward or a link from
\* a rendered page.  (A change between such a navigation and its rendering,
\* which would undo the navigation, is left out.)
Render(params, rows) ==
  /\ params # url => url = shown
  /\ Rendered(params, rows)
  /\ wanted' = url'
  /\ outrun' = {k \in outrun : k = "search" /\ box'.text # url'.search}

\* A rendering before the address is where the changes lead: the copy is made
\* anew, and a page that is not there is left at once, whatever is under way.
RenderAgain(rows) ==
  LET new == Clamped(shown, rows)
      lost == {k \in TableParams : wanted[k] # shown[k]}
  IN  /\ url # shown
      /\ draft' = new /\ count' = rows
      /\ \/ /\ new = shown
            /\ outrun' = outrun \cup lost
            /\ UNCHANGED <<url, wanted>>
         \/ /\ new # shown
            /\ url' = new
            /\ wanted' = [wanted EXCEPT !.pagination = new.pagination]
            /\ outrun' = (outrun \cup lost) \ {"pagination"}
      /\ UNCHANGED <<shown, box>>

TableNext ==
  \/ ToggleSorting \/ SetPageIndex \/ SearchTimer \/ ClearSearch
  \/ \E f \in FilterSets \cup {"none"} : SetColumnFilters(f)
  \/ \E s \in PageSizes : SetPageSize(s)
  \/ \E t \in Texts : Type(t)
  \/ \E n \in 0 .. MaxRows, p \in Params(0 .. MaxRows) \cup {url} : Render(p, n)
  \/ \E n \in 0 .. MaxRows : RenderAgain(n)

-----------------------------------------------------------------------------

\* All changes since the rendering are in the address, the last of each kind,
\* unless together they lead back to what was rendered: those are lost.  A
\* change may also be lost to the next one if the table has been rendered
\* again in between, but not one that came after that.
ChangesAreKept ==
  \/ \A k \in TableParams \ outrun : url[k] = wanted[k]
  \/ \A k \in TableParams \ outrun : wanted[k] = shown[k]

\* A rendering of what is in the address shows a page there is.
PageExists ==
  url = shown => \/ url.pagination.index = 0
                 \/ url.pagination.index < PageCount(count, url.pagination.size)

\* When nothing is under way the search box has the search, unless that has
\* been lost, which the box never hears of.
BoxHasTheSearch ==
  url = shown /\ ~box.due /\ "search" \notin outrun => box.text = url.search

(* A table shows what its address says and loses no change that came after *)
(* its last rendering: the setters of StdTableProvider.tsx 84-114 and      *)
(* 137-157 compose although each works on the rendering's copy, the page   *)
(* exists (178-182), and the debounced search box agrees with the address  *)
(* (dataTable 145-170).                                                     *)
TablesKeepTheirState == ChangesAreKept /\ PageExists /\ BoxHasTheSearch
=============================================================================
