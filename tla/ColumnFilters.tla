------------------------------ MODULE ColumnFilters ------------------------------
(***************************************************************************)
(* The dialog that filters a column by a range: between two bounds, up to  *)
(* one or from one.  It has a copy of the filter, which it writes when     *)
(* applied; the filter goes through the address, where a bound that is     *)
(* undefined becomes null.  A new filter has a dialog of its own; that of  *)
(* a filter that is there lives as long as the filter, canceled or not.    *)
(*                                                                         *)
(* Dates and durations are numbers to the dialog, which is one of three,   *)
(* for columns of dates, numbers and durations.  Filters by an option or a *)
(* text, with one value that is written as shown, are left out.            *)
(***************************************************************************)
EXTENDS Naturals

CONSTANTS
  Bounds,               \* numbers
  Undefined, Null,      \* null, or not a number: an input that was emptied
  NoDialog

Values == Bounds \cup {Undefined, Null}
Missing == {Undefined, Null}
Filters == Values \X Values

VARIABLES
  column,       \* what it has
  columnFilter, \* getFilterValue(): Undefined or a filter
  dialog        \* [of, type, filter]

filterVars == <<column, columnFilter, dialog>>

\* What an input may give: an emptied one of a date undefined, of a number not
\* a number, which a change of the duration's unit does not make one.
DateInput == Bounds \cup {Undefined}
NumberInput == Bounds \cup {Null}
DurationInput == NumberInput
Input == [date |-> DateInput, number |-> NumberInput, duration |-> DurationInput]

Types == {"between", "less", "more"}
Dialog == [of : {"new", "existing"}, type : Types, filter : Filters]

FilterTypeOK ==
  /\ column \in DOMAIN Input
  /\ columnFilter \in Filters \cup {Undefined}
  /\ dialog \in Dialog \cup {NoDialog}

FilterInit == column \in DOMAIN Input /\ columnFilter = Undefined /\ dialog = NoDialog

-----------------------------------------------------------------------------
(* useMathFilterConstraints                                                 *)

Truthy(v) == v \notin Missing \cup {0}
TypeOf(f) ==
  CASE Truthy(f[1]) /\ Truthy(f[2]) -> "between"
    [] ~Truthy(f[1]) /\ Truthy(f[2]) -> "less"
    [] OTHER -> "more"

Initial == IF columnFilter = Undefined THEN <<Undefined, Undefined>> ELSE columnFilter
NewDialog(of) == [of |-> of, type |-> TypeOf(Initial), filter |-> Initial]

\* Faulty variant: the bound that goes out of sight is kept.
FilterFor_Kept(type) == dialog.filter
\* radioOnChange
FilterFor(type) ==
  CASE dialog.type = "between" /\ type = "less" -> <<Undefined, dialog.filter[2]>>
    [] dialog.type = "between" /\ type = "more" -> <<dialog.filter[1], Undefined>>
    [] {dialog.type, type} = {"less", "more"} -> <<Undefined, Undefined>>
    [] OTHER -> dialog.filter

IsDisabled ==
  \/ dialog.filter[1] = Undefined /\ dialog.type # "less"
  \/ dialog.filter[2] = Undefined /\ dialog.type # "more"

-----------------------------------------------------------------------------

\* "Add filter", or the filter there is is rendered.
OpenNew ==
  /\ columnFilter = Undefined /\ dialog = NoDialog
  /\ dialog' = NewDialog("new") /\ UNCHANGED <<column, columnFilter>>
OpenExisting ==
  /\ columnFilter # Undefined /\ dialog = NoDialog
  /\ dialog' = NewDialog("existing") /\ UNCHANGED <<column, columnFilter>>

RadioOnChange(type) ==
  /\ dialog # NoDialog
  /\ dialog' = [dialog EXCEPT !.type = type, !.filter = FilterFor(type)]
  /\ UNCHANGED <<column, columnFilter>>

\* In an input that the type shows.
Enter(i, v) ==
  /\ dialog # NoDialog
  /\ dialog.type = "between" \/ dialog.type = IF i = 1 THEN "more" ELSE "less"
  /\ dialog' = [dialog EXCEPT !.filter[i] = v]
  /\ UNCHANGED <<column, columnFilter>>

CancelFilter ==
  /\ dialog # NoDialog
  /\ dialog' = IF dialog.of = "new" THEN NoDialog ELSE dialog
  /\ UNCHANGED <<column, columnFilter>>

\* The filter as it comes back from the address.
Written(v) == IF v = Undefined THEN Null ELSE v

\* A new filter's dialog ends and that of the filter begins with it.
ApplyFilter ==
  /\ dialog # NoDialog /\ ~IsDisabled
  /\ columnFilter' = <<Written(dialog.filter[1]), Written(dialog.filter[2])>>
  /\ dialog' = IF dialog.of = "new" THEN NoDialog ELSE dialog
  /\ UNCHANGED column

\* "Remove", the cross beside the filter, or another address.
RemoveFilter ==
  /\ columnFilter # Undefined
  /\ columnFilter' = Undefined /\ dialog' = NoDialog /\ UNCHANGED column

FilterNext ==
  \/ OpenNew \/ OpenExisting \/ CancelFilter \/ ApplyFilter \/ RemoveFilter
  \/ \E t \in Types : RadioOnChange(t)
  \/ \E i \in {1, 2}, v \in Input[column] : Enter(i, v)

-----------------------------------------------------------------------------

(* Applying the dialog filters by what it shows: a bound that its type     *)
(* does not show is missing, whichever way the dialog came to its type,    *)
(* reopened after a detour through the address included                    *)
(* (ColumnFilter.tsx 187-248).  A bound 0 is the exception: the type of a  *)
(* reopened filter takes it for missing, and applies it all the same.      *)
HiddenBoundsAreMissing ==
  dialog # NoDialog =>
    /\ dialog.type = "less" => dialog.filter[1] \in Missing \cup {0}
    /\ dialog.type = "more" => dialog.filter[2] \in Missing \cup {0}
=============================================================================
