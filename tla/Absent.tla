------------------------------- MODULE Absent -------------------------------
(***************************************************************************)
(* What the modules of the parts share: Python's None (no value, no        *)
(* number, no day), a value of a shape that is not accepted, and the       *)
(* categories that may be chosen.                                          *)
(***************************************************************************)
CONSTANTS
    None,
    Wrong,
    CategoriesOf  \* direction -> its categories
=============================================================================
