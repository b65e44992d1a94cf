---------------------------- MODULE MCLayoutCache ----------------------------
(***************************************************************************)
(* One address and what answers there in turn: an inverter, its firmware   *)
(* updates and the inverter that replaces it.                              *)
(***************************************************************************)
EXTENDS LayoutCacheProperties

B(id, len) == [id |-> id, len |-> len]

\* Model 1, then an inverter model.
Original == <<B(1, 2), B(103, 3)>>
\* An update puts the nameplate in between.
Inserted == <<B(1, 2), B(120, 1), B(103, 3)>>
\* Another adds storage behind it.
Appended == <<B(1, 2), B(120, 1), B(103, 3), B(124, 1)>>
\* The replacement has a single-phase model of the same length as the first.
Replaced == <<B(1, 2), B(101, 3)>>
\* An update that swaps two blocks between the first and the last.
Middle == <<B(1, 2), B(120, 1), B(121, 2), B(103, 3)>>
MiddleSwapped == <<B(1, 2), B(121, 2), B(120, 1), B(103, 3)>>

Updates == <<Original, Inserted, Appended, Replaced>>
UpdateIds == <<[who |-> "A", fw |-> 1], [who |-> "A", fw |-> 2],
               [who |-> "A", fw |-> 3], [who |-> "B", fw |-> 1]>>

\* The last loses a model that the one before had.
Reorders == <<Middle, MiddleSwapped, Original>>
ReorderIds == <<[who |-> "A", fw |-> 1], [who |-> "A", fw |-> 2],
                [who |-> "A", fw |-> 3]>>

\* The proofs of LayoutCacheProofs suppose this of a device; the reorders are
\* what validation cannot see.
ASSUME UpdatesShow ==
    /\ ChainOf = Updates => EndsTellLayouts
    /\ ChainOf = Reorders => ~EndsTellLayouts
    /\ IdentitiesDiffer /\ ModelsDoNotComeBack
=============================================================================
