--------------------------- MODULE MCEntryAdmission ---------------------------
(* EntryAdmission with a scheduler and a request of the control API. *)
EXTENDS EntryAdmission, TLC

CONSTANTS tick, post

MCGroups == {1, 2}
MCOne == {1}
MCCallers == {tick, post}
MCSchedulers == {tick}
=============================================================================
