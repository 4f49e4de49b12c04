------------------------------ MODULE MCFileIo ------------------------------
(***************************************************************************)
(* The files of detools_apply_patch_filenames and of                       *)
(* detools_apply_patch_in_place_filenames.                                 *)
(***************************************************************************)
EXTENDS FileIo

Sequential(to_size, close_may_fail) ==
    [files |-> <<"from", "to", "patch">>, written |-> "to", to_size |-> to_size,
     close_may_fail |-> close_may_fail]

InPlace(to_size, close_may_fail) ==
    [files |-> <<"memory", "patch">>, written |-> "memory", to_size |-> to_size,
     close_may_fail |-> close_may_fail]

\* The failure of fclose is returned only with an image of size zero.
Reported == {Sequential(0, TRUE), Sequential(7, FALSE), InPlace(0, TRUE), InPlace(7, FALSE)}

LateFailure == {Sequential(7, TRUE)}
=============================================================================
