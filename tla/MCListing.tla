------------------------------ MODULE MCListing ------------------------------
(***************************************************************************)
(* Small instances of Listing: the root, one directory below it, and a     *)
(* name too long for a record.                                             *)
(***************************************************************************)
EXTENDS Listing

CONSTANTS a, b, c   \* file names, c a long one

Paths == {Root, <<Nil, a>>, <<Nil, b>>, <<Nil, c>>, <<Nil, a, b>>}
TwoModes == {PermBits}
NoData == {<<>>}

WithoutLast == <<inodes, next_inode_number, current_directory, files, path_map,
                 fd_table, open_files, umask_value, trapped, listings>>
=============================================================================
