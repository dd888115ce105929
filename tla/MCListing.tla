----------------------------- MODULE MCListing ------------------------------
(***************************************************************************)
(* Small instances of Listing for TLC.  Segments are numbers in byte       *)
(* order: 0 is the empty one of a folder marker, 1 is "A", 2 is "a" and 3  *)
(* is "b".                                                                 *)
(***************************************************************************)
EXTENDS Listing

\* There is one key below "A", so that FoldersApart of ListingProofs holds.
MCKey == {<<1, 3>>, <<2, 0>>, <<2, 3>>, <<3>>, <<3, 0>>, <<3, 3>>,
          <<3, 1, 3>>}

MCFolder == {<<>>, <<2>>, <<3>>}

MCFold == [s \in 0..3 |-> IF s = 1 THEN 2 ELSE s]

\* A folder, an object, and an object whose name does not change.
MCMoves ==
    {[whole |-> TRUE, from |-> <<2>>, to |-> <<3>>],
     [whole |-> FALSE, from |-> <<2, 3>>, to |-> <<3>>],
     [whole |-> FALSE, from |-> <<3>>, to |-> <<3>>]}

\* A folder that is moved into the folder it is in, and has one of its own name.
NestedKey == {<<2, 3>>, <<2, 2, 3>>, <<2, 2, 2, 3>>}

NestedFolder == {<<2>>, <<2, 2>>}

NestedMoves == {[whole |-> TRUE, from |-> <<2, 2>>, to |-> <<2>>]}

\* Folders in "A" that a listing of "a" by pages of one entry takes for its own.
\* They are listed as "a/a/" and "a/b/", which "a/A" comes before.
LimitKey == {<<1, 2, 3>>, <<1, 3, 3>>, <<2, 1>>, <<3>>}

LimitMoves == {[whole |-> FALSE, from |-> <<3>>, to |-> <<3>>]}

=============================================================================
