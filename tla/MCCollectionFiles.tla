------------------------- MODULE MCCollectionFiles -------------------------
\* Small listings for TLC: neighbours of two collections; and a collection in
\* two directories of the export, with one outside the secret in between.
EXTENDS CollectionFiles

MCListings == {<<"c1", "c1", "c2", "c2", "other">>,
               <<"c1", "c2", "c2", "other", "c1">>}

MCSecrets == {"c1", "c2", "c3"}

\* Four files share a data key, and all of them a key encryption key.
MCCipher == <<"x", "x", "x", "y", "x">>
MCKek    == <<"a", "a", "a", "a", "a">>
MCPlain  == [x |-> "plain x", y |-> "plain y"]
=============================================================================
