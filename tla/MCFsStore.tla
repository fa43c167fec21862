------------------------------ MODULE MCFsStore -----------------------------
(* Instances of FsStore for TLC: blocks of two cells, files of up to two blocks. *)
EXTENDS FsStore, TLC

MCContents == {<<>>, <<"a">>, <<"b", "b">>, <<"b", "a", "b">>}
MCShort == {<<"a">>, <<"b", "a", "b">>}
MCChunks == {<<"a">>, <<"b">>}
MCOneChunk == {<<"a">>}
NameSymmetry == Permutations(Names)
=============================================================================
