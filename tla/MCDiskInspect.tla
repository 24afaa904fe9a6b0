--------------------------- MODULE MCDiskInspect ---------------------------
(* A small disk: one direct block, blocks of two words.                    *)
EXTENDS DiskInspect

MCOffsets  == {0, 4, 22}
MCRawPaths == {<<"/">>, <<"/", "b">>, <<"/", "/", "b", "/", "a">>, <<"b", "/", "b">>,
               <<"/", "b", "\\", "a">>, <<"a", "b">>}
=============================================================================
