----------------------- MODULE MCKeyValueNormalization -----------------------
(***************************************************************************)
(* Bounded inputs for KeyValueNormalization. The keys "a b" and "a&b"     *)
(* order differently as raw bytes and URL-encoded; the value "b&b=b"      *)
(* spells, unencoded, the tail of a two-entry map.                        *)
(***************************************************************************)
EXTENDS KeyValueNormalization

MCKeys == {<<"a">>, <<"b">>, <<"a", " ", "b">>, <<"a", "&", "b">>}

MCValues == {<<"b">>, <<" ">>, <<"b", "&", "b", "=", "b">>}

=============================================================================
