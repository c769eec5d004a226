--------------------------- MODULE MCConfigSession ---------------------------
(* Two lists, one of each kind, or one, and small files.                    *)
EXTENDS ConfigSession

TwoSections == <<"mappings", "macros">>
OneSection == <<"macros">>
Named(s, l, m) == [scalars |-> s, lists |-> [n \in SectionNames |-> IF n = "mappings" THEN l ELSE m]]

Empty == Named(0, << >>, << >>)
Small == Named(1, <<"a">>, <<"b">>)
OneFile == {Small}
==============================================================================
