---------------------------- MODULE MCCollections ----------------------------
(* Requests whose paths, aliases and references collide in every table. *)
EXTENDS Collections, TLC

MCPaths == {"a", "b", "c", "d"}

New(k, objs, aliases, refs, sets) ==
  [op |-> "create", kind |-> k, objs |-> objs, aliases |-> aliases, refs |-> refs, sets |-> sets]
Patch(k, aliases) ==
  [op |-> "patch", kind |-> k, objs |-> {}, aliases |-> aliases, refs |-> {}, sets |-> {}]

MCRequests ==
  {New("column", {"a"}, {}, {}, {}),
   New("column", {"c"}, {<<"a", "c">>, <<"b", "c">>, <<"d", "c">>}, {}, {}),
   Patch("column", {<<"b", "a">>}),
   Patch("column", {<<"b", "a">>, <<"d", "a">>}),
   Patch("column", {<<"d", "c">>, <<"b", "c">>}),
   New("locality", {"a", "b"}, {<<"c", "a">>, <<"d", "b">>}, {}, {}),
   New("locality", {"a"}, {}, {}, {}),
   New("locality", {"c"}, {}, {"b"}, {}),
   Patch("locality", {<<"c", "a">>, <<"d", "a">>}),
   New("geo_layer", {"a"}, {}, {}, {}),
   New("column_set", {"a"}, {}, {"a", "b"}, {}),
   New("column_set", {"b"}, {}, {"a", "c"}, {}),
   New("view_template", {"a"}, {}, {"b"}, {"b"}),
   New("view_template", {"b"}, {}, {"c", "b"}, {})}

Symmetric == Permutations(Workers)
=============================================================================
