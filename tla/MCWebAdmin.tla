----------------------------- MODULE MCWebAdmin -----------------------------
(* WebAdmin with the visits and foreign forms that reach every answer. *)
EXTENDS WebAdmin

MCVisits ==
  {<<"GET", "alert">>, <<"GET", "delete">>, <<"GET", "new">>, <<"GET", "settings">>,
   <<"GET", "nodes">>, <<"HEAD", "list">>, <<"HEAD", "alert">>, <<"HEAD", "settings">>,
   <<"HEAD", "new">>, <<"GET", "convert">>}
MCForeign == {<<"delete", "other">>}
=============================================================================
