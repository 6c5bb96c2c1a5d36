------------------------------ MODULE MCIniFile ------------------------------
(* A file of every kind of line, in orders that load accepts and refuses,  *)
(* and an object that is edited with texts it can and cannot store.        *)
EXTENDS IniFile

MCWords == {"a", "b", "k", "v", "w", "c"}

(* Comments before and behind items and headers, a value with =, duplicate *)
(* keys; a nameless header followed by an item; headers without an end and *)
(* one that is there twice.                                                *)
MCFiles ==
  { << <<"k", "=", "v", "#", "c">>, <<";", "c">>, <<"[", "a", "]", "#", "c">>, <<>>,
       <<"#", "c">>, <<";", "b">>, <<"k", "=", "v", "=", "w", ";", "b">>, <<"k", "=", "w">>, <<"#", "b">> >>,
    << <<"[", "a", "]">>, <<"#", "c">>, <<"w">>, <<"=">>, <<"[", "]">>, <<"#", "b">>,
       <<"[", "b", "]">>, <<"v", "=">> >>,
    << <<"k", "=", "v">>, <<"[", "]">>, <<"w", "=", "v">> >>,
    << <<"[", "a", "]">>, <<"k", "=", "v">>, <<"[", "a", "]">>, <<"w", "=", "v">> >>,
    << <<"k", "=", "v">>, <<"[", "a", "#", "b", "]">> >> }

MCNames    == {<<>>, <<"a">>, <<"b">>}
MCKeys     == {<<"k">>, <<"[", "k">>}
MCValues   == {<<"w">>, <<"w", "#", "v">>}
MCComments == {<<>>, <<"k", "=", "c">>, <<"#", "c">>}
MCFlagLists == {<<";">>}
==============================================================================
