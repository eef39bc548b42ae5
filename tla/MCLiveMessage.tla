--------------------------- MODULE MCLiveMessage ---------------------------
(***************************************************************************)
(* Values for LiveMessage: hex digits of four values, so that lengths of   *)
(* four and more have two digits; names, keys and strings that look like   *)
(* parts of a message, and one of each that is too long.                   *)
(***************************************************************************)
EXTENDS LiveMessage

MCChars == {"0", "1", "2", "A", "a", "h", "i", "s", ":"}
MCHexDigits == <<"0", "1", "2", "A">>
MCLowerDigits == <<"0", "1", "2", "a">>
MCNames == {<<"a">>, <<"s", "h", "1">>, <<"a", "a", "a", "a">>}
MCKeys == {<<"a">>, <<"i">>, <<"s", "a", "0">>, <<"a", "a", "a", "a">>}
MCValues ==
  [kind : {"int"}, value : {0, 1, 64, 255}]
    \cup [kind : {"string"},
          value : {<<>>, <<"s">>, <<"i", "1", "s">>, <<"1", ":", "a", "s", "a">>}]
    \cup [kind : {"bytes"}, value : {<<0, 3>>, <<7, 0, 9>>, <<12, 1>>}]
=============================================================================
