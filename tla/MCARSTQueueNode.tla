-------------------------- MODULE MCARSTQueueNode --------------------------
(* Lines for TLC: time, instrument, ..., price at 3, volume at 4, time at 8. *)
EXTENDS ARSTQueueNode

Line(symbol, price, volume, epoch) ==
  <<<<"X">>, symbol, <<"B">>, price, volume, <<"T">>, <<"a">>, <<"b">>, epoch>>

(* The first two are different trades with the same key, the third is the  *)
(* same trade of another instrument; the line with an empty price field is *)
(* read one field off, and the last line has none of the three fields.     *)
Lines == {
  Line(<<"S">>, <<"1">>, <<"2", "3">>, <<"9">>),
  Line(<<"S">>, <<"1", "2">>, <<"3">>, <<"9">>),
  Line(<<"R">>, <<"1">>, <<"2", "3">>, <<"9">>),
  Line(<<"S">>, <<"1">>, <<"2">>, <<"9">>),
  Line(<<"S">>, <<"2">>, <<"1">>, <<"8">>),
  Line(<<"S">>, <<>>, <<"1">>, <<"8">>),
  Line(<<"S">>, <<"3">>, <<"1">>, <<"8">>),
  <<<<"p", "o", "n", "g">>>>}
=============================================================================
