---------------------------- MODULE MCDictionary ----------------------------
(* Small instances of the dictionary for TLC.  Traces has traces that branch at *)
(* every depth and traces that are prefixes of others, each at least two calls  *)
(* long, as backtrace gives them: main is never alone on the stack.             *)
EXTENDS DictionaryProperties

Traces == {<<"a", "b">>, <<"a", "b", "a">>, <<"a", "c">>, <<"b", "a">>}

===============================================================================
