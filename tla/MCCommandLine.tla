--------------------------- MODULE MCCommandLine ---------------------------
(***************************************************************************)
(* CommandLine over words of two letters: three words at the top, so that  *)
(* a selector of two rows scrolls; a positional argument with and without  *)
(* a completer, a word beside an argument ("AB BB") and two arguments      *)
(* beside each other (behind "AA"); a keyword and a repeated keyword.  The *)
(* letters are also those of escape sequences.                             *)
(***************************************************************************)
EXTENDS CommandLine

A == <<"A">>
B == <<"B">>
AA == <<"A", "A">>
AB == <<"A", "B">>
BB == <<"B", "B">>

Name(word) == Fragment(word, FALSE, <<>>)
Positional(word, completer) == Fragment(word, TRUE, completer)

MCOffers == [names |-> <<A, AB>>]

MCCommands ==
    <<[path |-> <<Name(AB), Positional(AA, <<"names">>)>>, keywords |-> <<>>,
       handler |-> "set"],
      [path |-> <<Name(AB), Positional(AA, <<"names">>), Name(B), Positional(BB, <<>>)>>,
       keywords |-> <<>>, handler |-> "rename"],
      [path |-> <<Name(B)>>,
       keywords |-> <<Keyword(A, FALSE, <<"names">>), Keyword(B, TRUE, <<>>)>>,
       handler |-> "list"],
      [path |-> <<Name(AA)>>, keywords |-> <<>>, handler |-> "reset"],
      [path |-> <<Name(AB), Name(BB)>>, keywords |-> <<>>, handler |-> "set all"],
      [path |-> <<Name(AA), Positional(AB, <<"names">>), Name(A)>>, keywords |-> <<>>,
       handler |-> "first"],
      [path |-> <<Name(AA), Positional(BB, <<>>), Name(B)>>, keywords |-> <<>>,
       handler |-> "second"]>>

(* The lines "B B A A B B B", "B A B A B" and "AB A B B" of earlier sessions, *)
(* to recall and run: a repeated keyword, a keyword that may not be, and a   *)
(* positional behind a name.                                                *)
Earlier ==
    <<<<"B", " ", "B", " ", "A", " ", "A", " ", "B", " ", "B", " ", "B">>,
      <<"B", " ", "A", " ", "B", " ", "A", " ", "B">>,
      <<"A", "B", " ", "A", " ", "B", " ", "B">>>>

(* The lines "AA A B", "AA B A" and "AB BB": the first fits the command whose *)
(* argument is the second of the two, the last both the word and the        *)
(* argument.                                                                *)
EarlierStill ==
    <<<<"A", "A", " ", "A", " ", "B">>,
      <<"A", "A", " ", "B", " ", "A">>,
      <<"A", "B", " ", "B", "B">>>>

MCBeginnings ==
    {[file |-> <<>>, budget |-> 3], [file |-> <<Earlier>>, budget |-> 1],
     [file |-> <<EarlierStill>>, budget |-> 1]}

MCChunks ==
    {<<"A">>, <<"B">>, <<" ">>, <<"^I">>, <<"^M">>, <<"^A">>, <<"^E">>, <<"^?">>,
     <<"^B">>, <<"^F">>, <<"^P">>, <<"^N">>, <<"^D">>,
     <<"^[", "[", "Z">>, <<"^[", "[", "3", "~">>, <<"^[", "[", "^I">>, <<"^[", "B">>,
     <<"^M", "A">>}
=============================================================================
