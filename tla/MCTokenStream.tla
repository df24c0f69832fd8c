---------------------------- MODULE MCTokenStream ----------------------------
(* Replies with one token or two, tokens nobody issued, beginnings of tokens
   that come to nothing, each separator, and a token inside a longer word.  Of
   the people two share a word of their names, one has a name that is too short
   alone, one was renamed, and one is only a number. *)
EXTENDS TokenStream

Token(sep, digits) == Word \o <<sep>> \o digits

One == <<"1">>
Twelve == <<"1", "2">>

SomeReplies ==
    { Token("_", Twelve),
      <<"X", " ">> \o Token("-", One) \o <<".">>,
      Token(" ", One) \o <<" ">> \o Token("_", Twelve) \o <<" ">>,
      Token("_", <<"1", "2", "1">>) \o <<" ", "X">>,
      Token("_", <<"1", "2", "1", "2", "1", "2", "1">>) \o <<" ">>,
      <<"C", "O">> \o <<" ">> \o Word \o <<"_", " ", "X", "C">>,
      <<"C", "C", "O", " ">> \o Token("_", One),
      <<"X">> \o Token("_", One) \o <<"X">> }

TokenNumbers == {One, Twelve, <<"7">>, <<"8">>}

Lengths ==
    [w \in {"dana", "lee", "eli", "park", "al", "io", "1555", "1777", "hi",
            " ", "@", "+", "'", "s"} |->
        CASE w \in {"dana", "park", "1555", "1777"} -> 4
          [] w \in {"lee", "eli"} -> 3
          [] w \in {"al", "io", "hi"} -> 2
          [] OTHER -> 1]

Dana == [names |-> << <<"dana", " ", "lee">> >>,
         handles |-> << <<"dana", "@", "io">>, <<"+", "1555">> >>]
Park == [names |-> << <<"dana", " ", "park">>, <<"eli">> >>, handles |-> << <<"+", "1555">> >>]
Eli == [names |-> << <<"eli">> >>, handles |-> << <<"@", "eli">> >>]
Al == [names |-> << <<"al", " ", "lee">> >>, handles |-> <<>>]
Nameless == [names |-> << <<>> >>, handles |-> << <<"+", "1777">> >>]

SomeIndexes == {<<Dana, Eli>>, <<Al, Park>>, <<Nameless, Dana>>}
=============================================================================
