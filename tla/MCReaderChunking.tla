------------------------- MODULE MCReaderChunking -------------------------
(***************************************************************************)
(* ReaderParser on streams that need not be JSON, with a reader that       *)
(* chops, stalls and fails as it likes and mixes data with its errors.     *)
(***************************************************************************)
EXTENDS ReaderChunking

CONSTANT TailLength      \* tokens after the stem

Name == <<Quote, "a", Quote>>
Stems == {<<>>, <<"[">>, <<"{">> \o Name \o <<":">>, <<"[", "1", ",">>,
          <<"{">> \o Name \o <<":", "[">>, <<"{">> \o Name \o <<":", "1", " ", ",">>}
Tokens == {<<"{">>, <<"}">>, <<"[">>, <<"]">>, <<",">>, <<":">>,
           Name, <<Quote, Backslash>>, <<" ", "1">>}

Tails == UNION {[1 .. n -> Tokens] : n \in 0 .. TailLength}

Joined(s) == LET join[k \in 0 .. Len(s)] ==
                   IF k = 0 THEN <<>> ELSE join[k - 1] \o s[k]
             IN  join[Len(s)]

A == <<"a">>
I(n) == <<"[", DigitNames[n + 1], "]">>

PathsOf(name) == CASE name = "Get"       -> {<<>>, <<A>>, <<I(1)>>, <<A, I(0)>>}
                   [] name = "GetString" -> {<<>>, <<A>>}
                   [] name = "ArrayEach" -> {<<>>}

MCInit == /\ \E stem \in Stems, tail \in Tails : stream = stem \o Joined(tail)
          /\ op \in {"Get", "GetString", "ArrayEach"}
          /\ path \in PathsOf(op)
          /\ Init

MCSpec == MCInit /\ [][Next]_vars
=============================================================================
