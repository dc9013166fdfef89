----------------------------- MODULE TokenTexts -----------------------------
(***************************************************************************)
(* Texts that need not be JSON: a stem that brings a scan into an          *)
(* interesting place (inside an object, an array, a nested array), and any *)
(* few tokens after it - unbalanced brackets, open strings, stray colons.  *)
(***************************************************************************)
EXTENDS JsonText

CONSTANT TailLength        \* tokens after the stem

Name == <<Quote, "a", Quote>>

Stems == {<<>>, <<"[">>, <<"{">> \o Name \o <<":">>,
          <<"[", "1", ",", " ">>, <<"{">> \o Name \o <<":", "[">>,
          <<"{", "}">>, <<"{">> \o Name \o <<":", "{", "}", ",">>}

Tokens == {<<"{">>, <<"}">>, <<"[">>, <<"]">>, <<",", " ">>, <<":">>,
           Name, <<Quote>>, <<"'">>, <<"1">>}

Tails == UNION {[1 .. n -> Tokens] : n \in 0 .. TailLength}

Joined(s) == LET join[k \in 0 .. Len(s)] ==
                   IF k = 0 THEN <<>> ELSE join[k - 1] \o s[k]
             IN  join[Len(s)]

Texts == {stem \o Joined(tail) : stem \in Stems, tail \in Tails}
=============================================================================
