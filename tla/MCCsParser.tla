----------------------------- MODULE MCCsParser -----------------------------
(* Strings and an environment for TLC.                                     *)
EXTENDS CsParser, SequencesExt

CONSTANT MaxLen      \* bound: tokens behind a head

Words == {"name", "env", "unix", "3301", "65536", "003301"}
Tokens == {":", "/", "@", "[", "]"} \cup Words

\* Words are maximal: no two of them touch.
IsText(s) == \A i \in 1 .. Len(s) - 1 : s[i] \notin Words \/ s[i + 1] \notin Words

\* Logins, and addresses in brackets, which would take too many tokens otherwise.
Heads == {<<>>, <<"name", "@">>, <<"name", ":", "0", "@">>, <<":", "name", "@">>,
          <<"name", "@", "[">>, <<"[", "env">>}

MCTexts == {t \in {head \o s : head \in Heads, s \in BoundedSeq(Tokens, MaxLen)} :
              IsText(t)}

MCNumerals == ("0" :> <<1, 0>>) @@ ("3301" :> <<4, 3301>>) @@ ("65536" :> <<5, 65536>>)
              @@ ("003301" :> <<6, 3301>>)

MCEnv == (<<"name">> :> <<"env", "/", ":", "unix">>)
         @@ (<<"unix">> :> <<"unix", "@", ":", "3301">>)
         @@ (<<"env">> :> <<>>)
=============================================================================
