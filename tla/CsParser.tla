------------------------------ MODULE CsParser ------------------------------
(***************************************************************************)
(* parse_cs() (cs_parser.cpp): a connection string is taken apart chunk by *)
(* chunk, up to the next of the separators, which decides what the chunk   *)
(* was.  A string may name an environment variable that holds another one. *)
(*                                                                         *)
(* A string is a sequence of tokens: separators, "]", and words, which are *)
(* maximal (no two words touch).  One action is one turn of the loop.      *)
(* Behind the last token there is a terminating null character, as in the  *)
(* std::string of the connection and in what getenv() returns.             *)
(***************************************************************************)
EXTENDS Integers, Sequences, FiniteSetsExt

CONSTANTS Texts,     \* the connection strings given
          Env,       \* the environment: from names to strings
          Numerals   \* words that are numerals: how many characters, what number

Separators == {":", "/", "@", "["}

ASSUME TextsAssumption == Texts \subseteq Seq(STRING)
ASSUME EnvAssumption == \A v \in DOMAIN Env : Env[v] \in Seq(STRING)
ASSUME NumeralsAssumption == DOMAIN Numerals \cap Separators = {}

VARIABLES
    text,      \* connection_string of the innermost parse_cs()
    tail,      \* what is left of it
    res,       \* the parts found so far
    result     \* <<>>, or <<parts>> once parse_cs() has returned

vars == <<text, tail, res, result>>

-----------------------------------------------------------------------------
Nothing == [unix_socket_path |-> <<>>, user |-> <<>>, password |-> <<>>,
            host |-> <<>>, port |-> <<>>]

From(s, n) == SubSeq(s, n + 1, Len(s))

\* get_chunk(): up to the first separator, or all there is.
ChunkUpTo(t, separators) ==
    LET ends == {i \in 1..Len(t) : t[i] \in separators}
    IN IF ends = {} THEN t ELSE SubSeq(t, 1, Min(ends) - 1)

Ahead(t) == IF t = <<>> THEN "null" ELSE t[1]

\* chunk2port(): up to five characters that from_chars() makes a uint16_t of.
IsPort(c) ==
    /\ Len(c) = 1 /\ c[1] \in DOMAIN Numerals
    /\ Numerals[c[1]][1] <= 5 /\ Numerals[c[1]][2] <= 65535

\* The end of parse_cs(), once there is a port.
Complete(r) ==
    [r EXCEPT !.user = IF @ = <<>> THEN <<"guest">> ELSE @,
              !.host = IF @ = <<>> THEN <<"localhost">> ELSE @]

Return(r) == result' = <<r>> /\ UNCHANGED <<text, tail, res>>
ReturnIf(cond, r) == Return(IF cond THEN r ELSE Nothing)

-----------------------------------------------------------------------------
Init ==
    /\ text \in Texts
    /\ tail = text
    /\ res = Nothing
    /\ result = <<>>

chunk == ChunkUpTo(tail, Separators)
rest == From(tail, Len(chunk))
Sees(c) == result = <<>> /\ Ahead(rest) = c

\* The last chunk is a port if it is the first one as well.  An empty string has
\* nothing in it.
PortOnly ==
    /\ Sees("null")
    /\ ReturnIf(Len(tail) = Len(text) /\ IsPort(chunk),
                Complete([res EXCEPT !.port = chunk]))

\* A path, a port at the end, or a password.
Colon ==
    /\ Sees(":")
    /\ LET after == Tail(rest)
           chunk2 == ChunkUpTo(after, Separators)
           rest2 == From(after, Len(chunk2))
       IN \/ /\ Ahead(after) = "/"
             /\ Return([res EXCEPT !.unix_socket_path = after])
          \/ /\ rest2 = <<>>
             /\ ReturnIf(IsPort(chunk2),
                         Complete([res EXCEPT !.host = chunk, !.port = chunk2]))
          \/ /\ Ahead(rest2) = "@"
             /\ res' = [res EXCEPT !.user = chunk, !.password = chunk2]
             /\ tail' = Tail(rest2)
             /\ UNCHANGED <<text, result>>
          \/ /\ Ahead(after) # "/" /\ rest2 # <<>> /\ Ahead(rest2) # "@"
             /\ Return(Nothing)

\* (mutant) the login survives the change of strings
ParseEnvKeepingLogin(var) ==
    IF var \in DOMAIN Env
    THEN text' = Env[var] /\ tail' = Env[var] /\ UNCHANGED <<res, result>>
    ELSE Return(Nothing)

\* parse_cs() of what the variable holds, whose result is returned.
ParseEnv(var) ==
    IF var \in DOMAIN Env
    THEN text' = Env[var] /\ tail' = Env[var] /\ res' = Nothing /\ UNCHANGED result
    ELSE Return(Nothing)

\* A unix socket, plain or behind "unix/:", or "env/:" and a variable.
Slash ==
    /\ Sees("/")
    /\ IF Ahead(Tail(rest)) = ":"
       THEN \/ chunk = <<"env">> /\ ParseEnv(From(rest, 2))
            \/ /\ chunk # <<"env">>
               /\ ReturnIf(chunk = <<"unix">> /\ res.user = <<>>,
                           [res EXCEPT !.unix_socket_path = From(rest, 2)])
       ELSE ReturnIf(res.user = <<>>, [res EXCEPT !.unix_socket_path = rest])

\* An address in brackets, and its port.
Bracket ==
    /\ Sees("[")
    /\ LET address == ChunkUpTo(Tail(rest), {"]"})
           behind == From(Tail(rest), Len(address))
       IN ReturnIf(/\ chunk = <<>> /\ address # <<>>
                   /\ Ahead(behind) = "]" /\ Ahead(Tail(behind)) = ":"
                   /\ IsPort(From(behind, 2)),
                   Complete([res EXCEPT !.host = address, !.port = From(behind, 2)]))

\* (mutant) the separator is not removed
AtIsKept ==
    /\ Sees("@")
    /\ res' = [res EXCEPT !.user = chunk]
    /\ tail' = rest
    /\ UNCHANGED <<text, result>>

At ==
    /\ Sees("@")
    /\ res' = [res EXCEPT !.user = chunk]
    /\ tail' = Tail(rest)
    /\ UNCHANGED <<text, result>>

-----------------------------------------------------------------------------
Next == PortOnly \/ Colon \/ Slash \/ Bracket \/ At

Spec == Init /\ [][Next]_vars

\* A function that runs goes on running.
FairSpec == Spec /\ WF_vars(Next)

-----------------------------------------------------------------------------
(* What a connection string means, by its form.                            *)

\* Where a character is for the last time before p; 0 if it is not.
LastBefore(s, char, p) == CHOOSE i \in 0 .. p - 1 :
    /\ i = 0 \/ s[i] = char
    /\ \A j \in i + 1 .. p - 1 : s[j] # char

\* name@ or name:password@, any number of times.
IsLogin(s) == s = <<>> \/
    /\ s[Len(s)] = "@"
    /\ \A i \in 1..Len(s) : s[i] \notin {"/", "["}
    /\ \A i, j \in 1..Len(s) : i < j /\ s[i] = ":" /\ s[j] = ":" =>
          \E k \in i..j : s[k] = "@"

\* The last name counts, and the last password.
LoginOf(s) ==
    LET begin == LastBefore(s, "@", Len(s))
        colon == LastBefore(s, ":", Len(s) + 1)
    IN [Nothing EXCEPT
          !.user = IF s = <<>> THEN <<>> ELSE ChunkUpTo(From(s, begin), {":", "@"}),
          !.password = IF colon = 0 THEN <<>> ELSE ChunkUpTo(From(s, colon), {"@"})]

\* A name is followed by the k-th token.
Named(p, k) == \A i \in 1 .. k - 1 : p[i] \notin Separators

\* How many tokens of p are in front of a path: up to a colon, "unix/:", or the name
\* before the slash it starts with, if any.
BehindColon(p) == {k \in 1 .. Len(p) - 1 : p[k] = ":" /\ p[k + 1] = "/" /\ Named(p, k)}
BehindUnix(p) == {k \in 3..Len(p) : k = 3 /\ SubSeq(p, 1, 3) = <<"unix", "/", ":">>}
AtSlash(p) == {k - 1 : k \in {k \in 1..Len(p) : /\ p[k] = "/" /\ Named(p, k)
                                                /\ (k < Len(p) => p[k + 1] # ":")}}

\* A unix socket is a path, with ":" or "unix/:" in front of it or nothing, and no login.
SocketForms(who, p) ==
    IF who = Nothing
    THEN (BehindColon(p) \cap {1}) \cup BehindUnix(p) \cup (AtSlash(p) \cap {0})
    ELSE {}

\* What parse_cs() takes for a unix socket besides.  It looks neither for a login nor for
\* a name in front of ":/" (cs_parser.cpp:76), and in front of other paths for the name
\* of a user only (:117): it returns the login it has found, and loses other names.
Overlooked(who, p) ==
    (BehindColon(p) \cup IF who.user = <<>> THEN BehindUnix(p) \cup AtSlash(p) ELSE {})
        \ SocketForms(who, p)

\* What p can be behind the login of who: a port (where no login is), a host and a port,
\* an address in brackets and a port, or a unix socket.
Behind(n, who, p) ==
    LET place(host, port) == Complete([who EXCEPT !.host = host, !.port = port])
    IN (IF n = 0 /\ IsPort(p) THEN {place(<<>>, p)} ELSE {})
       \cup {place(SubSeq(p, 1, k - 1), From(p, k)) : k \in
               {k \in 1..Len(p) : p[k] = ":" /\ Named(p, k) /\ IsPort(From(p, k))}}
       \cup {place(SubSeq(p, 2, k - 1), From(p, k + 1)) : k \in
               {k \in 3 .. Len(p) - 2 : /\ p[1] = "[" /\ p[k] = "]" /\ p[k + 1] = ":"
                                        /\ \A i \in 2 .. k - 1 : p[i] # "]"
                                        /\ IsPort(From(p, k + 1))}}
       \cup {[who EXCEPT !.unix_socket_path = From(p, k)] : k \in
               SocketForms(who, p) \cup Overlooked(who, p)}

Meanings(s) == UNION {Behind(n, LoginOf(SubSeq(s, 1, n)), From(s, n)) :
                        n \in {n \in 0..Len(s) : IsLogin(SubSeq(s, 1, n))}}

\* A connection string gets the one meaning its form has, with the defaults the code
\* adds, and one of no form (a port that is no uint16, two colons, a bracket that is not
\* closed...) gets none: parts that were recognised first do not leak out, nor does what
\* is in front of a variable's name.  The exception are unix sockets: a login in front of
\* one is a form the code does not support (cs_parser.cpp:12), but it refuses some of
\* these strings only.  The others, and those with a stray name, get what is Overlooked.
ParsedAsMeant ==
    result # <<>> =>
        /\ Meanings(text) = {} => result = <<Nothing>>
        /\ Meanings(text) # {} => Meanings(text) = {result[1]}

\* parse_cs() returns, from whatever string, if variables do not name each other in a
\* circle.
ParseEnds == <>(result # <<>>)
=============================================================================
