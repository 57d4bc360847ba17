----------------------------- MODULE TokenHandler -----------------------------
(***************************************************************************)
(* Authorization tokens (src/auth/tokenHandler.cc): the two encodings of a *)
(* macaroon and the file the client keeps it in.                           *)
(*                                                                         *)
(* A macaroon is its own serialization, a sequence of characters; the      *)
(* library accepts exactly the strings of MacaroonLength characters, since *)
(* a serialization holds the lengths of its parts.  An optional value is a *)
(* set with at most one element.                                           *)
(***************************************************************************)
EXTENDS Integers, Sequences, SequencesExt, FiniteSets

CONSTANTS Alphabet,        \* characters of a serialized macaroon
          MacaroonLength   \* of every serialized macaroon

\* restricted macaroons, in minutes: authManager.h, tokenHandler.h
RESTRICTED_MACAROON_EXPIRATION == 15

Macaroons == [1..MacaroonLength -> Alphabet]

\* Macaroon::deserialize() of the library
MacaroonOf(string) ==
    {m \in {string} : Len(m) = MacaroonLength /\ \A i \in DOMAIN m : m[i] \in Alphabet}

\* ------------------------------------------------------------- the encodings
Coding == [c \in {"0", "_", "-", "/", "+", "="} |->
               CASE c = "0" -> "0" [] c = "_" -> "1" [] c = "-" -> "2"
                 [] c = "/" -> "3" [] c = "+" -> "4" [] c = "=" -> "5"]

Encode62(token64) ==
    FoldLeft(LAMBDA out, c : out \o IF c \in DOMAIN Coding THEN <<"0", Coding[c]>> ELSE <<c>>,
             <<>>, token64)

\* Variant: the character after the escape is taken as it is.
DecodedAfterEscapeRaw(c) == {c}

\* The characters that "0" and c together stand for.
DecodedAfterEscape(c) == {d \in DOMAIN Coding : Coding[d] = c}

Decode62(token62) ==
    LET Step(s, c) ==
            IF s.escape
            THEN [s EXCEPT !.escape = FALSE,
                           !.ok  = s.ok /\ DecodedAfterEscape(c) # {},
                           !.out = s.out \o SetToSeq(DecodedAfterEscape(c))]
            ELSE IF c = "0" THEN [s EXCEPT !.escape = TRUE]
                            ELSE [s EXCEPT !.out = Append(@, c)]
        final == FoldLeft(Step, [out |-> <<>>, escape |-> FALSE, ok |-> TRUE], token62)
    IN  {o \in {final.out} : final.ok /\ ~final.escape}

Deserialize(token) ==
    LET as62 == UNION {MacaroonOf(d) : d \in Decode62(token)}
    IN  IF as62 # {} THEN as62 ELSE MacaroonOf(token)

\* ------------------------------------------------------ where tokens come from
\* readTokenFromFile(): a file without a whole line reads as no token.
ReadTokenFromFile(file) ==
    UNION {Deserialize(content.line) : content \in {c \in file : c.complete}}

\* persistMacaroon(): opening truncates the file, then the line is written.
TruncatedFile == {[line |-> <<>>, complete |-> FALSE]}

PersistedFile(macaroon) == {[line |-> macaroon, complete |-> TRUE]}

GetTokenFromOptions(given) == UNION {Deserialize(t) : t \in given}

GetTokenFromUser(typed) == UNION {Deserialize(t) : t \in typed}

\* The token, where it comes from, and nothing if the user gives none.
RetrieveToken(given, file, typed) ==
    LET found(tokens, source) == {[macaroon |-> m, source |-> source] : m \in tokens}
    IN  IF GetTokenFromOptions(given) # {} THEN found(GetTokenFromOptions(given), "options")
        ELSE IF ReadTokenFromFile(file) # {} THEN found(ReadTokenFromFile(file), "file")
        ELSE found(GetTokenFromUser(typed), "user")

\* The restricted macaroon is the macaroon with a caveat on the time.
RestrictMacaroon(macaroon, now) ==
    [macaroon |-> macaroon, before |-> now + RESTRICTED_MACAROON_EXPIRATION]

\* ------------------------------------------------------------- the property
\* A macaroon survives both ways it leaves the client: encode62() and back, as
\* the provider and the user's clipboard see it, and the token file, which holds
\* the other encoding and is read by the same deserialize().
TokenRoundTrip ==
    \A m \in Macaroons :
        /\ Decode62(Encode62(m)) = {m}
        /\ Deserialize(Encode62(m)) = {m}
        /\ ReadTokenFromFile(PersistedFile(m)) = {m}
===============================================================================
