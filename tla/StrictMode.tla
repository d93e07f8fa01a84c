----------------------------- MODULE StrictMode -----------------------------
(***************************************************************************)
(* The input checks of the Python SDK: what strict mode lets through.      *)
(***************************************************************************)
EXTENDS Wire

Digits  == 48..57
Letters == 65..90 \cup 97..122
Colon   == 58

TokenChars   == Digits \cup Letters \cup {45, 46, 58, 95}   \* [A-Za-z0-9._:-]
PatternChars == TokenChars \cup {42}                        \* and *

FullMatch(chars, s) == s # <<>> /\ \A i \in DOMAIN s : s[i] \in chars

HasDoubleColon(s) ==
    \E i \in 1..(Len(s) - 1) : s[i] = Colon /\ s[i + 1] = Colon

NamespaceAccepted(ns) ==
    ns # None => ~HasDoubleColon(Strip(ns)) /\ FullMatch(TokenChars, Strip(ns))

\* Variant: the key is looked at without its surrounding blanks, as a
\* pattern is, although it is sent with them.
ValidateStrippedKey(strict, key, ns) ==
    strict => FullMatch(TokenChars, Strip(key)) /\ NamespaceAccepted(ns)

ValidateCoreInputs(strict, key, ns) ==
    strict => FullMatch(TokenChars, key) /\ NamespaceAccepted(ns)

ValidatePatternInputs(strict, pattern, ns) ==
    strict => FullMatch(PatternChars, Strip(pattern)) /\ NamespaceAccepted(ns)

\* Which check each operation makes.
Validate(strict, c) ==
    CASE c.op \in {"ping", "stats", "auth", "event"} -> TRUE
      [] c.op \in {"delete_by_pattern", "set_ttl_by_pattern"} ->
            ValidatePatternInputs(strict, c.key, c.ns)
      [] OTHER -> ValidateCoreInputs(strict, c.key, c.ns)

(***************************************************************************)
(* The X-Ditto-Namespace header.  A namespace is a sequence of UTF-8       *)
(* bytes; http.client sends a header in Latin-1.                           *)
(***************************************************************************)

\* A character beyond Latin-1 has a first byte above 195.
OutsideLatin1(s) == \E i \in DOMAIN s : s[i] >= 196

\* The characters of Latin-1 above ASCII take two bytes in UTF-8, one here.
Latin1(s) ==
    IF \A i \in DOMAIN s : s[i] < 128 THEN s
    ELSE FlattenSeq([i \in DOMAIN s |->
             CASE s[i] \in {194, 195}                      -> <<>>
               [] i > 1 /\ s[i] > 127 /\ s[i - 1] = 195    -> <<s[i] + 64>>
               [] OTHER                                    -> <<s[i]>>])

\* A line break that no blank follows cannot be in a header's value.
HasLineBreak(s) ==
    \E i \in DOMAIN s :
       LET next == IF i < Len(s) THEN {s[i + 1]} ELSE {}
       IN  \/ s[i] = 10 /\ next \cap {9, 32} = {}
           \/ s[i] = 13 /\ next \cap {9, 10, 32} = {}

HeaderRefused(ns) ==
    HasNamespace(ns) /\ (OutsideLatin1(Strip(ns)) \/ HasLineBreak(Strip(ns)))

\* The value of the header, None when it is not sent.
NamespaceHeaders(ns) == IF HasNamespace(ns) THEN Latin1(Strip(ns)) ELSE None
=============================================================================
