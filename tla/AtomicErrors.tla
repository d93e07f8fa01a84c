---------------------------- MODULE AtomicErrors ----------------------------
(***************************************************************************)
(* How the TCP clients report a set_nx or incr that fails: an error text   *)
(* that looks as if the server did not know the operation is replaced by   *)
(* UnsupportedRequest.  A text is the set of the phrases in it that some   *)
(* client looks for, in lower case; the phrases that only the decoders     *)
(* produce ("oneof has no active field" and the like) are one, "decode".   *)
(***************************************************************************)

\* Phrases of a read or a write that fails: closed by the server, reset,
\* timed out, or (to all but the Python client) undecodable.
Causes == {"closed", "eof", "connection reset", "econnreset", "timeout", "decode"}

\* The texts with which a call that was written fails when its connection does.
LostTexts(sdk) ==
    CASE sdk = "node"              -> {{"connection lost", c} : c \in {"closed", "econnreset"}}
      [] sdk \in {"python", "java"} -> {{"outcome unknown"}}
      [] sdk = "go"                -> {{"outcome unknown", c} : c \in Causes}
      [] sdk = "rust"              -> {{"protocol", "outcome unknown"}}

\* The texts behind each outcome of a call of a blocking client.  A failed
\* dial or authentication is worded with its cause; an unexpected frame, with
\* its type, which says nothing more.
ErrorTexts(sdk, outcome) ==
    CASE outcome = "unknown"    -> LostTexts(sdk)
      [] outcome = "failed"     -> {{cause} : cause \in Causes \cup {"protocol"}}
      [] outcome = "unexpected" -> {{"unexpected response"}, {"protocol"}}
      [] OTHER                  -> {}

UnsupportedPhrases(sdk) ==
    {"unsupported", "protocol", "decode", "unexpected response"}
        \cup (IF sdk = "node" THEN {"econnreset", "socket hang up"}
              ELSE {"eof", "connection reset"})

\* Variant: the phrases are looked for first.
NormalizePhrasesFirst(sdk, text) ==
    IF text \cap UnsupportedPhrases(sdk) # {} THEN "UnsupportedRequest" ELSE "as it is"

\* The Java, Go and Rust clients leave "outcome unknown" alone; the Python
\* client has a normaliser and does not call it.
NormalizeAtomic(sdk, text) ==
    IF \/ sdk = "python"
       \/ sdk \in {"java", "go", "rust"} /\ "outcome unknown" \in text
       \/ text \cap UnsupportedPhrases(sdk) = {}
    THEN "as it is" ELSE "UnsupportedRequest"
=============================================================================
