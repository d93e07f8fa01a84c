--------------------------- MODULE MCPythonClients ---------------------------
(***************************************************************************)
(* Calls and responses for TLC.  Each operation is tried with the values   *)
(* at which something changes, one argument at a time where they do not    *)
(* influence each other.                                                   *)
(***************************************************************************)
EXTENDS PythonClients

\* "a", "", " a", "a/incr", "%2F?", "é"
MCKeys       == {<<97>>, <<>>, <<32, 97>>, <<97>> \o IncrSuffix, <<37, 50, 70, 63>>, <<195, 169>>}
MCPatterns   == {<<97, 42>>, <<97, 42, 32>>, <<42, 47>>, <<32>>}
\* None, "", "b", " b", "b::", ":", "b/", "é", "Ā", "a\nb"
MCNamespaces == {None, <<>>, <<98>>, <<32, 98>>, <<98, 58, 58>>, <<58>>, <<98, 47>>,
                 <<195, 169>>, <<196, 128>>, <<97, 10, 98>>}
MCTtls       == {-1, 0, 1, 300}
MCDeltas     == {0, 1, -1, 2^(WordBits - 1) - 1, -(2^(WordBits - 1)), 2^(WordBits - 1)}

MCCalls ==
    LET c == [NoCall EXCEPT !.key = <<97>>]
        keyed(op) == {[c EXCEPT !.op = op, !.key = k] : k \in MCKeys}
                         \cup {[c EXCEPT !.op = op, !.ns = n] : n \in MCNamespaces}
        timed(op) == {[c EXCEPT !.op = op, !.ttl = t, !.ns = n] :
                         t \in MCTtls, n \in {None, <<98>>}}
    IN  {[NoCall EXCEPT !.op = op] : op \in {"ping", "stats"}}
        \cup UNION {keyed(op) : op \in {"get", "set_nx", "incr", "delete"}}
        \cup {[c EXCEPT !.op = op, !.ns = n] : op \in {"watch", "unwatch"}, n \in {None, <<32, 98>>}}
        \cup timed("set") \cup timed("set_nx")
        \cup {[c EXCEPT !.op = "set", !.value = <<195, 169>>],
              [c EXCEPT !.op = "set_nx", !.value = <<0, 255>>]}
        \cup {[c EXCEPT !.op = "incr", !.delta = d, !.ttl = t] :
                  d \in MCDeltas, t \in {0, 300}}
        \cup {[c EXCEPT !.op = op, !.key = p, !.ns = n] :
                  op \in {"delete_by_pattern", "set_ttl_by_pattern"}, p \in MCPatterns,
                  n \in {None, <<98>>, <<32>>}}
        \cup {[x EXCEPT !.key = <<97, 42>>] : x \in timed("set_ttl_by_pattern")}

\* Errors 0 and 13 are the first and the last that this SDK knows.
MCErrors ==
    {[type |-> "Error", code |-> i, name |-> IF i < 14 THEN ErrorCodeName(i) ELSE "NewCode"] :
        i \in {0, 12, 13, 14}}

MCResponses ==
    LET big == 2^WordBits - 1
    IN  MCErrors
        \cup {[type |-> t] : t \in SimpleResponses}
        \cup {[type |-> "Value", value |-> v, version |-> n] :
                  v \in {<<>>, <<97>>, <<0, 255>>}, n \in {0, big}}
        \cup {[type |-> "Ok", version |-> n] : n \in {0, 127, 128, big}}
        \cup {[type |-> "SetNx", created |-> b, version |-> n] :
                  b \in BOOLEAN, n \in {0, big}}
        \cup {[type |-> "Counter", count |-> d, version |-> 1] :
                  d \in MCDeltas \ {2^(WordBits - 1)}}
        \cup {[type |-> t, count |-> n] :
                  t \in {"PatternDeleted", "PatternTtlUpdated"}, n \in {0, 128}}
        \cup {[type |-> "WatchEvent", key |-> <<97>>, value |-> v, version |-> 1] :
                  v \in {None, <<>>, <<0, 255>>}}
        \cup {[type |-> "Stats", fields |-> {"node_id", "key_count", "not_known_here"}]}

\* One of each kind of request where events may come between.
MCWatchingCalls ==
    {[NoCall EXCEPT !.op = op, !.key = <<97>>] : op \in {"set", "watch", "unwatch"}}

MCWatchingFrames ==
    LET event == [type |-> "WatchEvent", key |-> <<97>>, value |-> <<0, 255>>, version |-> 1]
    IN  {<<event, "plain">>, <<[type |-> "Ok", version |-> 0], "extended">>,
         <<[type |-> "Watching"], "plain">>, <<[type |-> "Unwatched"], "plain">>,
         <<[type |-> "AuthOk"], "plain">>, <<[type |-> "Pong"], "truncated">>,
         <<[type |-> "Pong"], "oversized">>}

MCToken == <<116>>
=============================================================================
