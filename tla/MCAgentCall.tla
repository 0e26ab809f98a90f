---------------------------- MODULE MCAgentCall ----------------------------
(* Small instances of AgentCall. *)
EXTENDS AgentCall

deployment(r, p, k, s) == [runner |-> r, provider |-> p, keys |-> k, scope |-> s]
BothKeys == {"openai", "anthropic"}

(* Either provider first, with and without a fallback or its own key, the
   mock, and a scope without files. *)
Deployments ==
  {deployment("in_process", p, k, TRUE) : p \in {"openai", "anthropic"},
                                          k \in {BothKeys, {"openai"}}}
  \cup {deployment("celery", "openai", BothKeys, TRUE),
        deployment("in_process", "mock", {}, TRUE),
        deployment("in_process", "openai", BothKeys, FALSE)}

Default == {deployment("in_process", "openai", BothKeys, TRUE)}

item(path, category, first, last) ==
  [path |-> path, category |-> category, first |-> first, last |-> last, wellFormed |-> TRUE]

Good == item("app", <<"security", "xss">>, 3, 3)
Whole == item("app", <<"security">>, None, None)
Reversed == item("app", <<"security">>, 4, 3)
Elsewhere == item("lib", <<"security">>, 3, 4)
Foreign == item("app", <<"securityx">>, 3, 4)
Malformed == [Good EXCEPT !.wellFormed = FALSE]

Texts == {Noise, <<Reversed, Good, Whole>>, <<Elsewhere, Foreign>>, <<Whole, Malformed>>}

Touched == {"app"}
Security == {<<"security">>}
=============================================================================
