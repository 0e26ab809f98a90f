------------------------------ MODULE MCDecision ------------------------------
(* Small instances of Decision: the findings of two agents in one file. *)
EXTENDS Decision, TLC

FourFindings == {1, 2, 3, 4}

(* The ids are ordered unlike the positions. *)
HashOrder == [f \in FourFindings |-> (3 * f) % 5]

(* Topic 2 is like 1 and 3, which are not alike. *)
Neighbouring == {<<a, b>> \in (1 .. 3) \X (1 .. 3) : Distance(a, b) <= 1}

XSS == <<"security", "xss">>
Security == <<"security">>
Style == <<"style">>

Say(agent, severity, confidence, topic, category, start, end) ==
  [valid |-> TRUE, agent |-> agent, severity |-> severity, confidence |-> confidence,
   topic |-> topic, category |-> category, file |-> 1, start |-> start, end |-> end,
   relevance |-> 0, context |-> 0]

Variety == {
  Say("a", "critical", 300, 1, XSS, 10, 12),
  Say("b", "low", 360, 2, Security, 11, 11),
  Say("b", "low", 300, 1, Security, None, None),
  Say("a", "high", 1080, 3, XSS, 14, 15),
  Say("b", "high", 600, 2, XSS, 10, 40),
  Say("a", "medium", 600, 2, Style, 30, 30),
  Say("b", "info", 1080, 3, Style, 20, 20),
  [Say("a", "medium", 600, 1, Security, 12, 12) EXCEPT !.valid = FALSE],
  [Say("a", "medium", 1080, 1, Security, 12, 12) EXCEPT !.file = 2, !.relevance = 600]}

KnownSecurity == Security :> [accepted |-> 600, rejected |-> 120] @@ Style :> [accepted |-> 0, rejected |-> 1200]

SmallBudget == [low |-> 1, medium |-> 2, high |-> 3]
SomeOverrides == {<< >>, [high |-> 1], [low |-> 2, medium |-> 1, high |-> 2]}
DefaultGates == [high_confidence |-> 960, low_confidence |-> 360, high_redundancy |-> 720]
=============================================================================
