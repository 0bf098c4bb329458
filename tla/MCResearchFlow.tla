--------------------------- MODULE MCResearchFlow ---------------------------
(* Small instances of ResearchFlow: a chain of three tasks, and the plans  *)
(* and provider answers that change, share or withhold something.          *)
EXTENDS ResearchFlow

One == Need(1, {"SUPPORTING"})
Two == Need(2, {"SUPPORTING"})
Against == Need(1, {"COUNTER"})

Market == Task("market", {}, [value |-> One], "external", "v1")
MarketChanged == [Market EXCEPT !.text = "v2"]
Peers == Task("peers", {"market"}, [growth |-> Two], "external", "v1")
Risk == Task("risk", {"peers"}, [downside |-> Against, upside |-> One], "runtime", "v1")
Outlook == Task("outlook:eu", {"market"}, [value |-> One], "external", "v1")
MCPrefix(id) == IF id = "outlook:eu" THEN "outlook" ELSE id

In(state, task) == [task EXCEPT !.state = state]

SomePlans ==
  { <<Market, Peers, Risk>>,
    <<MarketChanged, Peers>>,                              \* a changed root
    <<[Market EXCEPT !.deps = {"risk"}]>>,                 \* a cycle once merged
    <<Outlook>>,                                           \* a new task, with a colon
    <<In("COMPLETED", Market), In("RUNNING", Outlook)>>,   \* states that nothing resets
    <<Market, In("FAILED", Outlook)>>,
    <<[Peers EXCEPT !.deps = {"nothing"}], Market>>,       \* an unknown dependency
    <<[Market EXCEPT !.needs = << >>]>>,                   \* nothing required
    <<Market, Market>> }

Found(object, version, supported) ==
  [object |-> object, version |-> version, supported |-> supported]
Answer(found) == [found |-> found, eligible |-> {"value", "growth", "market-signal", "risk-signal", "fundamental-signal"}]

SomeAnswers ==
  { Answer(<<Found("a", 1, TRUE), Found("b", 1, TRUE)>>),
    Answer(<<Found("c", 1, TRUE), Found("d", 1, TRUE)>>),
    Answer(<<Found("c", 1, TRUE), Found("d", 1, TRUE), Found("e", 1, TRUE)>>),
    Answer(<<Found("a", 1, FALSE), Found("a", 1, TRUE)>>),
    Answer(<<Found("a", 2, TRUE), Found("a", 1, TRUE)>>),
    [found |-> <<Found("b", 1, TRUE)>>, eligible |-> {}] }
=============================================================================
