-------------------------- MODULE MCWebhookIngest --------------------------
(***************************************************************************)
(* Two messages of one customer, two workers.                            *)
(***************************************************************************)
EXTENDS WebhookIngest

CONSTANTS m1, m2, p1

OneSender == [m \in {m1, m2} |-> p1]

\* Two messages, an answer of the business beside one, two clicks on a poll.
SomeKinds ==
  { [m \in {m1, m2} |-> "text"], [m \in {m1, m2} |-> "vote"],
    [m \in {m1, m2} |-> IF m = m1 THEN "text" ELSE "own"] }

\* One plan per place where things go wrong, so that each property meets the
\* plans under which it must hold.
AllPlans ==
  { {"enqueue", "slow"}, {"lead", "ai", "instance"}, {"import", "edit"}, {"send", "config"}, {"ttl", "crash"} }

\* Three failed sends end a reply, and an instance that was disconnected may be
\* registered again before something else fails; elsewhere one failure shows what
\* follows.
FaultsOf == [ps \in AllPlans |->
  IF "send" \in ps THEN 3 ELSE IF "instance" \in ps THEN 2 ELSE 1]
=============================================================================
