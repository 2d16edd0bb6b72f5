---- MODULE MCBotReceipts ----
(* Two messages, one of which is delivered again with another body, and the   *)
(* callbacks that are answered without the journal or refused at a check.     *)
EXTENDS BotReceipts, TLC

Sent(m, b) ==
  [framed |-> TRUE, headed |-> TRUE, age |-> "fresh", signed |-> TRUE, body |-> "encrypted",
   type |-> "message", token |-> TRUE, account |-> TRUE,
   chat |-> IF m = "m1" THEN "p2p" ELSE "group", mentions |-> {"bot"}, content |-> TRUE,
   receipt |-> [message |-> m, body |-> b]]

MCRequest ==
  {Sent("m1", "b1"), Sent("m1", "b2"), Sent("m2", "b1"),
   [Sent("m2", "b1") EXCEPT !.mentions = {"person"}],
   [Sent("m2", "b1") EXCEPT !.age = "stale"],
   [Sent("m2", "b1") EXCEPT !.account = FALSE],
   [Sent("m1", "b1") EXCEPT !.type = "url_verification", !.body = "plain"]}
====
