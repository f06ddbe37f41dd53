---- MODULE MCChatPage ----
(* Bounded instances of ChatPage. *)
EXTENDS ChatPage, TLC

Symmetry == Permutations(Requests) \cup Permutations(Tabs)
====
