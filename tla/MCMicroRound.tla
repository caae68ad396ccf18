----------------------------- MODULE MCMicroRound -----------------------------
(* MicroRound on two seeds and answers with the proposals that are treated   *)
(* differently: a stage of its own, one meant for the control stage, an      *)
(* unknown action at a stage nobody runs, no action at all, and a decision   *)
(* that is not usable.                                                       *)
EXTENDS MicroRound

Proposal(action, stage, token) ==
  [action |-> action, stage |-> stage, tokens |-> {token}, depends |-> NoId]

Usable(proposals) == [usable |-> TRUE, proposals |-> proposals]

MCAnswers ==
  {<<>>,
   <<Usable(<<Proposal("dictionary_probe", 0, "t1"),
              [Proposal("per_seed_recipe_probe", 3, "t2") EXCEPT !.depends = <<0, 9>>]>>)>>,
   <<Usable(<<Proposal("splice", 9, "t1"), Proposal("", 1, "t2")>>),
     [usable |-> FALSE, proposals |-> <<Proposal("dictionary_probe", 1, "t3")>>]>>}

MCSeeds == 1 .. 2
MCFirst == {1}
MCExtras == {0, 3}
=============================================================================
