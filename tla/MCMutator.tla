---- MODULE MCMutator ----
(***************************************************************************)
(* Mutator with a prepared store of one global recipe, two for names and   *)
(* two for hashes, of which the caches hold one of each kind less, and a   *)
(* later batch that replaces all or only the global one.                   *)
(***************************************************************************)
EXTENDS Mutator, TLC

MCStrategies == 1..5
MCMode == <<"global", "seed_id", "seed_hash", "global", "seed_id">>
MCKey == <<"", "e1", "h2", "", "e2">>
MCPriority == <<1, 2, 2, 1, 2>>
MCFirstBatch == <<1, 2, 3>>
MCBatches == {<<4>>, <<4, 5>>}
MCHashOf == "e1" :> "h1" @@ "e2" :> "h2"
====
