--------------------------- MODULE MCFluxWeights ---------------------------
(***************************************************************************)
(* Instances of FluxWeights for TLC.                                       *)
(***************************************************************************)
EXTENDS FluxWeights

\* The final layer is judged whole, the text encoder by its first and last files
\* among others, the transformer and the VAE not by their last, the VAE not by its
\* first either.
FluxSize ==
  [transformer |-> 2, final |-> 1, text |-> 3, tokenizer |-> 1, vae |-> 3]
FluxJudged ==
  [transformer |-> {1}, final |-> {1}, text |-> {1, 2, 3}, tokenizer |-> {1}, vae |-> {2}]
FluxAsked == [FluxJudged EXCEPT !.text = {1, 3}]

AllShards == [transformer |-> {1, 2}, text |-> {1, 2, 3}]
PacksOnly == [packed |-> Packs, legacy |-> {}, atRoot |-> FALSE, raw |-> AllShards]
PacksAndVae == [PacksOnly EXCEPT !.legacy = {"vae"}, !.atRoot = TRUE]

\* No packs, the VAE under a prefix, and a local snapshot of the raw repository that
\* holds some shards and no index: of the text encoder, which is judged ready when
\* its second file is missing, or of the transformer.
NoIndex(shards) == [packed |-> {}, legacy |-> {"vae"}, atRoot |-> FALSE, raw |-> shards]
SeveralRepos ==
  {PacksOnly, PacksAndVae, NoIndex([AllShards EXCEPT !.text = {1, 3}]),
   NoIndex([AllShards EXCEPT !.transformer = {1}])}
OneRepo == {PacksAndVae}

Config(force, default) == [force |-> force, auto |-> TRUE, default |-> default]
AllConfigs ==
  {Config(force, default) : force \in BOOLEAN, default \in BOOLEAN} \cup
  {[force |-> FALSE, auto |-> FALSE, default |-> TRUE]}
DefaultConfig == {Config(FALSE, TRUE)}

=============================================================================
