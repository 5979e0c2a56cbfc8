-------------------------- MODULE MCZImageWeights --------------------------
(***************************************************************************)
(* Instances of ZImageWeights for TLC.                                     *)
(***************************************************************************)
EXTENDS ZImageWeights, Conversions

\* The conversions have no states; TLC evaluates what must hold of them, for all floats
\* of the small formats of the instance, before it begins.
ASSUME ConversionsHold == ConversionsFaithful

\* Of two tensors, readiness looks at the first.
FirstTensor == {1}

AllTensors == [c \in Components |-> 1 .. Tensors]
Snapshot(listed, held, tensors) == [listed |-> listed, held |-> held, tensors |-> tensors]

\* No snapshot; one that was interrupted among the shards of the transformer; one
\* that lacks the tokenizer; one of the text encoder alone, which cannot be used; and
\* two that lack an index, one with the judged shard of the text encoder alone, the
\* other without that of the transformer.
SeveralSnapshots ==
  { Snapshot({}, {}, AllTensors),
    Snapshot(Files, Files \ {"transformer"}, AllTensors),
    Snapshot(Components, Components, AllTensors),
    Snapshot({"text"}, {"text"}, AllTensors),
    Snapshot(Files, Files, [AllTensors EXCEPT !["text"] = {1}]),
    Snapshot(Files, Files, [AllTensors EXCEPT !["transformer"] = {2}]) }

=============================================================================
