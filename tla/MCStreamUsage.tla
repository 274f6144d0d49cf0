---------------------------- MODULE MCStreamUsage ----------------------------
(***************************************************************************)
(* Instances of StreamUsage for TLC.                                       *)
(***************************************************************************)
EXTENDS StreamUsage

\* OpenAI sends usage with the last chunk, or a null before it, or zeros in every
\* chunk; Anthropic the input in message_start and the output in message_delta.
Content == [f \in {} |-> 0]
OpenAI == <<Content, [in |-> 1, out |-> 2]>>
Zeros == <<[in |-> 0, out |-> 0], [in |-> 1, out |-> 2]>>
Anthropic == <<[in |-> 2, out |-> 1], Content, [out |-> 2]>>
Silent == <<Content>>

MCScripts == {OpenAI, Zeros, Anthropic, Silent}

=============================================================================
