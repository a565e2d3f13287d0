----------------------------- MODULE ClientsProofs -----------------------------
(***************************************************************************)
(* What the clients of MCClients keep, for every value of the constants.   *)
(* The steps of a client are those of its module, about which LoopsProofs  *)
(* has the facts; here they become theorems of the scenes.                 *)
(***************************************************************************)
EXTENDS MCClients, LoopsProofs

(* Which client runs does not change, and the others stand still.          *)
LEMMA OneScene ==
  ASSUME [MCNext]_all
  PROVE  /\ choice' = choice
         /\ choice = "agent" => [Agent!Next]_agentVars
         /\ choice = "coordinator" => [Coord!Next]_coordVars
         /\ choice = "harness" => [Harn!Next]_harnessVars
         /\ choice = "llamacpp" => [Llama!Next]_llamaVars
         /\ choice = "mcp" => [Mcp!Next]_mcpVars
<1>1. UNCHANGED all => UNCHANGED <<choice, agentVars, coordVars, harnessVars, llamaVars, mcpVars>>
  BY DEF all
<1> QED BY <1>1 DEF MCNext, AgentNext, CoordNext, HarnessNext, BackendNext, LlamaNext, ConfigNext, A2ANext,
                    McpNext, TextNext, BubbleNext

\* A downstream agent of the coordinator is given the outputs of all agents
\* before it, a workflow that may not go on after an error ends at the first,
\* and one that returns is finished exactly if every agent ran and finished;
\* the correcting agent answers with the earliest of its highest scores,
\* corrects nothing that passed and gives up no try that is left: for any
\* number of agents, tries and scores.
THEOREM RunnersAreChained == MCSpec => []RunnersChain
<1> DEFINE Inv == /\ choice = "coordinator" => CoordInv
                  /\ choice = "harness" => HarnessInv
<1>1. MCInit => Inv
  BY CoordStarts, HarnessStarts DEF MCInit
<1>2. Inv /\ [MCNext]_all => Inv'
  BY OneScene, CoordStep, HarnessStep
<1>3. Inv => RunnersChain
  BY HarnessHolds DEF RunnersChain, CoordInv
<1> QED BY <1>1, <1>2, <1>3, PTL DEF MCSpec

\* Whenever an agent asks the model again, each tool call of each answer so far
\* is followed, in the order of the calls, by the one message that answers it,
\* also when the tool failed or does not exist, and result.steps lists these
\* calls: for any number of iterations, of calls in an answer and of messages
\* in the memory, and whatever other invocations of the session add to it.
THEOREM CallsAreAnswered == MCSpec => []EveryCallAnswered
<1> DEFINE Inv == choice = "agent" => Agent!TypeOK /\ PlaceInv /\ PairInv
<1>1. MCInit => Inv
  BY AgentStarts, PairStarts DEF MCInit
<1>2. Inv /\ [MCNext]_all => Inv'
  BY OneScene, AgentTypesKept, PlaceKept, PairKept
<1>3. Inv => EveryCallAnswered
  BY AllAnswered DEF EveryCallAnswered
<1> QED BY <1>1, <1>2, <1>3, PTL DEF MCSpec

\* The memory of the session gets the turn of an invocation whole and in order
\* or not at all, wherever the model, a tool, the memory or the callback throws
\* and whatever other invocations add between its two messages; and the callback
\* is told an Observation for each ToolCall before the next one, and Done last,
\* after the turn is kept and only if there is an answer.
THEOREM TurnIsTold == MCSpec => []TurnTold
<1> DEFINE Inv == choice = "agent" => Agent!TypeOK /\ PlaceInv /\ TurnInv /\ TallyInv /\ DoneInv
<1>1. MCInit => Inv
  BY AgentStarts, TurnStarts, EventsStart DEF MCInit
<1>2. Inv /\ [MCNext]_all => Inv'
  BY OneScene, AgentTypesKept, PlaceKept, TurnKept, TallyKept, DoneKept
<1>3. Inv => TurnTold
  BY TurnHolds, EventsHold DEF TurnTold
<1> QED BY <1>1, <1>2, <1>3, PTL DEF MCSpec

\* A reply of a LlamacppLLM is what was streamed, but for the stop string that
\* ended it; no stop string, refusal or limit is passed over, finish_reason says
\* which it was, and the context, never cleared, holds what the calls were charged
\* for but for the last token of each: for any context, pieces and stop strings.
THEOREM GenerationIsExact == MCSpec => []GeneratedExactly
<1> DEFINE Inv == choice = "llamacpp" => GenerationInv
<1>1. MCInit => Inv
  BY GenerationStarts DEF MCInit
<1>2. Inv /\ [MCNext]_all => Inv'
  BY OneScene, GenerationStep
<1>3. Inv => GeneratedExactly
  BY GenerationHolds DEF GeneratedExactly
<1> QED BY <1>1, <1>2, <1>3, PTL DEF MCSpec

\* A response of an McpServer answers every envelope in order and under its id,
\* each call of a tool with the text of its one run or with the news that there
\* is no such tool; whatever the response, only tools that were called have run,
\* in the order of the calls, each with its phases for the hooks: for any tools,
\* any batch, and whatever is registered meanwhile.
THEOREM RepliesAnswerCalls == MCSpec => []AnswersArrive
<1> DEFINE Inv == choice = "mcp" => RpcInv
<1>1. MCInit => Inv
  BY RpcStarts DEF MCInit
<1>2. Inv /\ [MCNext]_all => Inv'
  BY OneScene, RpcStep
<1>3. Inv => AnswersArrive
  BY RpcHolds DEF AnswersArrive
<1> QED BY <1>1, <1>2, <1>3, PTL DEF MCSpec
=============================================================================
